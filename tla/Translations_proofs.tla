------------------------ MODULE Translations_proofs ------------------------
(***************************************************************************)
(* Theorems about Translations.  The turns of its loops are steps, so what *)
(* a loop computes is an invariant.                                        *)
(***************************************************************************)
EXTENDS Translations, SequenceTheorems, TLAPS

-----------------------------------------------------------------------------
(* The inductive invariant, one part for each data structure. *)
Cells == [hash: Hashes, data: Targets]
Entries == [hash: Hashes, offset: Nat]
Resources == [table: Seq(Entries), text: UNION {[S -> Targets] : S \in SUBSET Nat}]

TypeOK ==
    /\ catalogue \in Seq(Units)
    /\ fnv1a_32 \in [Keys -> Hashes]
    /\ phase \in Phases /\ at \in Nat \ {0}
    /\ units \in Seq(Cells)
    /\ offset \in Nat /\ size \in Nat
    /\ ymo \in Resources

(* The dict: one cell for each hash met, with the last usable unit for it. *)
Hash(u) == fnv1a_32[catalogue[u].source]
LastIn(us, u, h) ==
    /\ u \in us /\ Usable(catalogue[u]) /\ Hash(u) = h
    /\ \A v \in us : (Usable(catalogue[v]) /\ Hash(v) = h) => v <= u
DictOf(us, dict) ==
    /\ \A i, j \in 1..Len(dict) : dict[i].hash = dict[j].hash => i = j
    /\ \A i \in 1..Len(dict) : \E u \in us : LastIn(us, u, dict[i].hash) /\ catalogue[u].target = dict[i].data
    /\ \A u \in us : Usable(catalogue[u]) => \E i \in 1..Len(dict) : dict[i].hash = Hash(u)

Seen == IF phase = "collecting" THEN 1..(at - 1) ELSE 1..Len(catalogue)

DictInv ==
    /\ phase = "collecting" => at <= Len(catalogue) + 1
    /\ DictOf(Seen, units)

(* The table: the texts lie one after the other behind it. *)
Tabled == phase \in {"table", "texts", "built", "loading", "loaded"}
Written == IF phase = "table" THEN at - 1 ELSE Len(units)
EndOf(i) == ymo.table[i].offset + Bytes[units[i].data]

TableInv ==
    /\ phase \in {"collecting", "table"} => ymo.text = Empty
    /\ phase = "collecting" => ymo.table = <<>>
    /\ phase = "table" => at <= Len(units) + 1 /\ size = 2 + 6 * (at - 1)
    /\ Tabled =>
        /\ Len(ymo.table) = Written
        /\ Written = 0 => offset = TableBytes(Len(units))
        /\ Written > 0 => ymo.table[1].offset = TableBytes(Len(units)) /\ offset = EndOf(Written)
        /\ \A i \in 1..Written : ymo.table[i].hash = units[i].hash /\ EndOf(i) <= offset
        /\ \A i, j \in 1..Written : i < j => EndOf(i) <= ymo.table[j].offset
        /\ \A i \in 1..Written : i > 1 => ymo.table[i].offset = EndOf(i - 1)

(* The texts: each begins where its entry says. *)
Texts == IF phase = "texts" THEN at - 1 ELSE Len(units)

TextInv ==
    /\ phase = "texts" =>
        /\ at <= Len(units) + 1
        /\ size = IF at <= Len(units) THEN ymo.table[at].offset ELSE offset
    /\ phase \in {"texts", "built", "loading", "loaded"} =>
        /\ DOMAIN ymo.text = {ymo.table[i].offset : i \in 1..Texts}
        /\ \A i \in 1..Texts : ymo.text[ymo.table[i].offset] = units[i].data
        /\ size <= offset

(* The map: the cells whose texts begin before the resource is cut off; one
   of them may end behind the cut.                                         *)
Loaded(i) == IF EndOf(i) <= size THEN units[i].data ELSE Garbage
Read == IF phase = "loading" THEN at - 1 ELSE Len(units)

MapInv ==
    /\ phase = "loading" => at <= Len(units) + 1
    /\ IF phase \in {"loading", "loaded"}
       THEN /\ DOMAIN g_hashToStrMap = {units[i].hash : i \in {j \in 1..Read : ymo.table[j].offset < size}}
            /\ \A i \in 1..Read : ymo.table[i].offset < size => g_hashToStrMap[units[i].hash] = Loaded(i)
       ELSE g_hashToStrMap = Empty

(* The cache and the last answer agree with the map. *)
Fresh(k) == IF fnv1a_32[k] \in DOMAIN g_hashToStrMap THEN g_hashToStrMap[fnv1a_32[k]] ELSE k

LookupInv ==
    /\ phase \notin {"loaded", "none"} => DOMAIN ptrToStrMap = {} /\ said = {}
    /\ \A k \in DOMAIN ptrToStrMap : ptrToStrMap[k] = Fresh(k)
    /\ \A answer \in said :
        /\ answer.asked \in Keys
        /\ answer.returned = IF Fresh(answer.asked) = answer.asked THEN English(answer.asked)
                             ELSE Fresh(answer.asked)

IInv == TypeOK /\ DictInv /\ TableInv /\ TextInv /\ MapInv /\ LookupInv

-----------------------------------------------------------------------------
(* What is in the sequences. *)
LEMMA Elements ==
    ASSUME TypeOK
    PROVE  /\ Len(catalogue) \in Nat /\ Len(units) \in Nat /\ Len(ymo.table) \in Nat
           /\ DOMAIN catalogue = 1..Len(catalogue) /\ DOMAIN units = 1..Len(units)
           /\ \A i \in 1..Len(catalogue) : catalogue[i] \in Units
           /\ \A i \in 1..Len(units) : units[i] \in Cells /\ units[i].hash \in Hashes
                                        /\ units[i].data \in Targets /\ Bytes[units[i].data] \in Nat \ {0}
           /\ \A i \in 1..Len(ymo.table) : ymo.table[i] \in Entries /\ ymo.table[i].offset \in Nat
  <1>1. ymo.table \in Seq(Entries)
    BY DEF TypeOK, Resources
  <1>2. /\ Len(catalogue) \in Nat /\ Len(units) \in Nat /\ Len(ymo.table) \in Nat
        /\ DOMAIN catalogue = 1..Len(catalogue) /\ DOMAIN units = 1..Len(units)
    BY <1>1, LenProperties DEF TypeOK
  <1>3. /\ \A i \in 1..Len(catalogue) : catalogue[i] \in Units
        /\ \A i \in 1..Len(units) : units[i] \in Cells
        /\ \A i \in 1..Len(ymo.table) : ymo.table[i] \in Entries
    BY <1>1, ElementOfSeq DEF TypeOK
  <1>. QED
    BY <1>2, <1>3, TranslationsAssumption DEF Cells, Entries

(* A usable unit has a hash and a translation. *)
LEMMA UsableUnit ==
    ASSUME TypeOK, NEW u \in 1..Len(catalogue)
    PROVE  /\ Hash(u) \in Hashes
           /\ Usable(catalogue[u]) => catalogue[u].target \in Targets
  BY Elements DEF Hash, Usable, Units, TypeOK

(* What Assign makes of the dict. *)
Assigned(new, h, t) ==
    /\ \A i, j \in 1..Len(new) : new[i].hash = new[j].hash => i = j
    /\ \A i \in 1..Len(new) :
          \/ new[i] = [hash |-> h, data |-> t]
          \/ new[i].hash # h /\ \E j \in 1..Len(units) : new[i] = units[j]
    /\ \E i \in 1..Len(new) : new[i].hash = h
    /\ \A j \in 1..Len(units) : \E i \in 1..Len(new) : new[i].hash = units[j].hash

LEMMA AssignCells ==
    ASSUME TypeOK, DictInv, NEW h \in Hashes, NEW t \in Targets
    PROVE  Assign(h, t) \in Seq(Cells) /\ Assigned(Assign(h, t), h, t)
  <1>. PICK new : new = Assign(h, t)
    OBVIOUS
  <1>. DEFINE cell == [hash |-> h, data |-> t]
  <1>0. cell \in Cells /\ cell.hash = h /\ cell.data = t
    BY DEF Cells
  <1>u. units \in Seq(Cells) /\ Len(units) \in Nat /\ DOMAIN units = 1..Len(units)
    BY Elements DEF TypeOK
  <1>1. CASE \E i \in DOMAIN units : units[i].hash = h
    <2>1. new = [i \in 1..Len(units) |-> IF units[i].hash = h THEN cell ELSE units[i]]
      BY <1>1, <1>u, Zenon DEF Assign
    <2>2. new \in Seq(Cells) /\ Len(new) = Len(units)
      <3>1. \A i \in 1..Len(units) : (IF units[i].hash = h THEN cell ELSE units[i]) \in Cells
        BY <1>0, Elements
      <3>. HIDE DEF cell
      <3>2. new \in [1..Len(units) -> Cells]
        BY <2>1, <3>1
      <3>. QED
        BY <1>u, <3>2, LenProperties, SeqDef
    <2>. HIDE DEF cell
    <2>3. \A i \in 1..Len(units) : new[i] = IF units[i].hash = h THEN cell ELSE units[i]
      BY <2>1
    <2>4. \A i \in 1..Len(units) : new[i].hash = units[i].hash
      BY <2>3, <1>0
    <2>5. \A i, j \in 1..Len(new) : new[i].hash = new[j].hash => i = j
      BY <2>2, <2>4 DEF DictInv, DictOf
    <2>6. \A i \in 1..Len(new) : new[i] = cell \/ (new[i].hash # h /\ \E j \in 1..Len(units) : new[i] = units[j])
      BY <2>2, <2>3
    <2>7. \E i \in 1..Len(new) : new[i].hash = h
      BY <1>1, <1>u, <2>2, <2>4
    <2>. QED
      BY <2>2, <2>4, <2>5, <2>6, <2>7, SMTT(30) DEF cell, Assigned
  <1>2. CASE ~ \E i \in DOMAIN units : units[i].hash = h
    <2>1. new = Append(units, cell)
      BY <1>2 DEF Assign
    <2>2. /\ new \in Seq(Cells) /\ Len(new) = Len(units) + 1
          /\ \A i \in 1..Len(units) : new[i] = units[i]
          /\ new[Len(units) + 1] = cell
      BY <1>0, <1>u, <2>1, AppendProperties
    <2>. HIDE DEF cell
    <2>3. \A i \in 1..Len(units) : new[i].hash = units[i].hash /\ units[i].hash # h
      BY <1>2, <1>u, <2>2
    <2>4. \A i \in 1..Len(new) : i \in 1..Len(units) \/ i = Len(units) + 1
      BY <1>u, <2>2
    <2>5. \A i, j \in 1..Len(new) : new[i].hash = new[j].hash => i = j
      BY <1>0, <2>2, <2>3, <2>4 DEF DictInv, DictOf
    <2>6. \A i \in 1..Len(new) : new[i] = cell \/ (new[i].hash # h /\ \E j \in 1..Len(units) : new[i] = units[j])
      BY <2>2, <2>3, <2>4
    <2>7. Len(units) + 1 \in 1..Len(new) /\ \A i \in 1..Len(units) : i \in 1..Len(new)
      BY <1>u, <2>2
    <2>8. new[Len(units) + 1].hash = h
      BY <1>0, <2>2
    <2>. QED
      BY <2>2, <2>3, <2>5, <2>6, <2>7, <2>8 DEF cell, Assigned
  <1>. QED
    BY <1>1, <1>2


-----------------------------------------------------------------------------
LEMMA InitInv == Init => IInv
  <1>. SUFFICES ASSUME Init PROVE IInv
    OBVIOUS
  <1>1. catalogue \in Seq(Units)
    <2>1. PICK n \in 0..MaxUnits : catalogue \in [1..n -> Units]
      BY TranslationsAssumption DEF Init
    <2>. QED
      BY <2>1, SeqDef, TranslationsAssumption
  <1>2. Empty \in [{} -> Targets] /\ DOMAIN Empty = {}
    BY DEF Empty
  <1>3. ymo \in Resources
    <2>1. Empty \in UNION {[S -> Targets] : S \in SUBSET Nat}
      BY <1>2
    <2>2. <<>> \in Seq(Entries)
      BY EmptySeq
    <2>. QED
      BY <2>1, <2>2 DEF Init, Resources
  <1>4. TypeOK
    BY <1>1, <1>3, EmptySeq DEF Init, TypeOK, Phases
  <1>5. DictInv
    <2>1. Len(units) = 0 /\ Seen = {}
      BY DEF Init, Seen
    <2>. QED
      BY <1>1, <2>1, LenProperties DEF DictInv, DictOf, Init
  <1>6. TableInv /\ TextInv
    BY DEF TableInv, TextInv, Init, Tabled
  <1>7. MapInv /\ LookupInv
    BY <1>2 DEF MapInv, LookupInv, Init
  <1>. QED
    BY <1>4, <1>5, <1>6, <1>7 DEF IInv

LEMMA TypeStep == TypeOK /\ DictInv /\ [Next]_vars => TypeOK'
  <1>. SUFFICES ASSUME TypeOK, DictInv, [Next]_vars PROVE TypeOK'
    OBVIOUS
  <1>e. ymo.table \in Seq(Entries) /\ ymo.text \in UNION {[S -> Targets] : S \in SUBSET Nat}
        /\ ymo = [table |-> ymo.table, text |-> ymo.text]
    BY DEF TypeOK, Resources
  <1>1. CASE UNCHANGED vars
    BY <1>1 DEF vars, source, file, lookup, TypeOK
  <1>2. CASE CollectUnit
    <2>1. at \in 1..Len(catalogue)
      BY <1>2, Elements DEF CollectUnit, TypeOK
    <2>2. units' \in Seq(Cells)
      <3>1. CASE Usable(catalogue[at])
        <4>1. Hash(at) \in Hashes /\ catalogue[at].target \in Targets
          BY <2>1, <3>1, UsableUnit
        <4>2. Assign(Hash(at), catalogue[at].target) \in Seq(Cells)
          BY <4>1, AssignCells
        <4>. QED
          BY <1>2, <3>1, <4>2 DEF CollectUnit, Hash
      <3>2. CASE ~Usable(catalogue[at])
        BY <1>2, <3>2 DEF CollectUnit, TypeOK
      <3>. QED
        BY <3>1, <3>2
    <2>. QED
      BY <1>2, <2>2 DEF CollectUnit, source, file, TypeOK
  <1>3. CASE WriteLength
    BY <1>3, Elements DEF WriteLength, source, TypeOK, TableBytes, Phases
  <1>4. CASE WriteEntry
    <2>1. at \in 1..Len(units)
      BY <1>4, Elements DEF WriteEntry, TypeOK
    <2>2. offset' \in Nat /\ size' \in Nat /\ at' \in Nat \ {0}
      <3>1. Bytes[units[at].data] \in Nat
        BY <2>1, Elements
      <3>. QED
        BY <1>4, <3>1 DEF WriteEntry, TypeOK
    <2>3. [hash |-> units[at].hash, offset |-> offset] \in Entries
      BY <2>1, Elements DEF Entries, TypeOK
    <2>4. ymo' \in Resources
      <3>1. Append(ymo.table, [hash |-> units[at].hash, offset |-> offset]) \in Seq(Entries)
        BY <1>e, <2>3, AppendProperties
      <3>2. ymo' = [table |-> Append(ymo.table, [hash |-> units[at].hash, offset |-> offset]), text |-> ymo.text]
        BY <1>4, <1>e DEF WriteEntry
      <3>. QED
        BY <1>e, <3>1, <3>2 DEF Resources
    <2>. QED
      BY <1>4, <2>2, <2>4 DEF WriteEntry, source, TypeOK
  <1>5. CASE WriteEntryOverflows \/ TextsEnd \/ LoadsNothing \/ LoadEnds
    BY <1>5 DEF WriteEntryOverflows, TextsEnd, LoadsNothing, LoadEnds, source, file, TypeOK, Phases
  <1>6. CASE TableEnds \/ LoadTable
    BY <1>6 DEF TableEnds, LoadTable, source, file, TypeOK, Phases
  <1>7. CASE WriteText
    <2>1. at \in 1..Len(units)
      BY <1>7, Elements DEF WriteText, TypeOK
    <2>2. size' \in Nat /\ at' \in Nat \ {0}
      BY <1>7, <2>1, Elements DEF WriteText, TypeOK
    <2>3. ymo' \in Resources
      <3>1. PICK S \in SUBSET Nat : ymo.text \in [S -> Targets]
        BY <1>e
      <3>. DEFINE text == [o \in S \cup {size} |-> IF o = size THEN units[at].data ELSE ymo.text[o]]
      <3>2. text \in [S \cup {size} -> Targets] /\ S \cup {size} \in SUBSET Nat
        BY <2>1, <3>1, Elements DEF TypeOK
      <3>3. ymo' = [table |-> ymo.table, text |-> text]
        BY <1>7, <1>e, <3>1 DEF WriteText
      <3>. HIDE DEF text
      <3>. QED
        BY <1>e, <3>2, <3>3 DEF Resources
    <2>. QED
      BY <1>7, <2>2, <2>3 DEF WriteText, source, TypeOK
  <1>8. CASE CutOff
    BY <1>8 DEF CutOff, source, TypeOK
  <1>9. CASE LoadEntry
    BY <1>9 DEF LoadEntry, source, file, TypeOK
  <1>10. ASSUME NEW k, Translates(k) PROVE TypeOK'
    BY <1>10 DEF Translates, source, file, TypeOK
  <1>. QED
    BY <1>1, <1>2, <1>3, <1>4, <1>5, <1>6, <1>7, <1>8, <1>9, <1>10
       DEF Next, Compile, LoadTranslateData, Translate, TranslateContext

-----------------------------------------------------------------------------
(* po2ymo's first loop. *)
LEMMA SeenGrows ==
    ASSUME TypeOK, DictInv, CollectUnit
    PROVE  /\ at \in 1..Len(catalogue) /\ at' = at + 1
           /\ phase = "collecting" /\ phase' = "collecting"
           /\ catalogue' = catalogue /\ fnv1a_32' = fnv1a_32
           /\ Seen = 1..(at - 1) /\ Seen' = Seen \cup {at}
           /\ units' = IF Usable(catalogue[at]) THEN Assign(Hash(at), catalogue[at].target) ELSE units
  <1>1. /\ at \in 1..Len(catalogue) /\ at' = at + 1 /\ phase = "collecting" /\ phase' = "collecting"
        /\ catalogue' = catalogue /\ fnv1a_32' = fnv1a_32
        /\ units' = IF Usable(catalogue[at]) THEN Assign(Hash(at), catalogue[at].target) ELSE units
    BY Elements DEF CollectUnit, TypeOK, source, Hash
  <1>. QED
    BY <1>1, Elements DEF Seen

(* A unit that is not usable changes nothing. *)
LEMMA SkipUnit ==
    ASSUME NEW us, NEW dict, NEW n, ~Usable(catalogue[n]), DictOf(us, dict)
    PROVE  DictOf(us \cup {n}, dict)
  <1>1. ASSUME NEW h, NEW u \in us, LastIn(us, u, h) PROVE LastIn(us \cup {n}, u, h)
    BY <1>1 DEF LastIn
  <1>. QED
    BY <1>1 DEF DictOf

(* One that is takes the cell of its hash. *)
LEMMA UseUnit ==
    ASSUME TypeOK, DictInv, NEW n \in 1..Len(catalogue), Seen = 1..(n - 1), Usable(catalogue[n]),
           NEW new, new = Assign(Hash(n), catalogue[n].target)
    PROVE  DictOf(Seen \cup {n}, new)
  <1>1. PICK h, t : h = Hash(n) /\ t = catalogue[n].target
    OBVIOUS
  <1>2. h \in Hashes /\ t \in Targets /\ new = Assign(h, t)
    BY <1>1, UsableUnit
  <1>a. Assigned(new, h, t)
    BY <1>2, AssignCells
  <1>3. LastIn(Seen \cup {n}, n, h)
    BY <1>1, Elements DEF LastIn
  <1>4. ASSUME NEW g, g # h, NEW u \in Seen, LastIn(Seen, u, g) PROVE LastIn(Seen \cup {n}, u, g)
    BY <1>1, <1>4 DEF LastIn
  <1>5. ASSUME NEW i \in 1..Len(new)
        PROVE  \E u \in Seen \cup {n} : LastIn(Seen \cup {n}, u, new[i].hash) /\ catalogue[u].target = new[i].data
    <2>1. CASE new[i] = [hash |-> h, data |-> t]
      <3>1. new[i].hash = h /\ new[i].data = t
        BY <2>1
      <3>. QED
        BY <1>1, <1>3, <3>1
    <2>2. CASE ~(new[i] = [hash |-> h, data |-> t])
      <3>1. PICK j \in 1..Len(units) : new[i] = units[j] /\ units[j].hash # h
        BY <1>a, <2>2 DEF Assigned
      <3>2. PICK u \in Seen : LastIn(Seen, u, units[j].hash) /\ catalogue[u].target = units[j].data
        BY DEF DictInv, DictOf
      <3>. QED
        BY <1>4, <3>1, <3>2
    <2>. QED
      BY <2>1, <2>2
  <1>6. ASSUME NEW u \in Seen \cup {n}, Usable(catalogue[u])
        PROVE  \E i \in 1..Len(new) : new[i].hash = Hash(u)
    <2>1. CASE u = n
      BY <1>1, <1>a, <2>1 DEF Assigned
    <2>2. CASE u \in Seen
      <3>1. PICK j \in 1..Len(units) : units[j].hash = Hash(u)
        BY <1>6, <2>2 DEF DictInv, DictOf
      <3>. QED
        BY <1>a, <3>1 DEF Assigned
    <2>. QED
      BY <1>6, <2>1, <2>2
  <1>. QED
    BY <1>a, <1>5, <1>6 DEF DictOf, Assigned

LEMMA CollectKeepsDict == TypeOK /\ DictInv /\ CollectUnit => DictInv'
  <1>. SUFFICES ASSUME TypeOK, DictInv, CollectUnit PROVE DictInv'
    OBVIOUS
  <1>1. at' <= Len(catalogue') + 1
    BY SeenGrows, Elements
  <1>2. DictOf(Seen', units')
    <2>1. CASE Usable(catalogue[at])
      <3>1. units' = Assign(Hash(at), catalogue[at].target)
        BY <2>1, SeenGrows
      <3>. QED
        BY <2>1, <3>1, SeenGrows, UseUnit
    <2>2. CASE ~Usable(catalogue[at])
      BY <2>2, SeenGrows, SkipUnit DEF DictInv
    <2>. QED
      BY <2>1, <2>2
  <1>3. DictOf(Seen, units)'
    BY <1>2, SeenGrows DEF DictOf, LastIn, Hash
  <1>. QED
    BY <1>1, <1>3 DEF DictInv

LEMMA DictStep == TypeOK /\ DictInv /\ [Next]_vars => DictInv'
  <1>. SUFFICES ASSUME TypeOK, DictInv, [Next]_vars PROVE DictInv'
    OBVIOUS
  <1>1. CASE CollectUnit
    BY <1>1, CollectKeepsDict
  <1>2. CASE ~CollectUnit
    <2>1. UNCHANGED <<catalogue, fnv1a_32, units>>
      BY <1>2 DEF Next, Compile, LoadTranslateData, Translate, TranslateContext, Translates, WriteLength,
           WriteEntry, WriteEntryOverflows, TableEnds, WriteText, TextsEnd, CutOff, LoadTable, LoadEntry,
           LoadEnds, LoadsNothing, vars, source
    <2>2. \/ phase = "collecting" /\ phase' = "collecting" /\ at' = at
          \/ phase = "collecting" /\ phase' # "collecting" /\ at > Len(catalogue)
          \/ phase # "collecting" /\ phase' # "collecting"
      BY <1>2 DEF Next, Compile, LoadTranslateData, Translate, TranslateContext, Translates, WriteLength,
           WriteEntry, WriteEntryOverflows, TableEnds, WriteText, TextsEnd, CutOff, LoadTable, LoadEntry,
           LoadEnds, LoadsNothing, vars
    <2>3. Seen' = Seen /\ (phase' = "collecting" => at' <= Len(catalogue') + 1)
      <3>1. CASE phase = "collecting" /\ phase' # "collecting" /\ at > Len(catalogue)
        <4>1. at - 1 = Len(catalogue)
          BY <3>1, Elements DEF DictInv, TypeOK
        <4>. QED
          BY <2>1, <3>1, <4>1 DEF Seen
      <3>. QED
        BY <2>1, <2>2, <3>1 DEF Seen, DictInv
    <2>4. DictOf(Seen, units)'
      BY <2>1, <2>3 DEF DictInv, DictOf, LastIn, Hash
    <2>. QED
      BY <2>3, <2>4 DEF DictInv
  <1>. QED
    BY <1>1, <1>2

-----------------------------------------------------------------------------
(* What the steps that write nothing leave alone. *)
LEMMA Outside ==
    ASSUME TypeOK, [Next]_vars, ~CollectUnit, ~WriteLength, ~WriteEntry, ~WriteText
    PROVE  /\ UNCHANGED <<units, offset, ymo>>
           /\ \/ phase' = phase /\ (phase \in {"collecting", "table", "texts"} => at' = at /\ size' = size)
              \/ phase \in {"table", "built", "failed", "loading"} /\ phase' \in {"failed", "loading", "none", "loaded"}
                 /\ ((phase = "table" \/ phase = "failed") => ~Tabled')
              \/ phase = "table" /\ phase' = "texts" /\ at > Len(units) /\ at' = 1 /\ size' = size
              \/ phase = "texts" /\ phase' = "built" /\ at > Len(units) /\ size' = size
           /\ phase # "built" => size' = size
           /\ size' # size => phase' = phase /\ size' < size
  <1>1. UNCHANGED <<units, offset, ymo>>
    BY DEF Next, Compile, LoadTranslateData, Translate, TranslateContext, Translates, WriteEntryOverflows,
           TableEnds, TextsEnd, CutOff, LoadTable, LoadEntry, LoadEnds, LoadsNothing, vars, file
  <1>2. CASE UNCHANGED vars
    BY <1>1, <1>2 DEF vars, file
  <1>3. CASE WriteEntryOverflows
    BY <1>1, <1>3 DEF WriteEntryOverflows, file, Tabled
  <1>4. CASE TableEnds \/ TextsEnd
    BY <1>1, <1>4 DEF TableEnds, TextsEnd, file
  <1>5. CASE CutOff
    BY <1>1, <1>5 DEF CutOff, TypeOK
  <1>6. CASE LoadTable \/ LoadEntry \/ LoadEnds \/ LoadsNothing
    BY <1>1, <1>6 DEF LoadTable, LoadEntry, LoadEnds, LoadsNothing, file, Tabled
  <1>7. ASSUME NEW k, Translates(k)
        PROVE  phase' = phase /\ at' = at /\ size' = size /\ phase \in {"loaded", "none"}
    BY <1>7 DEF Translates, file
  <1>. QED
    BY <1>1, <1>2, <1>3, <1>4, <1>5, <1>6, <1>7
       DEF Next, Compile, LoadTranslateData, Translate, TranslateContext

(* po2ymo's second loop. *)
LEMMA WriteKeepsTable == TypeOK /\ TableInv /\ WriteEntry => TableInv'
  <1>. SUFFICES ASSUME TypeOK, TableInv, WriteEntry PROVE TableInv'
    OBVIOUS
  <1>. DEFINE entry == [hash |-> units[at].hash, offset |-> offset]
  <1>1. /\ at \in 1..Len(units) /\ phase = "table" /\ phase' = "table" /\ at' = at + 1
        /\ units' = units /\ size' = size + 6 /\ offset' = offset + Bytes[units[at].data]
    BY Elements DEF WriteEntry, TypeOK
  <1>2. ymo'.table = Append(ymo.table, entry) /\ ymo'.text = ymo.text
    BY DEF WriteEntry, TypeOK, Resources
  <1>3. Len(ymo.table) = at - 1 /\ Written = at - 1 /\ Written' = at /\ Tabled /\ Tabled'
    BY <1>1, Elements DEF TableInv, Tabled, Written, TypeOK
  <1>4. entry \in Entries /\ ymo.table \in Seq(Entries)
    BY <1>1, Elements DEF Entries, TypeOK, Resources
  <1>5. /\ Len(ymo'.table) = at /\ ymo'.table[at] = entry
        /\ \A i \in 1..(at - 1) : ymo'.table[i] = ymo.table[i]
    <2>. HIDE DEF entry
    <2>1. (at - 1) + 1 = at
      BY <1>1
    <2>. QED
      BY <1>2, <1>3, <1>4, <2>1, AppendProperties
  <1>6. entry.hash = units[at].hash /\ entry.offset = offset
    OBVIOUS
  <1>. HIDE DEF entry
  <1>. DEFINE end(i) == ymo'.table[i].offset + Bytes[units[i].data]
  <1>7. end(at) = offset' /\ \A i \in 1..(at - 1) : end(i) = EndOf(i)
    BY <1>1, <1>5, <1>6 DEF EndOf
  <1>. HIDE DEF end
  <1>8. Bytes[units[at].data] \in Nat \ {0} /\ offset \in Nat /\ offset <= offset'
    BY <1>1, Elements DEF TypeOK
  <1>9. \A i \in 1..(at - 1) : ymo.table[i].hash = units[i].hash /\ EndOf(i) <= offset /\ EndOf(i) \in Nat
    <2>. TAKE i \in 1..(at - 1)
    <2>1. i \in 1..Len(ymo.table) /\ i \in 1..Len(units) /\ i \in 1..Written
      BY <1>1, <1>3, Elements
    <2>2. EndOf(i) \in Nat
      BY <2>1, Elements DEF EndOf
    <2>. QED
      BY <1>3, <2>1, <2>2 DEF TableInv
  <1>10. \A i \in 1..at : ymo'.table[i].hash = units'[i].hash /\ end(i) <= offset'
    <2>. TAKE i \in 1..at
    <2>1. CASE i = at
      BY <1>1, <1>5, <1>6, <1>7, <1>8, <2>1
    <2>2. CASE i \in 1..(at - 1)
      <3>1. end(i) = EndOf(i) /\ EndOf(i) <= offset /\ EndOf(i) \in Nat /\ offset' \in Nat
        BY <1>1, <1>7, <1>8, <1>9, <2>2
      <3>2. ymo'.table[i].hash = units'[i].hash
        BY <1>1, <1>5, <1>9, <2>2
      <3>. QED
        BY <1>8, <3>1, <3>2
    <2>. QED
      BY <1>1, <2>1, <2>2
  <1>11. \A i, j \in 1..at : i < j => end(i) <= ymo'.table[j].offset
    <2>. TAKE i, j \in 1..at
    <2>. HAVE i < j
    <2>1. i \in 1..(at - 1)
      BY <1>1
    <2>2. CASE j = at
      BY <1>5, <1>6, <1>7, <1>9, <2>1, <2>2
    <2>3. CASE j \in 1..(at - 1)
      BY <1>3, <1>5, <1>7, <2>1, <2>3 DEF TableInv
    <2>. QED
      BY <1>1, <2>2, <2>3
  <1>12. \A i \in 1..at : i > 1 => ymo'.table[i].offset = end(i - 1)
    <2>. TAKE i \in 1..at
    <2>. HAVE i > 1
    <2>1. i - 1 \in 1..(at - 1)
      BY <1>1
    <2>2. CASE i = at
      BY <1>3, <1>5, <1>6, <1>7, <2>1, <2>2 DEF TableInv
    <2>3. CASE i \in 1..(at - 1)
      BY <1>3, <1>5, <1>7, <2>1, <2>3 DEF TableInv
    <2>. QED
      BY <1>1, <2>2, <2>3
  <1>13. ymo'.table[1].offset = TableBytes(Len(units'))
    <2>1. CASE at = 1
      BY <1>1, <1>3, <1>5, <1>6, <2>1 DEF TableInv
    <2>2. CASE at # 1
      BY <1>1, <1>3, <1>5, <2>2 DEF TableInv
    <2>. QED
      BY <2>1, <2>2
  <1>14. ymo'.text = Empty /\ at' <= Len(units') + 1 /\ size' = 2 + 6 * (at' - 1)
    <2>1. ymo.text = Empty /\ size = 2 + 6 * (at - 1)
      BY <1>1 DEF TableInv
    <2>2. Len(units) \in Nat /\ at \in Nat
      BY Elements DEF TypeOK
    <2>. QED
      BY <1>1, <1>2, <2>1, <2>2
  <1>15. at > 0 /\ Len(ymo'.table) = Written'
    BY <1>1, <1>3, <1>5
  <1>16. \A i \in Nat : EndOf(i)' = end(i)
    BY <1>1 DEF EndOf, end
  <1>17. EndOf(Written)' = offset'
    BY <1>1, <1>3, <1>7 DEF EndOf, end
  <1>18. \A i \in 1..Written' : ymo'.table[i].hash = units'[i].hash /\ EndOf(i)' <= offset'
    BY <1>3, <1>10, <1>16
  <1>19. \A i, j \in 1..Written' : i < j => EndOf(i)' <= ymo'.table[j].offset
    BY <1>3, <1>11, <1>16
  <1>20. \A i \in 1..Written' : i > 1 => ymo'.table[i].offset = EndOf(i - 1)'
    <2>. TAKE i \in 1..Written'
    <2>1. i \in 1..at /\ (i > 1 => i - 1 \in Nat)
      BY <1>1, <1>3
    <2>2. i > 1 => EndOf(i - 1)' = end(i - 1)
      BY <1>16, <2>1
    <2>. QED
      BY <1>12, <2>1, <2>2, Zenon
  <1>21. Written' = 0 => offset' = TableBytes(Len(units'))
    BY <1>3, <1>15
  <1>22. phase' # "collecting"
    BY <1>1
  <1>. QED
    BY <1>13, <1>14, <1>15, <1>17, <1>18, <1>19, <1>20, <1>21, <1>22, Zenon DEF TableInv

LEMMA TableStep == TypeOK /\ DictInv /\ TableInv /\ [Next]_vars => TableInv'
  <1>. SUFFICES ASSUME TypeOK, DictInv, TableInv, [Next]_vars PROVE TableInv'
    OBVIOUS
  <1>1. CASE CollectUnit
    BY <1>1 DEF CollectUnit, file, TableInv, Tabled
  <1>2. CASE WriteLength
    <2>1. /\ phase = "collecting" /\ phase' = "table" /\ at' = 1 /\ size' = 2 /\ units' = units /\ ymo' = ymo
          /\ offset' = TableBytes(Len(units))
      BY <1>2 DEF WriteLength
    <2>2. ymo'.table = <<>> /\ ymo'.text = Empty /\ Written' = 0
      BY <2>1 DEF TableInv, Written
    <2>. QED
      BY <2>1, <2>2, Elements DEF TableInv
  <1>3. CASE WriteEntry
    BY <1>3, WriteKeepsTable
  <1>4. CASE WriteText
    <2>1. /\ phase = "texts" /\ phase' = "texts" /\ units' = units /\ offset' = offset /\ ymo'.table = ymo.table
      BY <1>4 DEF WriteText, TypeOK, Resources
    <2>. QED
      BY <2>1 DEF TableInv, Tabled, Written, EndOf
  <1>5. CASE ~CollectUnit /\ ~WriteLength /\ ~WriteEntry /\ ~WriteText
    <2>1. UNCHANGED <<units, offset, ymo>>
      BY <1>5, Outside
    <2>2. CASE phase' = phase
      BY <1>5, <2>1, <2>2, Outside DEF TableInv, Tabled, Written, EndOf
    <2>3. CASE phase' # phase
      <3>1. phase' \notin {"collecting", "table"}
        BY <1>5, <2>3, Outside
      <3>2. Tabled' => Tabled /\ Written' = Written
        <4>1. CASE phase = "table"
          <5>1. Tabled' => phase' = "texts" /\ at > Len(units)
            BY <1>5, <2>3, <4>1, Outside
          <5>2. at > Len(units) => at - 1 = Len(units)
            BY <4>1, Elements DEF TableInv, TypeOK
          <5>. QED
            BY <2>1, <3>1, <4>1, <5>1, <5>2 DEF Tabled, Written
        <4>2. CASE phase # "table"
          BY <1>5, <2>1, <2>3, <3>1, <4>2, Outside DEF Tabled, Written
        <4>. QED
          BY <4>1, <4>2
      <3>. QED
        BY <2>1, <3>1, <3>2 DEF TableInv, EndOf
    <2>. QED
      BY <2>2, <2>3
  <1>. QED
    BY <1>1, <1>2, <1>3, <1>4, <1>5

-----------------------------------------------------------------------------
(* The entries of a table that is whole, one for each cell. *)
LEMMA WholeTable ==
    ASSUME TypeOK, TableInv, Tabled, phase # "table"
    PROVE  /\ Len(ymo.table) = Len(units)
           /\ \A i \in 1..Len(units) : /\ ymo.table[i].offset \in Nat /\ ymo.table[i].offset < EndOf(i)
                                       /\ EndOf(i) \in Nat /\ EndOf(i) <= offset
                                       /\ ymo.table[i].hash = units[i].hash
           /\ \A i, j \in 1..Len(units) : i < j => EndOf(i) <= ymo.table[j].offset
           /\ \A i, j \in 1..Len(units) : ymo.table[i].offset = ymo.table[j].offset => i = j
  <1>1. Len(ymo.table) = Len(units) /\ Written = Len(units)
    BY DEF TableInv, Written
  <1>2. \A i \in 1..Len(units) : /\ ymo.table[i].offset \in Nat /\ ymo.table[i].offset < EndOf(i)
                                 /\ EndOf(i) \in Nat
    BY <1>1, Elements DEF EndOf
  <1>3. \A i \in 1..Len(units) : EndOf(i) <= offset /\ ymo.table[i].hash = units[i].hash
    BY <1>1 DEF TableInv
  <1>4. \A i, j \in 1..Len(units) : i < j => EndOf(i) <= ymo.table[j].offset
    BY <1>1 DEF TableInv
  <1>5. \A i, j \in 1..Len(units) : i < j => ymo.table[i].offset # ymo.table[j].offset
    BY <1>2, <1>4
  <1>6. \A i, j \in 1..Len(units) : ymo.table[i].offset = ymo.table[j].offset => i = j
    BY <1>5, Elements
  <1>. QED
    BY <1>1, <1>2, <1>3, <1>4, <1>6

(* po2ymo's third loop. *)
LEMMA WriteKeepsTexts == TypeOK /\ TableInv /\ TextInv /\ WriteText => TextInv'
  <1>. SUFFICES ASSUME TypeOK, TableInv, TextInv, WriteText PROVE TextInv'
    OBVIOUS
  <1>1. /\ at \in 1..Len(units) /\ phase = "texts" /\ phase' = "texts" /\ at' = at + 1
        /\ units' = units /\ offset' = offset /\ size' = size + Bytes[units[at].data]
    BY Elements DEF WriteText, TypeOK
  <1>2. /\ ymo'.table = ymo.table
        /\ ymo'.text = [o \in DOMAIN ymo.text \cup {size} |-> IF o = size THEN units[at].data ELSE ymo.text[o]]
    BY DEF WriteText, TypeOK, Resources
  <1>3. Tabled /\ Written = Len(units) /\ Texts = at - 1 /\ Texts' = at
    BY <1>1 DEF Tabled, Written, Texts
  <1>4. size = ymo.table[at].offset /\ size' = EndOf(at)
    BY <1>1 DEF TextInv, EndOf
  <1>5. /\ DOMAIN ymo.text = {ymo.table[i].offset : i \in 1..(at - 1)}
        /\ \A i \in 1..(at - 1) : ymo.text[ymo.table[i].offset] = units[i].data
    BY <1>1, <1>3 DEF TextInv
  <1>6. \A i, j \in 1..Len(units) : ymo.table[i].offset = ymo.table[j].offset => i = j
    BY <1>1, <1>3, WholeTable
  <1>7. DOMAIN ymo'.text = {ymo.table[i].offset : i \in 1..at}
    <2>1. DOMAIN ymo'.text = {ymo.table[i].offset : i \in 1..(at - 1)} \cup {ymo.table[at].offset}
      BY <1>2, <1>4, <1>5
    <2>2. 1..at = 1..(at - 1) \cup {at}
      BY <1>1
    <2>. QED
      BY <2>1, <2>2
  <1>8. \A i \in 1..at : ymo'.text[ymo.table[i].offset] = units[i].data
    <2>. TAKE i \in 1..at
    <2>0. ymo.table[i].offset \in DOMAIN ymo'.text
      BY <1>7
    <2>1. CASE i = at
      BY <1>2, <1>4, <2>0, <2>1
    <2>2. CASE i # at
      <3>1. i \in 1..(at - 1) /\ i \in 1..Len(units) /\ ymo.table[i].offset # size
        BY <1>1, <1>4, <1>6, <2>2, Elements
      <3>. QED
        BY <1>2, <1>5, <2>0, <3>1
    <2>. QED
      BY <2>1, <2>2
  <1>9. size' = (IF at + 1 <= Len(units) THEN ymo.table[at + 1].offset ELSE offset) /\ size' <= offset
    <2>1. CASE at + 1 <= Len(units)
      <3>1. at + 1 \in 1..Written /\ at + 1 > 1 /\ (at + 1) - 1 = at
        BY <1>1, <1>3, <2>1, Elements
      <3>2. ymo.table[at + 1].offset = EndOf((at + 1) - 1)
        BY <1>3, <3>1 DEF TableInv
      <3>. QED
        BY <1>1, <1>3, <1>4, <2>1, <3>1, <3>2, WholeTable
    <2>2. CASE ~(at + 1 <= Len(units))
      <3>1. at = Len(units) /\ Written > 0
        BY <1>1, <1>3, <2>2, Elements
      <3>2. offset = EndOf(at)
        BY <1>3, <3>1 DEF TableInv
      <3>. QED
        BY <1>4, <2>2, <3>2 DEF TypeOK
    <2>. QED
      BY <2>1, <2>2
  <1>10. at' <= Len(units') + 1 /\ size' = (IF at' <= Len(units') THEN ymo'.table[at'].offset ELSE offset')
    BY <1>1, <1>2, <1>9, Elements
  <1>11. /\ DOMAIN ymo'.text = {ymo'.table[i].offset : i \in 1..Texts'}
         /\ \A i \in 1..Texts' : ymo'.text[ymo'.table[i].offset] = units'[i].data
    <2>1. \A i : ymo'.table[i] = ymo.table[i] /\ units'[i] = units[i]
      BY <1>1, <1>2
    <2>2. {ymo'.table[i].offset : i \in 1..Texts'} = {ymo.table[i].offset : i \in 1..at}
      BY <1>3, <2>1
    <2>. QED
      BY <1>3, <1>7, <1>8, <2>1, <2>2
  <1>12. size' <= offset'
    BY <1>1, <1>9
  <1>13. phase' = "texts"
    BY <1>1
  <1>. QED
    BY <1>10, <1>11, <1>12, <1>13 DEF TextInv

LEMMA TextStep == TypeOK /\ DictInv /\ TableInv /\ TextInv /\ [Next]_vars => TextInv'
  <1>. SUFFICES ASSUME TypeOK, DictInv, TableInv, TextInv, [Next]_vars PROVE TextInv'
    OBVIOUS
  <1>1. CASE CollectUnit \/ WriteLength \/ WriteEntry
    BY <1>1 DEF CollectUnit, WriteLength, WriteEntry, TextInv
  <1>2. CASE WriteText
    BY <1>2, WriteKeepsTexts
  <1>3. CASE ~CollectUnit /\ ~WriteLength /\ ~WriteEntry /\ ~WriteText
    <2>1. UNCHANGED <<units, offset, ymo>>
      BY <1>3, Outside
    <2>2. CASE phase = "table" /\ phase' = "texts"
      <3>1. at > Len(units) /\ at' = 1 /\ size' = size
        BY <1>3, <2>2, Outside
      <3>2. at - 1 = Len(units) /\ size = TableBytes(Len(units)) /\ Tabled /\ Written = Len(units)
        <4>1. at - 1 = Len(units) /\ size = 2 + 6 * (at - 1)
          BY <2>2, <3>1, Elements DEF TableInv, TypeOK
        <4>2. size = TableBytes(Len(units))
          <5>1. PICK n \in Nat : n = Len(units) /\ at - 1 = n
            BY <4>1, Elements
          <5>2. size = 2 + 6 * n
            BY <4>1, <5>1
          <5>. QED
            BY <5>1, <5>2 DEF TableBytes
        <4>3. Tabled /\ Written = at - 1
          BY <2>2 DEF Tabled, Written
        <4>. QED
          BY <4>1, <4>2, <4>3
      <3>3. ymo.text = Empty /\ DOMAIN Empty = {}
        BY <2>2 DEF TableInv, Empty
      <3>4. size = IF 1 <= Len(units) THEN ymo.table[1].offset ELSE offset
        BY <3>2, Elements DEF TableInv
      <3>5. size <= offset
        <4>1. CASE Len(units) = 0
          BY <3>4, <4>1 DEF TypeOK
        <4>2. CASE Len(units) # 0
          <5>1. 1 \in 1..Written /\ EndOf(1) <= offset /\ 1 \in 1..Len(ymo.table) /\ 1 \in 1..Len(units)
            BY <3>2, <4>2, Elements DEF TableInv
          <5>2. ymo.table[1].offset <= EndOf(1) /\ EndOf(1) \in Nat /\ ymo.table[1].offset \in Nat
            BY <5>1, Elements DEF EndOf
          <5>. QED
            BY <3>2, <3>4, <5>1, <5>2, Elements, SMTT(30) DEF TypeOK
        <4>. QED
          BY <4>1, <4>2
      <3>6. Texts' = 0
        BY <2>2, <3>1 DEF Texts
      <3>. QED
        BY <2>1, <2>2, <3>1, <3>3, <3>4, <3>5, <3>6, Elements DEF TextInv
    <2>3. CASE phase = "texts" /\ phase' = "texts"
      BY <1>3, <2>1, <2>3, Outside DEF TextInv, Texts
    <2>4. CASE phase' \in {"built", "loading", "loaded"}
      <3>1. phase \in {"texts", "built", "loading", "loaded"} /\ (phase = "texts" => at > Len(units))
        BY <1>3, <2>4, Outside DEF Tabled
      <3>2. Texts = Len(units) /\ Texts' = Len(units)
        BY <2>1, <2>4, <3>1, Elements DEF Texts, TextInv, TypeOK
      <3>3. size' <= offset
        <4>1. size \in Nat /\ size' \in Nat /\ offset \in Nat
          BY TypeStep DEF TypeOK
        <4>2. size <= offset
          BY <3>1 DEF TextInv
        <4>3. size' = size \/ size' < size
          BY <1>3, Outside
        <4>. QED
          BY <4>1, <4>2, <4>3
      <3>. QED
        BY <2>1, <2>4, <3>1, <3>2, <3>3 DEF TextInv
    <2>5. CASE phase' \notin {"texts", "built", "loading", "loaded"}
      BY <2>5 DEF TextInv
    <2>6. phase' = "texts" => phase \in {"table", "texts"}
      BY <1>3, Outside
    <2>. QED
      BY <2>2, <2>3, <2>4, <2>5, <2>6
  <1>. QED
    BY <1>1, <1>2, <1>3

-----------------------------------------------------------------------------
(* One entry of the loader's loop: its hash is new, its text the cell's. *)
LEMMA LoadKeepsMap ==
    TypeOK /\ DictInv /\ TableInv /\ TextInv /\ MapInv /\ LoadEntry => MapInv'
  <1>. SUFFICES ASSUME TypeOK, DictInv, TableInv, TextInv, MapInv, LoadEntry PROVE MapInv'
    OBVIOUS
  <1>1. /\ phase = "loading" /\ phase' = "loading" /\ at' = at + 1
        /\ units' = units /\ ymo' = ymo /\ size' = size /\ Tabled /\ Texts = Len(units)
    BY DEF LoadEntry, file, Tabled, Texts
  <1>2. /\ at \in 1..Len(units) /\ Len(ymo.table) = Len(units)
        /\ \A i \in 1..Len(units) : ymo.table[i].hash = units[i].hash
    <2>1. /\ Len(ymo.table) = Len(units)
          /\ \A i \in 1..Len(units) : ymo.table[i].hash = units[i].hash
      BY <1>1, WholeTable
    <2>2. at \in Nat \ {0} /\ at <= Len(units)
      BY <2>1 DEF LoadEntry, TypeOK
    <2>. QED
      BY <2>1, <2>2, Elements
  <1>3. Read = at - 1 /\ Read' = at
    BY <1>1, <1>2 DEF Read
  <1>4. /\ DOMAIN g_hashToStrMap = {units[i].hash : i \in {j \in 1..(at - 1) : ymo.table[j].offset < size}}
        /\ \A i \in 1..(at - 1) : ymo.table[i].offset < size => g_hashToStrMap[units[i].hash] = Loaded(i)
    BY <1>1, <1>3 DEF MapInv
  <1>5. \A i \in 1..at : i # at => i \in 1..(at - 1)
    BY <1>2
  <1>6. at' <= Len(units') + 1
    BY <1>1, <1>2, Elements
  <1>7. CASE ymo.table[at].offset >= size
    <2>1. g_hashToStrMap' = g_hashToStrMap
      BY <1>7 DEF LoadEntry
    <2>2. ~(ymo.table[at].offset < size)
      BY <1>2, <1>7, Elements DEF TypeOK
    <2>3. {j \in 1..at : ymo.table[j].offset < size} = {j \in 1..(at - 1) : ymo.table[j].offset < size}
      BY <1>2, <1>5, <2>2
    <2>4. \A i \in 1..at : ymo.table[i].offset < size => g_hashToStrMap[units[i].hash] = Loaded(i)
      BY <1>4, <1>5, <2>2
    <2>. QED
      BY <1>1, <1>3, <1>4, <1>6, <2>1, <2>3, <2>4 DEF MapInv, Loaded, EndOf
  <1>8. CASE ~(ymo.table[at].offset >= size)
    <2>1. ymo.table[at].offset < size
      BY <1>2, <1>8, Elements DEF TypeOK
    <2>2. TextAt(ymo.table[at].offset) = Loaded(at)
      BY <1>1, <1>2, <2>1 DEF TextInv, TextAt, Ends, EndOf, Loaded
    <2>3. g_hashToStrMap' = Emplace(units[at].hash, Loaded(at))
      BY <1>2, <1>8, <2>2 DEF LoadEntry
    <2>4. units[at].hash \notin DOMAIN g_hashToStrMap
      <3>1. \A i \in 1..(at - 1) : i \in 1..Len(units) /\ i # at
        BY <1>2, Elements
      <3>. QED
        BY <1>2, <1>4, <3>1 DEF DictInv, DictOf
    <2>5. {j \in 1..at : ymo.table[j].offset < size} = {j \in 1..(at - 1) : ymo.table[j].offset < size} \cup {at}
      BY <1>2, <1>5, <2>1
    <2>6. DOMAIN g_hashToStrMap' = DOMAIN g_hashToStrMap \cup {units[at].hash}
      BY <2>3 DEF Emplace
    <2>7. DOMAIN g_hashToStrMap' = {units[i].hash : i \in {j \in 1..at : ymo.table[j].offset < size}}
      BY <1>4, <2>5, <2>6
    <2>8. \A i \in 1..at : ymo.table[i].offset < size => g_hashToStrMap'[units[i].hash] = Loaded(i)
      <3>. TAKE i \in 1..at
      <3>. HAVE ymo.table[i].offset < size
      <3>1. CASE i = at
        BY <2>3, <2>4, <3>1 DEF Emplace
      <3>2. CASE i # at
        <4>1. units[i].hash \in DOMAIN g_hashToStrMap /\ g_hashToStrMap[units[i].hash] = Loaded(i)
          BY <1>4, <1>5, <3>2
        <4>. QED
          BY <2>3, <4>1 DEF Emplace
      <3>. QED
        BY <3>1, <3>2
    <2>. QED
      BY <1>1, <1>3, <1>6, <2>7, <2>8 DEF MapInv, Loaded, EndOf
  <1>. QED
    BY <1>7, <1>8

LEMMA MapStep ==
    TypeOK /\ DictInv /\ TableInv /\ TextInv /\ MapInv /\ [Next]_vars => MapInv'
  <1>. SUFFICES ASSUME TypeOK, DictInv, TableInv, TextInv, MapInv, [Next]_vars PROVE MapInv'
    OBVIOUS
  <1>1. CASE UNCHANGED vars
    BY <1>1 DEF vars, file, MapInv, Read, Loaded, EndOf
  <1>2. CASE CollectUnit \/ WriteLength \/ WriteEntry \/ WriteEntryOverflows \/ TableEnds \/ WriteText
             \/ TextsEnd \/ CutOff \/ LoadsNothing
    BY <1>2 DEF CollectUnit, WriteLength, WriteEntry, WriteEntryOverflows, TableEnds, WriteText, TextsEnd,
                CutOff, LoadsNothing, MapInv
  <1>3. CASE LoadTable
    <2>1. g_hashToStrMap' = Empty /\ at' = 1 /\ phase' \in {"loading", "none"} /\ Len(units') \in Nat
      BY <1>3, Elements DEF LoadTable, MapInv
    <2>2. phase' = "loading" => 1..Read' = {} /\ at' <= Len(units') + 1
      BY <2>1 DEF Read
    <2>3. DOMAIN Empty = {}
      BY DEF Empty
    <2>. QED
      BY <2>1, <2>2, <2>3 DEF MapInv
  <1>4. CASE LoadEntry
    BY <1>4, LoadKeepsMap
  <1>5. CASE LoadEnds
    <2>1. phase = "loading" /\ phase' = "loaded" /\ UNCHANGED <<units, ymo, size, g_hashToStrMap>>
      BY <1>5 DEF LoadEnds, file
    <2>2. at - 1 = Len(units)
      BY <1>5, <2>1, WholeTable, Elements DEF LoadEnds, MapInv, TypeOK, Tabled
    <2>3. Read = Len(units) /\ Read' = Len(units)
      BY <2>1, <2>2 DEF Read
    <2>. QED
      BY <2>1, <2>3 DEF MapInv, Loaded, EndOf
  <1>6. ASSUME NEW k, Translates(k) PROVE MapInv'
    BY <1>6 DEF Translates, file, MapInv, Read, Loaded, EndOf
  <1>. QED
    BY <1>1, <1>2, <1>3, <1>4, <1>5, <1>6
       DEF Next, Compile, LoadTranslateData, Translate, TranslateContext

(* What the map holds are translations or garbage, and no key is either. *)
LEMMA MapOfTargets ==
    ASSUME TypeOK, MapInv, NEW h \in DOMAIN g_hashToStrMap
    PROVE  g_hashToStrMap[h] \in Targets \cup {Garbage}
  <1>1. phase \in {"loading", "loaded"}
    BY DEF MapInv, Empty
  <1>2. PICK i \in 1..Read : ymo.table[i].offset < size /\ h = units[i].hash
    BY <1>1 DEF MapInv
  <1>3. g_hashToStrMap[h] = Loaded(i)
    BY <1>1, <1>2 DEF MapInv
  <1>4. i \in 1..Len(units)
    BY <1>1, <1>2, Elements DEF MapInv, Read, TypeOK
  <1>. QED
    BY <1>3, <1>4, Elements DEF Loaded

LEMMA LookupStep == TypeOK /\ MapInv /\ LookupInv /\ [Next]_vars => LookupInv'
  <1>. SUFFICES ASSUME TypeOK, MapInv, LookupInv, [Next]_vars PROVE LookupInv'
    OBVIOUS
  <1>1. CASE UNCHANGED vars
    BY <1>1 DEF vars, source, lookup, LookupInv, Fresh
  <1>2. CASE Compile \/ CutOff \/ LoadTranslateData
    <2>1. phase \notin {"loaded", "none"} /\ UNCHANGED <<ptrToStrMap, said>>
      BY <1>2 DEF Compile, CutOff, LoadTranslateData, CollectUnit, WriteLength, WriteEntry,
           WriteEntryOverflows, TableEnds, WriteText, TextsEnd, LoadTable, LoadEntry, LoadEnds, LoadsNothing, lookup
    <2>. QED
      BY <2>1 DEF LookupInv
  <1>3. ASSUME NEW k \in Keys, Translates(k)
        PROVE  /\ phase' \in {"loaded", "none"}
               /\ \A x \in DOMAIN ptrToStrMap' : ptrToStrMap'[x] = Fresh(x)'
               /\ Translation(k) = Fresh(k) /\ Fresh(k)' = Fresh(k)
    <2>1. UNCHANGED <<phase, fnv1a_32, g_hashToStrMap>>
      BY <1>3 DEF Translates, source
    <2>2. ptrToStrMap' = [x \in DOMAIN ptrToStrMap \cup {k} |-> Translation(x)]
      BY <1>3 DEF Translates
    <2>3. \A x : Translation(x) = Fresh(x)
      BY DEF LookupInv, Translation, Fresh
    <2>4. \A x : Fresh(x)' = Fresh(x)
      BY <2>1 DEF Fresh
    <2>. QED
      BY <1>3, <2>1, <2>2, <2>3, <2>4 DEF Translates
  <1>4. \A c \in Contexts \cup {"none"}, s \in Strings : Key(c, s) \in Keys /\ English(Key(c, s)) = Key("none", s)
    BY DEF Key, Keys, English
  <1>5. \A k \in Keys : Fresh(k) = k \/ Fresh(k) \in Targets \cup {Garbage}
    BY MapOfTargets DEF Fresh
  <1>6. ASSUME NEW s \in Strings, Translate(s) PROVE LookupInv'
    <2>. PICK k : k = Key("none", s)
      OBVIOUS
    <2>1. k \in Keys /\ English(k) = k /\ Translates(k) /\ said' = {[asked |-> k, returned |-> Translation(k)]}
      BY <1>4, <1>6 DEF Translate
    <2>2. Translation(k) = Fresh(k) /\ Fresh(k)' = Fresh(k)
      BY <1>3, <2>1
    <2>3. \A answer \in said' : answer.asked = k /\ answer.returned = Fresh(k)
      BY <2>1, <2>2
    <2>. QED
      BY <1>3, <2>1, <2>2, <2>3 DEF LookupInv, English
  <1>7. ASSUME NEW s \in Strings, NEW c \in Contexts, TranslateContext(c, s) PROVE LookupInv'
    <2>. PICK k : k = Key(c, s)
      OBVIOUS
    <2>1. k \in Keys /\ English(k) = Key("none", s) /\ Translates(k)
          /\ said' = {[asked |-> k, returned |-> IF Translation(k) = k THEN English(k) ELSE Translation(k)]}
      BY <1>4, <1>7 DEF TranslateContext
    <2>2. Translation(k) = Fresh(k) /\ Fresh(k)' = Fresh(k)
      BY <1>3, <2>1
    <2>3. \A answer \in said' : answer.asked = k /\ answer.returned = IF Fresh(k) = k THEN English(k) ELSE Fresh(k)
      BY <2>1, <2>2
    <2>. QED
      BY <1>3, <2>1, <2>2, <2>3 DEF LookupInv, English
  <1>. QED
    BY <1>1, <1>2, <1>6, <1>7 DEF Next

-----------------------------------------------------------------------------
(* The dict, once read to its end, has for a text what is expected of it. *)
LEMMA CellIsExpected ==
    ASSUME TypeOK, DictInv, phase # "collecting", NEW k \in Keys,
           NEW i \in 1..Len(units), units[i].hash = fnv1a_32[k]
    PROVE  Expected(k) = units[i].data
  <1>1. PICK u \in 1..Len(catalogue) : LastIn(1..Len(catalogue), u, fnv1a_32[k]) /\ catalogue[u].target = units[i].data
    BY DEF DictInv, DictOf, Seen
  <1>2. u \in Hits(k) /\ \A j \in Hits(k) : j <= u
    BY <1>1, Elements DEF LastIn, Hits, Hash
  <1>3. Hits(k) \subseteq Nat
    BY Elements DEF Hits
  <1>4. \A v \in Hits(k) : (\A j \in Hits(k) : j <= v) => v = u
    BY <1>2, <1>3
  <1>5. (CHOOSE v \in Hits(k) : \A j \in Hits(k) : j <= v) = u
    BY <1>2, <1>4
  <1>. QED
    BY <1>1, <1>2, <1>5 DEF Expected, LastOf

(* A hash in the map is that of a cell, and the map has the cell's text, or
   what is read where it is cut off.                                       *)
LEMMA MapOfCells ==
    ASSUME TypeOK, MapInv, phase = "loaded", NEW h \in DOMAIN g_hashToStrMap
    PROVE  \E i \in 1..Len(units) : units[i].hash = h /\ ymo.table[i].offset < size
                                       /\ g_hashToStrMap[h] = Loaded(i)
  BY DEF MapInv, Read

(* A resource that is whole has a text for every usable unit. *)
LEMMA WholeHasAll ==
    ASSUME TypeOK, DictInv, TableInv, MapInv, IsWhole, NEW k \in Keys, Hits(k) # {}
    PROVE  fnv1a_32[k] \in DOMAIN g_hashToStrMap
  <1>1. PICK u \in 1..Len(catalogue) : Usable(catalogue[u]) /\ Hash(u) = fnv1a_32[k]
    BY Elements DEF Hits, Hash
  <1>2. PICK i \in 1..Len(units) : units[i].hash = fnv1a_32[k]
    BY <1>1 DEF DictInv, DictOf, Seen, IsWhole
  <1>3. ymo.table[i].offset < size
    <2>1. /\ ymo.table[i].offset \in Nat /\ EndOf(i) \in Nat
          /\ ymo.table[i].offset < EndOf(i) /\ EndOf(i) <= offset
      BY WholeTable DEF Tabled, IsWhole
    <2>. QED
      BY <2>1 DEF IsWhole, TypeOK
  <1>. QED
    BY <1>2, <1>3 DEF MapInv, Read, IsWhole

(* What a cell whose text is cut off says of that text. *)
LEMMA CutCell ==
    ASSUME TypeOK, TableInv, TextInv, phase = "loaded", NEW i \in 1..Len(units),
           ymo.table[i].offset < size, ~(EndOf(i) <= size)
    PROVE  CutInside(units[i].data) /\ ~IsWhole
  <1>. PICK o : o = ymo.table[i].offset
    OBVIOUS
  <1>1. Texts = Len(units) /\ o \in DOMAIN ymo.text /\ ymo.text[o] = units[i].data
    BY DEF TextInv, Texts
  <1>2. /\ EndOf(i) = Ends(o) /\ EndOf(i) \in Nat /\ size \in Nat /\ offset \in Nat
        /\ EndOf(i) <= offset
    BY <1>1, WholeTable DEF EndOf, Ends, Tabled, TypeOK
  <1>3. size < Ends(o) /\ size # offset
    BY <1>2
  <1>. QED
    BY <1>1, <1>3 DEF CutInside, IsWhole

LEMMA InvSays == IInv => SaysWhatTheCatalogueSays
  <1>. SUFFICES ASSUME IInv, NEW answer \in said, NEW k, k = answer.asked
                PROVE  /\ \/ answer.returned \in {Expected(k), English(k)}
                          \/ answer.returned = Garbage /\ CutInside(Expected(k))
                       /\ IsWhole => answer.returned = Expected(k)
    BY DEF SaysWhatTheCatalogueSays, Expected
  <1>1. /\ k \in Keys /\ phase \in {"loaded", "none"}
        /\ answer.returned = IF Fresh(k) = k THEN English(k) ELSE Fresh(k)
    BY DEF IInv, LookupInv
  <1>2. CASE fnv1a_32[k] \in DOMAIN g_hashToStrMap
    <2>1. phase = "loaded"
      BY <1>1, <1>2 DEF IInv, MapInv, Empty
    <2>2. PICK i \in 1..Len(units) : /\ units[i].hash = fnv1a_32[k] /\ ymo.table[i].offset < size
                                     /\ g_hashToStrMap[fnv1a_32[k]] = Loaded(i)
      BY <1>2, <2>1, MapOfCells DEF IInv
    <2>3. Expected(k) = units[i].data
      BY <1>1, <2>1, <2>2, CellIsExpected DEF IInv
    <2>4. Fresh(k) # k
      BY <1>1, <1>2, MapOfTargets, TranslationsAssumption DEF Fresh, IInv
    <2>5. answer.returned = Loaded(i)
      BY <1>1, <1>2, <2>2, <2>4 DEF Fresh
    <2>6. CASE EndOf(i) <= size
      BY <2>3, <2>5, <2>6 DEF Loaded
    <2>7. CASE ~(EndOf(i) <= size)
      BY <2>1, <2>2, <2>3, <2>5, <2>7, CutCell DEF Loaded, IInv
    <2>. QED
      BY <2>6, <2>7
  <1>3. CASE fnv1a_32[k] \notin DOMAIN g_hashToStrMap
    <2>1. answer.returned = English(k)
      BY <1>1, <1>3 DEF Fresh
    <2>2. IsWhole => Expected(k) = English(k)
      BY <1>1, <1>3, WholeHasAll DEF Expected, LastOf, IInv
    <2>. QED
      BY <2>1, <2>2
  <1>. QED
    BY <1>2, <1>3

-----------------------------------------------------------------------------
(* Every loop of the compiler and of the loader keeps what it has computed so
   far, and the cache what the map says.                                    *)
THEOREM Invariance == Spec => []IInv
  <1>1. Init => IInv
    BY InitInv
  <1>2. IInv /\ [Next]_vars => IInv'
    BY TypeStep, DictStep, TableStep, TextStep, MapStep, LookupStep DEF IInv
  <1>. QED
    BY <1>1, <1>2, PTL DEF Spec

(* SaysWhatTheCatalogueSays: for catalogues of any length, texts of any
   lengths, any hash function and a resource cut off at any byte, what
   Translate and TranslateContext return is the translation of the last
   usable unit with that hash, or English, or what is read past the end where
   the cut is inside that translation; the first if the resource is whole, and
   then that of the text itself if no other text has its hash.              *)
THEOREM CatalogueSaid == Spec => []SaysWhatTheCatalogueSays
  BY Invariance, InvSays, PTL
=============================================================================
