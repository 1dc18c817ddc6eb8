---------------------------- MODULE Translations ----------------------------
(***************************************************************************)
(* src/translate/po2ymo.py, src/I18n.cpp and src/FnvHash.hpp: a catalogue  *)
(* of translations is compiled to a table of hashes and offsets, the table *)
(* is loaded from a resource that need not be whole, and a string of the   *)
(* program is looked up by its hash, once.  FNV-1a is any function of the  *)
(* strings here: different strings may have the same hash.                 *)
(*                                                                         *)
(* Each turn of a loop is an action; `at' is what the loop counts.         *)
(***************************************************************************)
EXTENDS Naturals, Sequences, FiniteSets

CONSTANTS
    Strings,    \* English texts of the program
    Contexts,   \* contexts that tell two uses of a text apart
    Targets,    \* translations
    Bytes,      \* translation -> its length in the resource, with its NUL
    Garbage,    \* what is read past the end of the resource
    Hashes,     \* values of fnv1a_32
    MaxOffset,  \* 65535: an offset has two bytes
    MaxUnits,   \* bound: units of a catalogue
    MaxCalls    \* bound: strings looked up

(* What is looked up: a text, or a text in a context (joined by \004). *)
Key(c, s) == [ctxt |-> c, str |-> s]
Keys == [ctxt: Contexts \cup {"none"}, str: Strings]

(* A string of the program and one of the resource are told apart by their
   addresses, whatever they read.                                          *)
ASSUME TranslationsAssumption ==
    /\ Bytes \in [Targets -> Nat \ {0}] /\ MaxOffset \in Nat
    /\ MaxUnits \in Nat /\ MaxCalls \in Nat
    /\ Targets \cap Keys = {} /\ Garbage \notin Targets \cup Keys
    /\ "empty" \notin Targets

(* A unit of the catalogue; marked: fuzzy or obsolete. *)
Units == [source: Keys, target: Targets \cup {"empty"}, marked: BOOLEAN]

VARIABLES
    catalogue,  \* the .po file, in order
    fnv1a_32,   \* key -> its hash
    phase, at,  \* how far compiler and loader are
    units,      \* po2ymo's dict, in the order of first insertion
    offset,     \* where po2ymo has come to in the texts
    ymo,        \* the resource: its table, and its texts by where they begin
    size,       \* bytes of it that are there
    g_hashToStrMap,
    ptrToStrMap,
    said        \* what was asked last and what was returned, once there is such

source == <<catalogue, fnv1a_32>>
file == <<ymo, size>>
lookup == <<ptrToStrMap, said>>
vars == <<source, phase, at, units, offset, file, g_hashToStrMap, lookup>>

Phases == {"collecting", "table", "texts",  \* po2ymo, in one of its loops
           "built", "failed",               \* the resource is there, or is not
           "loading", "loaded", "none"}     \* none: nothing was loaded

Empty == [x \in {} |-> x]

Init ==
    /\ catalogue \in UNION {[1..n -> Units] : n \in 0..MaxUnits}
    /\ fnv1a_32 \in [Keys -> Hashes]
    /\ phase = "collecting" /\ at = 1
    /\ units = <<>> /\ offset = 0
    /\ ymo = [table |-> <<>>, text |-> Empty] /\ size = 0
    /\ g_hashToStrMap = Empty /\ ptrToStrMap = Empty
    /\ said = {}

-----------------------------------------------------------------------------
(* po2ymo. *)
Usable(unit) == unit.target # "empty" /\ ~unit.marked

(* units[hash] = data: a dict keeps the place of the first insertion. *)
Assign(hash, data) ==
    IF \E i \in DOMAIN units : units[i].hash = hash
    THEN [i \in DOMAIN units |-> IF units[i].hash = hash THEN [hash |-> hash, data |-> data] ELSE units[i]]
    ELSE Append(units, [hash |-> hash, data |-> data])

(* An entry of the table has 4 + 2 bytes, its length 2. *)
TableBytes(n) == 2 + n * 6

CollectUnit ==
    LET unit == catalogue[at] IN
    /\ phase = "collecting" /\ at <= Len(catalogue)
    /\ units' = IF Usable(unit) THEN Assign(fnv1a_32[unit.source], unit.target) ELSE units
    /\ at' = at + 1
    /\ UNCHANGED <<source, phase, offset, file, g_hashToStrMap, lookup>>

WriteLength ==
    /\ phase = "collecting" /\ at > Len(catalogue)
    /\ phase' = "table" /\ at' = 1
    /\ offset' = TableBytes(Len(units))
    /\ size' = 2
    /\ UNCHANGED <<source, units, ymo, g_hashToStrMap, lookup>>

(* A faulty variant of WriteEntry: the offset is that of the next text. *)
WriteEntryLate ==
    LET end == offset + Bytes[units[at].data] IN
    /\ phase = "table" /\ at <= Len(units)
    /\ end <= MaxOffset
    /\ ymo' = [ymo EXCEPT !.table = Append(@, [hash |-> units[at].hash, offset |-> end])]
    /\ offset' = end
    /\ size' = size + 6
    /\ at' = at + 1
    /\ UNCHANGED <<source, phase, units, g_hashToStrMap, lookup>>

WriteEntry ==
    /\ phase = "table" /\ at <= Len(units)
    /\ offset <= MaxOffset
    /\ ymo' = [ymo EXCEPT !.table = Append(@, [hash |-> units[at].hash, offset |-> offset])]
    /\ offset' = offset + Bytes[units[at].data]
    /\ size' = size + 6
    /\ at' = at + 1
    /\ UNCHANGED <<source, phase, units, g_hashToStrMap, lookup>>

(* to_bytes raises an OverflowError for an offset that does not fit. *)
WriteEntryOverflows ==
    /\ phase = "table" /\ at <= Len(units)
    /\ offset > MaxOffset
    /\ phase' = "failed"
    /\ UNCHANGED <<source, at, units, offset, file, g_hashToStrMap, lookup>>

TableEnds ==
    /\ phase = "table" /\ at > Len(units)
    /\ phase' = "texts" /\ at' = 1
    /\ UNCHANGED <<source, units, offset, file, g_hashToStrMap, lookup>>

WriteText ==
    LET data == units[at].data IN
    /\ phase = "texts" /\ at <= Len(units)
    /\ ymo' = [ymo EXCEPT !.text = [o \in DOMAIN @ \cup {size} |-> IF o = size THEN data ELSE @[o]]]
    /\ size' = size + Bytes[data]
    /\ at' = at + 1
    /\ UNCHANGED <<source, phase, units, offset, g_hashToStrMap, lookup>>

TextsEnd ==
    /\ phase = "texts" /\ at > Len(units)
    /\ phase' = "built"
    /\ UNCHANGED <<source, at, units, offset, file, g_hashToStrMap, lookup>>

Compile == CollectUnit \/ WriteLength \/ WriteEntry \/ WriteEntryOverflows \/ TableEnds
           \/ WriteText \/ TextsEnd

(* The resource is cut off at any byte, also inside its table or a text. *)
CutOff ==
    /\ phase = "built" /\ size > 0
    /\ size' \in 0..(size - 1)
    /\ UNCHANGED <<source, phase, at, units, offset, ymo, g_hashToStrMap, lookup>>

-----------------------------------------------------------------------------
(* LoadTranslateData: a table that is not all there is not looked at. *)
LoadTable ==
    /\ phase = "built"
    /\ phase' = IF size >= 2 /\ size >= TableBytes(Len(ymo.table)) THEN "loading" ELSE "none"
    /\ at' = 1
    /\ UNCHANGED <<source, units, offset, file, g_hashToStrMap, lookup>>

(* What a reader finds at an offset: nothing says where a text ends but its
   NUL, so that one whose end is cut off is read past the end.             *)
Ends(o) == o + Bytes[ymo.text[o]]
TextAt(o) == IF o \in DOMAIN ymo.text /\ Ends(o) <= size THEN ymo.text[o] ELSE Garbage

(* emplace leaves an entry that is there alone. *)
Emplace(hash, text) ==
    [h \in DOMAIN g_hashToStrMap \cup {hash} |->
        IF h \in DOMAIN g_hashToStrMap THEN g_hashToStrMap[h] ELSE text]

LoadEntry ==
    LET entry == ymo.table[at] IN
    /\ phase = "loading" /\ at <= Len(ymo.table)
    /\ g_hashToStrMap' = IF entry.offset >= size THEN g_hashToStrMap
                         ELSE Emplace(entry.hash, TextAt(entry.offset))
    /\ at' = at + 1
    /\ UNCHANGED <<source, phase, units, offset, file, lookup>>

LoadEnds ==
    /\ phase = "loading" /\ at > Len(ymo.table)
    /\ phase' = "loaded"
    /\ UNCHANGED <<source, at, units, offset, file, g_hashToStrMap, lookup>>

(* There is no resource, or none for the language of the thread. *)
LoadsNothing ==
    /\ phase \in {"built", "failed"}
    /\ phase' = "none"
    /\ UNCHANGED <<source, at, units, offset, file, g_hashToStrMap, lookup>>

LoadTranslateData == LoadTable \/ LoadEntry \/ LoadEnds \/ LoadsNothing

-----------------------------------------------------------------------------
(* Translate: the answer for a string, once given, is kept. *)
Translation(k) ==
    IF k \in DOMAIN ptrToStrMap THEN ptrToStrMap[k]
    ELSE IF fnv1a_32[k] \in DOMAIN g_hashToStrMap THEN g_hashToStrMap[fnv1a_32[k]]
    ELSE k

Translates(k) ==
    /\ phase \in {"loaded", "none"}
    /\ Cardinality(DOMAIN ptrToStrMap) < MaxCalls \/ k \in DOMAIN ptrToStrMap
    /\ ptrToStrMap' = [x \in DOMAIN ptrToStrMap \cup {k} |-> Translation(x)]
    /\ UNCHANGED <<source, phase, at, units, offset, file, g_hashToStrMap>>

Translate(s) ==
    LET k == Key("none", s) IN
    /\ Translates(k)
    /\ said' = {[asked |-> k, returned |-> Translation(k)]}

(* A string that comes back as it is was not translated. *)
TranslateContext(c, s) ==
    LET k == Key(c, s) IN
    /\ Translates(k)
    /\ said' = {[asked |-> k,
                 returned |-> IF Translation(k) = k THEN Key("none", s) ELSE Translation(k)]}

Next ==
    \/ Compile \/ CutOff \/ LoadTranslateData
    \/ \E s \in Strings : Translate(s) \/ \E c \in Contexts : TranslateContext(c, s)

Spec == Init /\ [][Next]_vars

-----------------------------------------------------------------------------
(* What the catalogue says of a text: the last of some of its usable units
   decides, and without one the text stays English.                        *)
English(k) == Key("none", k.str)
LastOf(hits, k) ==
    IF hits = {} THEN English(k)
    ELSE catalogue[CHOOSE i \in hits : \A j \in hits : j <= i].target

Own(k) == {i \in DOMAIN catalogue : Usable(catalogue[i]) /\ catalogue[i].source = k}

(* Nothing detects a collision: whichever text a unit is of, it counts for
   every text with its hash.                                               *)
Hits(k) == {i \in DOMAIN catalogue : Usable(catalogue[i])
                                     /\ fnv1a_32[catalogue[i].source] = fnv1a_32[k]}
Expected(k) == LastOf(Hits(k), k)

(* po2ymo's offset ends where its last text does. *)
IsWhole == phase = "loaded" /\ size = offset

(* The cut is inside a text, and that text reads t. *)
CutInside(t) == \E o \in DOMAIN ymo.text : ymo.text[o] = t /\ o < size /\ size < Ends(o)

(* What Translate and TranslateContext return is what the catalogue says
   for that hash, or English, or what is read past the end where the cut is
   inside the very text that was to be returned; only the first if the
   resource is whole, and then, unless another text of the catalogue has
   the same hash, it is what the catalogue says for the text itself.       *)
SaysWhatTheCatalogueSays ==
    \A answer \in said :
        LET k == answer.asked IN
        /\ \/ answer.returned \in {Expected(k), English(k)}
           \/ answer.returned = Garbage /\ CutInside(Expected(k))
        /\ IsWhole => answer.returned = Expected(k)
        /\ (IsWhole /\ Hits(k) = Own(k)) => answer.returned = LastOf(Own(k), k)
=============================================================================
