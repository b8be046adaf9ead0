---------------------------- MODULE SpscTopicProofs ----------------------------
(***************************************************************************)
(* A topic works for every number of publishers, deaths, failed calls and  *)
(* messages.  MappingInv needs only that the header is stored in order;    *)
(* the rest of TopicInv needs that one publisher at a time is started.     *)
(***************************************************************************)
EXTENDS SpscTopic, TLAPS

\* Time for the large leaves.
USE SMTT(30), ZenonT(30)

FieldNames == {"magic", "version", "header_size", "capacity_bytes", "control_offset",
               "ring_offset", "alignment", "flags"}

\* Every field has one place in Fields, flags the last one.
LEMMA FieldPlaces ==
    /\ Len(Fields) = 8
    /\ \A i \in 1..8 : Fields[i] \in FieldNames
    /\ \A i, j \in 1..8 : Fields[i] = Fields[j] => i = j
    /\ \A f \in FieldNames : \E i \in 1..8 : Fields[i] = f
    /\ Fields[8] = "flags"
    /\ Elements(Fields) = FieldNames
  <1>1. Len(Fields) = 8
    BY Zenon DEF Fields
  <1>2. /\ Fields[1] = "magic" /\ Fields[2] = "version" /\ Fields[3] = "header_size"
        /\ Fields[4] = "capacity_bytes" /\ Fields[5] = "control_offset"
        /\ Fields[6] = "ring_offset" /\ Fields[7] = "alignment" /\ Fields[8] = "flags"
    BY Zenon DEF Fields
  <1>3. \A i \in 1..8 : i = 1 \/ i = 2 \/ i = 3 \/ i = 4 \/ i = 5 \/ i = 6 \/ i = 7 \/ i = 8
    OBVIOUS
  <1>4. \A i \in 1..8 : Fields[i] \in FieldNames
    BY Zenon, <1>2, <1>3 DEF FieldNames
  <1>5. \A i, j \in 1..8 : Fields[i] = Fields[j] => i = j
    BY <1>2, <1>3
  <1>6. \A f \in FieldNames : \E i \in 1..8 : Fields[i] = f
    BY <1>2 DEF FieldNames
  <1>7. Elements(Fields) = FieldNames
    BY Zenon, <1>1, <1>4, <1>6 DEF Elements
  <1> QED BY Zenon, <1>1, <1>2, <1>4, <1>5, <1>6, <1>7

\* The value of a field is a number other than the 0 of a cleared header.
LEMMA FieldValues == \A f \in FieldNames : FieldValue(f) \in Nat /\ FieldValue(f) # 0
  <1> DEFINE c == (CapacityBytes + 7) \div 8
  <1>1. c \in Nat /\ c > 0
    BY CapacityBytesAssumption
  <1>2. FieldValue("capacity_bytes") = c * 8
    BY CapacityBytesAssumption DEF FieldValue, AlignUp, kAlignment
  <1>3. HeaderRegionSize = 64 /\ ControlRegionSize = 320
    BY DEF HeaderRegionSize, ControlRegionSize, AlignUp, kCacheLineSize
  <1>4. /\ FieldValue("magic") = 1 /\ FieldValue("version") = 1 /\ FieldValue("flags") = 1
        /\ FieldValue("header_size") = 48 /\ FieldValue("control_offset") = 64
        /\ FieldValue("ring_offset") = 384 /\ FieldValue("alignment") = 8
    BY <1>3 DEF FieldValue, kAlignment
  <1> HIDE DEF c
  <1> QED BY <1>1, <1>2, <1>4 DEF FieldNames

LEMMA CursorPlaces ==
    /\ Len(Cursors) = 5
    /\ \A i \in 1..5 : Cursors[i] \in Elements(Cursors)
    /\ "head_publish" \in Elements(Cursors) /\ "tail_publish" \in Elements(Cursors)
  <1>1. Len(Cursors) = 5 /\ Cursors[2] = "head_publish" /\ Cursors[4] = "tail_publish"
    BY Zenon DEF Cursors
  <1> QED BY <1>1 DEF Elements

\* A cleared header misses every field.
LEMMA ZeroIsMissing == file.header = ZeroHeader => Missing = 1..8
  BY Zenon, FieldPlaces DEF ZeroHeader, Missing

\* Where MappingInv says something of a process.
Placed == {"truncate", "map", "header", "control", "offsets", "ready"}

\* A step that leaves the header and moves at most one process, to where nothing is
\* claimed of it.
LEMMA QuietStep ==
    ASSUME MappingTypeOK, MappingInv, NEW p \in Processes, 
           NEW pc \in {"down", "create", "open", "stat", "check"},
           Goto(p, pc), UNCHANGED <<file, cleared, seen>>,
           faults' \in [Processes -> 0..MaxFault]
    PROVE  MappingTypeOK' /\ MappingInv'
  <1>1. Missing' = Missing
    BY Zenon DEF Missing
  <1>2. /\ at' \in [Processes -> {"down", "create", "truncate", "map", "header", "control",
                                  "open", "stat", "check", "offsets", "ready"}]
        /\ \A q \in Processes : at'[q] \in Placed => at[q] = at'[q]
    BY Zenon DEF MappingTypeOK, Goto, Placed
  <1>3. MappingTypeOK'
    BY Zenon, <1>2 DEF MappingTypeOK
  <1> QED BY Zenon, <1>1, <1>2, <1>3 DEF MappingInv, HeaderIsWhole, Placed, Making

\* Cursors may move without a trace in the rest of the file.
LEMMA CursorStep ==
    ASSUME MappingTypeOK, MappingInv, UNCHANGED <<at, cleared, seen, faults>>,
           NEW c \in Elements(Cursors), NEW v \in Nat,
           file' = [file EXCEPT !.control[c] = v]
    PROVE  MappingTypeOK' /\ MappingInv'
  <1>1. /\ file'.exists = file.exists /\ file'.header = file.header
        /\ file'.size = file.size /\ file'.control \in [Elements(Cursors) -> Nat]
        /\ file' \in [exists : BOOLEAN, size : Nat, header : [Elements(Fields) -> Nat],
                      control : [Elements(Cursors) -> Nat]]
    BY Zenon DEF MappingTypeOK
  <1>2. Missing' = Missing
    BY Zenon, <1>1 DEF Missing
  <1>3. MappingTypeOK'
    BY Zenon, <1>1 DEF MappingTypeOK
  <1> QED BY Zenon, <1>1, <1>2, <1>3 DEF MappingInv, HeaderIsWhole

LEMMA CreateFileStep ==
    ASSUME MappingTypeOK, MappingInv, NEW p \in Processes, CreateFile(p)
    PROVE  MappingTypeOK' /\ MappingInv'
  <1>1. CASE file.exists
    <2>1. Goto(p, "down") /\ UNCHANGED <<file, cleared, seen, faults>>
      BY Zenon, <1>1 DEF CreateFile, Throw
    <2> QED BY Zenon, <2>1, QuietStep DEF MappingTypeOK
  <1>2. CASE ~ file.exists
    <2>1. /\ file' = [file EXCEPT !.exists = TRUE] /\ at' = [at EXCEPT ![p] = "truncate"]
          /\ UNCHANGED <<cleared, seen, faults>>
      BY Zenon, <1>2 DEF CreateFile, Goto
    <2>2. /\ MappingTypeOK' /\ file'.exists /\ file'.header = file.header
          /\ at'[p] = "truncate" /\ \A q \in Processes : q # p => at'[q] = at[q]
      BY Zenon, <2>1 DEF MappingTypeOK
    <2>3. Missing' = Missing
      BY Zenon, <2>2 DEF Missing
    <2>4. \A q \in Processes : at[q] \notin Making
      BY Zenon, <1>2 DEF MappingInv
    <2>5. file.header = ZeroHeader
      BY Zenon, <1>2 DEF MappingInv
    <2> QED BY <2>1, <2>2, <2>3, <2>4, <2>5 DEF MappingInv, HeaderIsWhole, Making
  <1> QED BY Zenon, <1>1, <1>2

LEMMA TruncateStep ==
    ASSUME MappingTypeOK, MappingInv, NEW p \in Processes, Truncate(p)
    PROVE  MappingTypeOK' /\ MappingInv'
  <1>0. RequiredMappingSize(CapacityBytes) \in Nat
    BY CapacityBytesAssumption
       DEF RequiredMappingSize, HeaderRegionSize, ControlRegionSize, AlignUp, kCacheLineSize,
           kAlignment
  <1>1. /\ at[p] = "truncate" /\ at' = [at EXCEPT ![p] = "map"]
        /\ file' = [file EXCEPT !.size = RequiredMappingSize(CapacityBytes)]
        /\ UNCHANGED <<cleared, seen, faults>>
    BY Zenon DEF Truncate, Goto
  <1>2. /\ MappingTypeOK' /\ file'.exists = file.exists /\ file'.header = file.header
        /\ at'[p] = "map" /\ \A q \in Processes : q # p => at'[q] = at[q]
    BY Zenon, <1>0, <1>1 DEF MappingTypeOK
  <1>3. Missing' = Missing
    BY Zenon, <1>2 DEF Missing
  <1> QED BY <1>1, <1>2, <1>3 DEF MappingInv, HeaderIsWhole, Making

LEMMA MapAndClearStep ==
    ASSUME MappingTypeOK, MappingInv, NEW p \in Processes, MapAndClear(p)
    PROVE  MappingTypeOK' /\ MappingInv'
  <1>1. /\ at[p] = "map" /\ at' = [at EXCEPT ![p] = "header"]
        /\ file' = [file EXCEPT !.header = ZeroHeader, !.control = ZeroControl]
        /\ cleared' = [cleared EXCEPT ![p] = 0]
        /\ UNCHANGED <<seen, faults>>
    BY Zenon DEF MapAndClear, Goto
  <1>2. /\ ZeroHeader \in [Elements(Fields) -> Nat]
        /\ ZeroControl \in [Elements(Cursors) -> Nat]
    BY Zenon DEF ZeroHeader, ZeroControl
  <1>3. /\ file'.exists = file.exists /\ file'.header = ZeroHeader
        /\ file' \in [exists : BOOLEAN, size : Nat, header : [Elements(Fields) -> Nat],
                      control : [Elements(Cursors) -> Nat]]
    BY Zenon, <1>1, <1>2 DEF MappingTypeOK
  <1>7. /\ at'[p] = "header" /\ \A q \in Processes : q # p => at'[q] = at[q]
        /\ at' \in [Processes -> {"down", "create", "truncate", "map", "header", "control",
                                  "open", "stat", "check", "offsets", "ready"}]
    BY Zenon, <1>1 DEF MappingTypeOK
  <1>8. /\ cleared'[p] = 0 /\ \A q \in Processes : q # p => cleared'[q] = cleared[q]
        /\ cleared' \in [Processes -> 0..5]
    BY <1>1, CursorPlaces DEF MappingTypeOK
  <1>9. MappingTypeOK'
    BY Zenon, <1>1, <1>3, <1>7, <1>8, CursorPlaces DEF MappingTypeOK
  <1>4. file.header = ZeroHeader
    BY Zenon, <1>1 DEF MappingInv
  <1>5. Missing' = Missing
    BY Zenon, <1>3, <1>4 DEF Missing
  <1>6. Missing # {}
    BY <1>4, ZeroIsMissing
  <1> QED BY <1>1, <1>3, <1>4, <1>5, <1>6, <1>7, <1>8, <1>9, CursorPlaces
          DEF MappingInv, HeaderIsWhole, Making

\* The first missing field is stored, and only that one.
LEMMA StoreHeaderStep ==
    ASSUME MappingTypeOK, MappingInv, ~ HeaderReorders, NEW p \in Processes, StoreHeader(p)
    PROVE  MappingTypeOK' /\ MappingInv'
  <1>1. PICK i \in Missing :
            /\ \A j \in Missing : i <= j
            /\ file' = [file EXCEPT !.header[Fields[i]] = FieldValue(Fields[i])]
            /\ Goto(p, IF Missing = {i} THEN "control" ELSE "header")
    BY Zenon DEF StoreHeader
  <1>2. at[p] = "header" /\ UNCHANGED <<cleared, seen, faults>>
    BY Zenon DEF StoreHeader
  <1>3. /\ i \in 1..8 /\ Fields[i] \in Elements(Fields)
        /\ FieldValue(Fields[i]) \in Nat /\ FieldValue(Fields[i]) # 0
    BY Zenon, FieldPlaces, FieldValues DEF Missing
  <1>4. /\ file' \in [exists : BOOLEAN, size : Nat, header : [Elements(Fields) -> Nat],
                      control : [Elements(Cursors) -> Nat]]
        /\ file'.exists = file.exists
        /\ file'.header = [file.header EXCEPT ![Fields[i]] = FieldValue(Fields[i])]
    BY Zenon, <1>1, <1>3 DEF MappingTypeOK
  <1>5. \A j \in 1..8 : file'.header[Fields[j]] =
                           IF j = i THEN FieldValue(Fields[i]) ELSE file.header[Fields[j]]
    <2>1. file.header \in [FieldNames -> Nat]
      BY Zenon, FieldPlaces DEF MappingTypeOK
    <2>2. \A f \in FieldNames : file'.header[f] = IF f = Fields[i]
                                                 THEN FieldValue(Fields[i])
                                                 ELSE file.header[f]
      BY Zenon, <1>4, <2>1
    <2> QED BY <1>3, <2>2, FieldPlaces
  <1>6. Missing' = Missing \ {i}
    BY <1>3, <1>5, FieldPlaces DEF Missing
  <1>7. /\ at'[p] = IF Missing = {i} THEN "control" ELSE "header"
        /\ \A q \in Processes : q # p => at'[q] = at[q]
        /\ at' \in [Processes -> {"down", "create", "truncate", "map", "header", "control",
                                  "open", "stat", "check", "offsets", "ready"}]
    BY Zenon, <1>1 DEF Goto, MappingTypeOK
  <1>8. MappingTypeOK'
    BY Zenon, <1>2, <1>4, <1>7 DEF MappingTypeOK
  <1>9. \A q \in Processes : q # p => at[q] \notin Making \cup {"control", "offsets", "ready"}
    BY Zenon, <1>2 DEF MappingInv, Making
  <1>10. \A q \in Processes :
            /\ at'[q] \in Making => q = p /\ file'.exists
            /\ at'[q] \in {"truncate", "map"} => FALSE
            /\ at'[q] = "header" => Missing' # {}
            /\ at'[q] \in {"control", "offsets", "ready"} => Missing' = {}
            /\ at'[q] \in {"header", "control"} => cleared'[q] < Len(Cursors)
    <2>1. CASE Missing = {i}
      BY <1>2, <1>4, <1>6, <1>7, <1>9, <2>1 DEF MappingInv, Making
    <2>2. CASE Missing # {i}
      BY <1>2, <1>4, <1>6, <1>7, <1>9, <2>2 DEF MappingInv, Making
    <2> QED BY Zenon, <2>1, <2>2
  <1>11. \A j \in 1..8 : file'.header[Fields[j]] \in {0, FieldValue(Fields[j])}
    BY Zenon, <1>5, FieldPlaces DEF MappingInv
  <1>12. \A k \in Missing' : \A j \in 1..8 : k <= j => j \in Missing'
    <2>1. \A k \in Missing : k \in 1..8
      BY Zenon, FieldPlaces DEF Missing
    <2>2. \A k \in Missing : \A j \in 1..8 : k <= j => j \in Missing
      BY Zenon, FieldPlaces DEF MappingInv
    <2> QED BY <1>1, <1>3, <1>6, <2>1, <2>2
  <1>13. file'.exists
    BY Zenon, <1>2, <1>4 DEF MappingInv, Making
  <1>14. HeaderIsWhole'
    BY Zenon, <1>2, <1>7, <1>9, <1>10 DEF HeaderIsWhole
  <1> QED BY <1>8, <1>10, <1>11, <1>12, <1>13, <1>14, FieldPlaces DEF MappingInv

\* The cursors of the file that p finishes.
LEMMA StoreControlStep ==
    ASSUME MappingTypeOK, MappingInv, NEW p \in Processes, StoreControl(p)
    PROVE  MappingTypeOK' /\ MappingInv'
  <1>1. /\ at[p] = "control" /\ UNCHANGED faults
        /\ file' = [file EXCEPT !.control[Cursors[cleared[p] + 1]] = 0]
        /\ cleared' = [cleared EXCEPT ![p] = cleared[p] + 1]
    BY Zenon DEF StoreControl
  <1>2. cleared[p] \in 0..4 /\ Missing = {}
    BY <1>1, CursorPlaces DEF MappingInv, MappingTypeOK
  <1>3. Cursors[cleared[p] + 1] \in Elements(Cursors)
    BY <1>2, CursorPlaces
  <1>4. /\ file'.exists = file.exists /\ file'.header = file.header
        /\ file' \in [exists : BOOLEAN, size : Nat, header : [Elements(Fields) -> Nat],
                      control : [Elements(Cursors) -> Nat]]
    BY Zenon, <1>1, <1>3 DEF MappingTypeOK
  <1>5. Missing' = Missing
    BY Zenon, <1>4 DEF Missing
  <1>6. /\ cleared' \in [Processes -> 0..5] /\ cleared'[p] = cleared[p] + 1
        /\ \A q \in Processes : q # p => cleared'[q] = cleared[q]
    BY <1>1, <1>2, CursorPlaces DEF MappingTypeOK
  <1>7. CASE cleared[p] + 1 < 5
    <2>1. UNCHANGED <<at, seen>>
      BY Zenon, <1>7, CursorPlaces DEF StoreControl
    <2>2. MappingTypeOK'
      BY Zenon, <1>1, <1>4, <1>6, <2>1, CursorPlaces DEF MappingTypeOK
    <2> QED BY Zenon, <1>1, <1>4, <1>5, <1>6, <1>7, <2>1, <2>2, CursorPlaces
            DEF MappingInv, HeaderIsWhole
  <1>8. CASE ~ (cleared[p] + 1 < 5)
    <2>1. seen' = [seen EXCEPT ![p] = WholeHeader] /\ at' = [at EXCEPT ![p] = "ready"]
      BY Zenon, <1>8, CursorPlaces DEF StoreControl, Goto
    <2>2. WholeHeader \in [capacity : Nat, control : Nat, ring : Nat]
      BY Zenon, FieldValues DEF WholeHeader, FieldNames
    <2>3. /\ at'[p] = "ready" /\ \A q \in Processes : q # p => at'[q] = at[q]
          /\ seen'[p] = WholeHeader /\ \A q \in Processes : q # p => seen'[q] = seen[q]
      BY Zenon, <2>1 DEF MappingTypeOK
    <2>4. MappingTypeOK'
      BY Zenon, <1>1, <1>4, <1>6, <2>1, <2>2, CursorPlaces DEF MappingTypeOK
    <2> QED BY ZenonT(30), <1>1, <1>2, <1>4, <1>5, <1>6, <2>3, <2>4 DEF MappingInv, HeaderIsWhole, Making
  <1> QED BY Zenon, <1>7, <1>8

\* open_mapping: flags, the last field, is there, so all of them are.
LEMMA OpenCheckStep ==
    ASSUME MappingTypeOK, MappingInv, NEW p \in Processes, OpenCheck(p)
    PROVE  MappingTypeOK' /\ MappingInv'
  <1>1. at[p] = "check" /\ UNCHANGED <<file, cleared, seen, faults>>
    BY Zenon DEF OpenCheck
  <1>2. CASE Goto(p, "down")
    BY Zenon, <1>1, <1>2, QuietStep DEF MappingTypeOK
  <1>3. CASE file.header["flags"] = FieldValue("flags") /\ Goto(p, "offsets")
    <2>1. 8 \notin Missing
      BY Zenon, <1>3, FieldPlaces, FieldValues DEF Missing, FieldNames
    <2>2. \A i \in Missing : i \in 1..8 /\ 8 \in Missing
      BY FieldPlaces DEF Missing, MappingInv
    <2>3. Missing = {} /\ Missing' = Missing
      BY Zenon, <1>1, <2>1, <2>2 DEF Missing
    <2>4. /\ at'[p] = "offsets" /\ \A q \in Processes : q # p => at'[q] = at[q]
          /\ MappingTypeOK'
      BY Zenon, <1>1, <1>3 DEF MappingTypeOK, Goto
    <2> QED BY Zenon, <1>1, <2>3, <2>4 DEF MappingInv, HeaderIsWhole, Making
  <1> QED BY Zenon, <1>2, <1>3 DEF OpenCheck, Throw

LEMMA OpenOffsetsStep ==
    ASSUME MappingTypeOK, MappingInv, NEW p \in Processes, OpenOffsets(p)
    PROVE  MappingTypeOK' /\ MappingInv'
  <1>1. at[p] = "offsets" /\ UNCHANGED <<file, cleared, faults>>
    BY Zenon DEF OpenOffsets
  <1>2. CASE Goto(p, "down") /\ UNCHANGED seen
    BY Zenon, <1>1, <1>2, QuietStep DEF MappingTypeOK
  <1>3. CASE seen' = [seen EXCEPT ![p] = LoadedHeader] /\ Goto(p, "ready")
    <2>1. Missing = {} /\ Missing' = Missing
      BY Zenon, <1>1 DEF MappingInv, Missing
    <2>2. \A f \in FieldNames : file.header[f] = FieldValue(f)
      BY <2>1, FieldPlaces DEF MappingInv, Missing
    <2>3. LoadedHeader = WholeHeader
      BY Zenon, <2>2 DEF LoadedHeader, WholeHeader, FieldNames
    <2>4. WholeHeader \in [capacity : Nat, control : Nat, ring : Nat]
      BY FieldValues DEF WholeHeader, FieldNames
    <2>5. /\ at'[p] = "ready" /\ \A q \in Processes : q # p => at'[q] = at[q]
          /\ seen'[p] = WholeHeader /\ \A q \in Processes : q # p => seen'[q] = seen[q]
      BY Zenon, <1>3, <2>3 DEF MappingTypeOK, Goto
    <2>6. MappingTypeOK'
      BY Zenon, <1>1, <1>3, <2>3, <2>4 DEF MappingTypeOK, Goto
    <2> QED BY <1>1, <2>1, <2>5, <2>6 DEF MappingInv, HeaderIsWhole, Making
  <1> QED BY Zenon, <1>2, <1>3 DEF OpenOffsets, Throw

LEMMA CreateStep ==
    ASSUME MappingTypeOK, MappingInv, ~ HeaderReorders, NEW p \in Processes, Create(p)
    PROVE  MappingTypeOK' /\ MappingInv'
  BY Zenon, CreateFileStep, TruncateStep, MapAndClearStep, StoreHeaderStep, StoreControlStep
     DEF Create

LEMMA OpenExistingStep ==
    ASSUME MappingTypeOK, MappingInv, NEW p \in Processes, OpenExisting(p)
    PROVE  MappingTypeOK' /\ MappingInv'
  <1>1. CASE OpenFile(p)
    <2>1. (Goto(p, "stat") \/ Goto(p, "down")) /\ UNCHANGED <<file, cleared, seen, faults>>
      BY Zenon, <1>1 DEF OpenFile, Throw
    <2> QED BY Zenon, <2>1, QuietStep DEF MappingTypeOK
  <1>2. CASE OpenStat(p)
    <2>1. (Goto(p, "check") \/ Goto(p, "down")) /\ UNCHANGED <<file, cleared, seen, faults>>
      BY Zenon, <1>2 DEF OpenStat, Throw
    <2> QED BY Zenon, <2>1, QuietStep DEF MappingTypeOK
  <1> QED BY Zenon, <1>1, <1>2, OpenCheckStep, OpenOffsetsStep DEF OpenExisting

LEMMA FaultStep ==
    ASSUME MappingTypeOK, MappingInv, NEW p \in Processes, CallFails(p) \/ Gone(p)
    PROVE  MappingTypeOK' /\ MappingInv'
  <1>1. /\ Goto(p, "down") /\ UNCHANGED <<file, cleared, seen>>
        /\ faults[p] < MaxFault /\ faults' = [faults EXCEPT ![p] = @ + 1]
    BY Zenon DEF CallFails, Gone, Throw
  <1>2. faults' \in [Processes -> 0..MaxFault]
    BY <1>1, FaultAssumption DEF MappingTypeOK
  <1> QED BY Zenon, <1>1, <1>2, QuietStep

\* A step that leaves the file and its users alone.
LEMMA IdleStep ==
    ASSUME MappingTypeOK, MappingInv, UNCHANGED mappingVars
    PROVE  MappingTypeOK' /\ MappingInv'
  BY DEF MappingTypeOK, MappingInv, HeaderIsWhole, Missing, mappingVars

LEMMA PublishStep ==
    ASSUME MappingTypeOK, MappingInv, NEW p \in Processes, Publish(p)
    PROVE  MappingTypeOK' /\ MappingInv'
  <1>1. /\ file.control["tail_publish"] + 1 \in Nat
        /\ file' = [file EXCEPT !.control["tail_publish"] = file.control["tail_publish"] + 1]
        /\ UNCHANGED <<at, cleared, seen, faults>>
    BY CursorPlaces DEF Publish, MappingTypeOK
  <1> QED BY Zenon, <1>1, CursorStep, CursorPlaces

LEMMA PopStep ==
    ASSUME MappingTypeOK, MappingInv, NEW here, NEW call, NEW none, Pop(here, call, none)
    PROVE  MappingTypeOK' /\ MappingInv'
  <1>1. CASE UNCHANGED file
    BY Zenon, <1>1, IdleStep DEF Pop, mappingVars
  <1>2. CASE file' = [file EXCEPT !.control["head_publish"] = @ + 1]
    <2>1. /\ file.control["head_publish"] + 1 \in Nat
          /\ file' = [file EXCEPT !.control["head_publish"] = file.control["head_publish"] + 1]
          /\ UNCHANGED <<at, cleared, seen, faults>>
      BY <1>2, CursorPlaces DEF Pop, MappingTypeOK
    <2> QED BY Zenon, <2>1, CursorStep, CursorPlaces
  <1> QED BY Zenon, <1>1, <1>2 DEF Pop

\* Every step of the topic.
LEMMA MappingStep ==
    ASSUME MappingTypeOK, MappingInv, ~ HeaderReorders, [Next]_vars
    PROVE  MappingTypeOK' /\ MappingInv'
  <1>0. Sub \in Processes /\ \A p \in Publishers : p \in Processes
    BY Zenon, TopicAssumption
  <1>1. ASSUME NEW p \in Publishers, Publisher(p)
        PROVE  MappingTypeOK' /\ MappingInv'
    <2>1. CASE ClaimCall(p)
      <3>1. (Goto(p, "open") \/ Goto(p, "create")) /\ UNCHANGED <<file, cleared, seen, faults>>
        BY Zenon, <2>1 DEF ClaimCall
      <3> QED BY Zenon, <1>0, <3>1, QuietStep DEF MappingTypeOK
    <2> QED BY Zenon, <1>0, <1>1, <2>1, CreateStep, OpenExistingStep, PublishStep, FaultStep
            DEF Publisher
  <1>2. CASE Subscriber
    <2>1. CASE OpenCall
      BY Zenon, <1>0, <2>1, QuietStep DEF OpenCall, MappingTypeOK
    <2>2. CASE Destroy
      BY Zenon, <1>0, <2>2, QuietStep DEF Destroy, Throw, MappingTypeOK
    <2>3. CASE SubscriberStart \/ SubscriberStop
      BY Zenon, <2>3, IdleStep DEF SubscriberStart, SubscriberStop
    <2> QED BY Zenon, <1>0, <1>2, <2>1, <2>2, <2>3, OpenExistingStep, FaultStep
            DEF Subscriber, Construct, SubscriberDies
  <1>3. CASE PollLoop \/ Timeout
    BY Zenon, <1>3, PopStep, IdleStep DEF PollLoop, Timeout, Callback, Drained
  <1>4. CASE UNCHANGED vars
    BY Zenon, <1>4, IdleStep DEF vars
  <1> QED BY Zenon, <1>1, <1>2, <1>3, <1>4 DEF Next

LEMMA MappingStarts == MappingInit => MappingTypeOK /\ MappingInv
  <1> SUFFICES ASSUME MappingInit PROVE MappingTypeOK /\ MappingInv
    BY Zenon
  <1>1. /\ ZeroHeader \in [Elements(Fields) -> Nat]
        /\ ZeroControl \in [Elements(Cursors) -> Nat]
    BY Zenon DEF ZeroHeader, ZeroControl
  <1>2. /\ file = [exists |-> FALSE, size |-> 0, header |-> ZeroHeader, control |-> ZeroControl]
        /\ \A p \in Processes : at[p] = "down"
    BY Zenon DEF MappingInit
  <1>3. file.header = ZeroHeader
    BY Zenon, <1>2
  <1>4. Missing = 1..8
    BY Zenon, <1>3, ZeroIsMissing
  <1>5. MappingTypeOK
    BY <1>1, <1>2, CursorPlaces, FaultAssumption DEF MappingTypeOK, MappingInit, NothingSeen
  <1>6. \A i \in 1..Len(Fields) : file.header[Fields[i]] = 0
    BY Zenon, <1>3, FieldPlaces DEF ZeroHeader
  <1> QED BY Zenon, <1>2, <1>3, <1>4, <1>5, <1>6, FieldPlaces DEF MappingInv, HeaderIsWhole, Making

\* HeaderIsWhole for every number of processes that claim and open the file, at the
\* same time or one after the other, dying anywhere: flags is stored last, and whoever
\* saw it set finds every other field of create_mapping's header.
THEOREM HeaderWhole == ~ HeaderReorders => (Spec => []HeaderIsWhole)
  <1> SUFFICES ASSUME ~ HeaderReorders PROVE Spec => []HeaderIsWhole
    BY Zenon
  <1>1. Init => MappingTypeOK /\ MappingInv
    BY Zenon, MappingStarts DEF Init
  <1>2. MappingTypeOK /\ MappingInv /\ [Next]_vars => MappingTypeOK' /\ MappingInv'
    BY Zenon, MappingStep
  <1>3. MappingInv => HeaderIsWhole
    BY Zenon DEF MappingInv
  <1> QED BY <1>1, <1>2, <1>3, PTL DEF Spec

-------------------------------------------------------------------------------
(* Creation: no cursor goes back *)

\* create_mapping stores zeros, twice, where there are zeros.
LEMMA CreateKeepsCursors ==
    ASSUME MappingTypeOK, MappingInv, CreationInv, ~ HeaderReorders,
           NEW p \in Publishers, Create(p)
    PROVE  file'.control = file.control /\ Missing' \subseteq Missing
  <1>0. p \in Processes
    BY Zenon, TopicAssumption
  <1>1. CASE CreateFile(p) \/ Truncate(p)
    <2>1. file'.control = file.control /\ file'.header = file.header
      BY Zenon, <1>1 DEF CreateFile, Truncate, MappingTypeOK
    <2> QED BY Zenon, <2>1 DEF Missing
  <1>2. CASE MapAndClear(p)
    <2>1. file.header = ZeroHeader /\ file'.header = ZeroHeader /\ file'.control = ZeroControl
      BY Zenon, <1>0, <1>2 DEF MapAndClear, MappingInv, MappingTypeOK
    <2>2. Missing # {}
      BY <2>1, ZeroIsMissing
    <2> QED BY Zenon, <2>1, <2>2 DEF CreationInv, Missing
  <1>3. CASE StoreHeader(p)
    <2>1. PICK i \in Missing :
              file' = [file EXCEPT !.header[Fields[i]] = FieldValue(Fields[i])]
      BY Zenon, <1>3 DEF StoreHeader
    <2>2. i \in 1..8 /\ FieldValue(Fields[i]) # 0 /\ Fields[i] \in FieldNames
      BY Zenon, FieldPlaces, FieldValues DEF Missing
    <2>3. /\ file'.control = file.control
          /\ file'.header = [file.header EXCEPT ![Fields[i]] = FieldValue(Fields[i])]
          /\ file.header \in [FieldNames -> Nat]
      BY Zenon, <2>1, FieldPlaces DEF MappingTypeOK
    <2>4. \A f \in FieldNames : file'.header[f] = 0 => file.header[f] = 0
      BY Zenon, <2>2, <2>3
    <2> QED BY Zenon, <2>3, <2>4, FieldPlaces DEF Missing
  <1>4. CASE StoreControl(p)
    <2>1. /\ file' = [file EXCEPT !.control[Cursors[cleared[p] + 1]] = 0]
          /\ file.control = ZeroControl
      BY Zenon, <1>4 DEF StoreControl, CreationInv
    <2>2. /\ file'.header = file.header
          /\ file'.control = [ZeroControl EXCEPT ![Cursors[cleared[p] + 1]] = 0]
      BY Zenon, <2>1 DEF MappingTypeOK
    <2>3. file'.control = ZeroControl
      BY Zenon, <2>2 DEF ZeroControl
    <2> QED BY Zenon, <2>1, <2>2, <2>3 DEF Missing
  <1> QED BY Zenon, <1>1, <1>2, <1>3, <1>4 DEF Create

\* What open_mapping, a failing call and a death move.
LEMMA OpenKeepsFile ==
    ASSUME MappingTypeOK, NEW p \in Processes,
           OpenExisting(p) \/ CallFails(p) \/ Gone(p)
    PROVE  /\ UNCHANGED file /\ at[p] # "down"
           /\ \A q \in Processes : q # p => at'[q] = at[q]
           /\ at'[p] \in {"down", "stat", "check", "offsets", "ready"}
  BY Zenon DEF MappingTypeOK, OpenExisting, OpenFile, OpenStat, OpenCheck, OpenOffsets, CallFails,
         Gone, Throw, Goto

LEMMA CreateMoves ==
    ASSUME MappingTypeOK, NEW p \in Processes, Create(p)
    PROVE  /\ at[p] # "down"
           /\ \A q \in Processes : q # p => at'[q] = at[q]
           /\ at'[p] = "control" => at[p] \in {"header", "control"}
  BY DEF MappingTypeOK, Create, CreateFile, Truncate, MapAndClear, StoreHeader, StoreControl,
         Throw, Goto

\* A publisher that is up goes on, and leaves the cursors where they are.
LEMMA CreationMove ==
    ASSUME MappingInv, CreationInv, NEW p \in Publishers, at[p] # "down",
           \A q \in Processes : q # p => at'[q] = at[q],
           file'.control = file.control, Missing' \subseteq Missing,
           at'[p] = "control" => at[p] \in {"header", "control"}
    PROVE  CreationInv'
  <1>1. p \in Processes /\ p # Sub /\ Sub \in Processes /\ Publishers \subseteq Processes
    BY Zenon, TopicAssumption
  <1>2. \A q \in Publishers : q # p => at[q] = "down" /\ at'[q] = "down"
    BY Zenon, <1>1 DEF CreationInv
  <1>3. at'[Sub] = at[Sub]
    BY Zenon, <1>1
  <1>4. Missing' # {} => Missing # {}
    BY Zenon
  <1>5. at[p] \in {"header", "control"} => file.control = ZeroControl
    BY Zenon, <1>1 DEF CreationInv, MappingInv
  <1>6. (ZeroControl)' = ZeroControl
    BY Zenon DEF ZeroControl
  <1> QED BY Zenon, <1>2, <1>3, <1>4, <1>5, <1>6 DEF CreationInv, Making

\* Moves of the subscriber's process.
LEMMA CreationBySub ==
    ASSUME CreationInv, UNCHANGED file,
           \A q \in Processes : q # Sub => at'[q] = at[q],
           at'[Sub] \in {"down", "open", "stat", "check", "offsets", "ready"}
    PROVE  CreationInv'
  <1>1. Sub \notin Publishers /\ Publishers \subseteq Processes
    BY Zenon, TopicAssumption
  <1>2. \A q \in Publishers : at'[q] = at[q]
    BY Zenon, <1>1
  <1>3. Missing' = Missing
    BY Zenon DEF Missing
  <1> QED BY Zenon, <1>2, <1>3 DEF CreationInv, Making

\* A cursor moves only in a finished file.
LEMMA CreationByCursor ==
    ASSUME CreationInv, UNCHANGED at, file'.header = file.header, Missing = {},
           \A p \in Publishers : at[p] # "control"
    PROVE  CreationInv'
  <1>1. Missing' = Missing
    BY Zenon DEF Missing
  <1> QED BY Zenon, <1>1 DEF CreationInv

LEMMA CreationIdle ==
    ASSUME CreationInv, UNCHANGED <<file, at>>
    PROVE  CreationInv'
  BY Zenon DEF CreationInv, Missing

\* A message is popped from a finished file whose cursors have moved.
LEMMA PopMoves ==
    ASSUME TypeOK, MappingInv, CreationInv, ThreadInv,
           NEW here \in {"work", "drain"}, NEW call, NEW none, Pop(here, call, none),
           head_publish # tail_publish
    PROVE  /\ Missing = {} /\ \A p \in Publishers : at[p] # "control"
           /\ file' = [file EXCEPT !.control["head_publish"] = @ + 1]
  <1>1. Sub \in Processes /\ at[Sub] = "ready"
    BY Zenon, TopicAssumption DEF Pop, ThreadInv
  <1>2. Missing = {}
    BY Zenon, <1>1 DEF MappingInv
  <1>3. file.control # ZeroControl
    BY Zenon, CursorPlaces DEF ZeroControl, head_publish, tail_publish
  <1> QED BY Zenon, <1>2, <1>3 DEF CreationInv, Pop

LEMMA CreationStep ==
    ASSUME TypeOK, MappingInv, CreationInv, ThreadInv, ~ HeaderReorders, Supervised,
           [Next]_vars
    PROVE  CreationInv'
  <1>0. /\ Sub \in Processes /\ Sub \notin Publishers
        /\ \A p \in Publishers : p \in Processes /\ p # Sub
        /\ MappingTypeOK
    BY Zenon, TopicAssumption DEF TypeOK
  <1>1. ASSUME NEW p \in Publishers, Publisher(p)
        PROVE  CreationInv'
    <2>1. CASE ClaimCall(p)
      <3>1. /\ at[p] = "down" /\ \A q \in Publishers : at[q] = "down"
            /\ at' = [at EXCEPT ![p] = at'[p]] /\ at'[p] \in {"open", "create"}
            /\ UNCHANGED file
        BY Zenon, <1>0, <2>1 DEF ClaimCall, Goto, MappingTypeOK
      <3>2. /\ \A q \in Publishers : q # p => at'[q] = "down"
            /\ at'[Sub] = at[Sub]
        BY Zenon, <1>0, <3>1 DEF MappingTypeOK
      <3>3. Missing' = Missing
        BY Zenon, <3>1 DEF Missing
      <3> QED BY Zenon, <3>1, <3>2, <3>3 DEF CreationInv
    <2>2. CASE Create(p)
      BY Zenon, <1>0, <2>2, CreateKeepsCursors, CreateMoves, CreationMove
    <2>3. CASE OpenExisting(p) \/ CallFails(p) \/ Gone(p)
      <3>1. /\ UNCHANGED file /\ at[p] # "down" /\ at'[p] # "control"
            /\ \A q \in Processes : q # p => at'[q] = at[q]
        BY Zenon, <1>0, <2>3, OpenKeepsFile
      <3>2. Missing' = Missing
        BY Zenon, <3>1 DEF Missing
      <3> QED BY Zenon, <3>1, <3>2, CreationMove
    <2>4. CASE Publish(p)
      <3>1. /\ at[p] = "ready" /\ UNCHANGED at /\ file'.header = file.header
        BY <2>4 DEF Publish, MappingTypeOK
      <3>2. Missing = {}
        BY Zenon, <1>0, <3>1 DEF MappingInv
      <3>3. \A q \in Publishers : at[q] # "control"
        BY Zenon, <3>1 DEF CreationInv
      <3> QED BY Zenon, <3>1, <3>2, <3>3, CreationByCursor
    <2> QED BY Zenon, <1>1, <2>1, <2>2, <2>3, <2>4 DEF Publisher
  <1>2. CASE Subscriber
    <2>1. CASE OpenCall \/ Destroy
      <3>1. /\ UNCHANGED file /\ at'[Sub] \in {"open", "down"}
            /\ \A q \in Processes : q # Sub => at'[q] = at[q]
        BY Zenon, <1>0, <2>1 DEF OpenCall, Destroy, Throw, Goto, MappingTypeOK
      <3> QED BY Zenon, <3>1, CreationBySub
    <2>2. CASE OpenExisting(Sub) \/ CallFails(Sub) \/ Gone(Sub)
      BY Zenon, <1>0, <2>2, OpenKeepsFile, CreationBySub
    <2>3. CASE SubscriberStart \/ SubscriberStop
      BY Zenon, <2>3, CreationIdle DEF SubscriberStart, SubscriberStop, mappingVars
    <2> QED BY Zenon, <1>2, <2>1, <2>2, <2>3 DEF Subscriber, Construct, SubscriberDies
  <1>3. ASSUME NEW here \in {"work", "drain"}, NEW call, NEW none, Pop(here, call, none)
        PROVE  CreationInv'
    <2>1. CASE head_publish = tail_publish
      BY Zenon, <1>3, <2>1, CreationIdle DEF Pop
    <2>2. CASE head_publish # tail_publish
      <3>1. /\ Missing = {} /\ \A p \in Publishers : at[p] # "control"
            /\ file' = [file EXCEPT !.control["head_publish"] = @ + 1]
        BY Zenon, <1>3, <2>2, PopMoves
      <3>2. file'.header = file.header /\ UNCHANGED at
        BY Zenon, <1>0, <1>3, <3>1 DEF MappingTypeOK, Pop
      <3> QED BY Zenon, <3>1, <3>2, CreationByCursor
    <2> QED BY Zenon, <2>1, <2>2
  <1>4. CASE PollLoop \/ Timeout
    BY Zenon, <1>3, <1>4, CreationIdle DEF PollLoop, Timeout, Callback, Drained, mappingVars
  <1>5. CASE UNCHANGED vars
    BY Zenon, <1>5, CreationIdle DEF vars, mappingVars
  <1> QED BY Zenon, <1>1, <1>2, <1>4, <1>5 DEF Next

-------------------------------------------------------------------------------
(* The polling thread *)

\* Nobody but the subscriber's process moves the subscriber.
LEMMA PublisherKeepsSub ==
    ASSUME MappingTypeOK, NEW p \in Publishers, Publisher(p)
    PROVE  at'[Sub] = at[Sub] /\ faults'[Sub] = faults[Sub]
  <1>1. p \in Processes /\ Sub \in Processes /\ p # Sub
    BY Zenon, TopicAssumption
  <1>2. \A q \in Processes : q # p => at'[q] = at[q]
    <2>1. CASE ClaimCall(p) \/ Publish(p)
      BY Zenon, <1>1, <2>1 DEF ClaimCall, Publish, Goto, MappingTypeOK
    <2> QED BY Zenon, <1>1, <2>1, CreateMoves, OpenKeepsFile DEF Publisher
  <1>3. UNCHANGED faults \/ faults' = [faults EXCEPT ![p] = @ + 1]
    BY Zenon DEF Publisher, ClaimCall, Create, CreateFile, Truncate, MapAndClear, StoreHeader,
           StoreControl, OpenExisting, OpenFile, OpenStat, OpenCheck, OpenOffsets, Publish,
           CallFails, Gone
  <1> QED BY Zenon, <1>1, <1>2, <1>3 DEF MappingTypeOK

\* stop holds mutex_ or waits for the thread, so the thread is there all the time.
LEMMA ThreadStep ==
    ASSUME TypeOK, ThreadInv, [Next]_vars
    PROVE  ThreadInv'
  <1>0. MappingTypeOK /\ PollTypeOK /\ Sub \in Processes
    BY Zenon, TopicAssumption DEF TypeOK
  <1>1. ASSUME NEW p \in Publishers, Publisher(p)
        PROVE  ThreadInv'
    <2>1. at'[Sub] = at[Sub] /\ UNCHANGED pollVars
      BY Zenon, <1>0, <1>1, PublisherKeepsSub DEF Publisher
    <2> QED BY Zenon, <2>1 DEF ThreadInv, pollVars
  <1>2. CASE Construct
    <2>1. at[Sub] # "ready" \/ poller = "none"
      BY Zenon, <1>2, <1>0
         DEF Construct, OpenCall, OpenExisting, OpenFile, OpenStat, OpenCheck, OpenOffsets,
             CallFails
    <2> QED BY Zenon, <1>2, <2>1 DEF Construct, ThreadInv, pollVars
  <1>3. CASE SubscriberStart
    BY Zenon, <1>3 DEF SubscriberStart, Start, ThreadInv, mappingVars
  <1>4. CASE SubscriberStop
    BY <1>4, <1>0
       DEF SubscriberStop, Stop, StopCall, StopStore, StopNotify, StopJoin, ThreadInv,
           mappingVars, PollTypeOK
  <1>5. CASE SubscriberDies
    BY Zenon, <1>5 DEF SubscriberDies, ThreadInv
  <1>6. CASE Destroy
    BY Zenon, <1>6 DEF Destroy, ThreadInv, pollVars
  <1>7. CASE PollLoop \/ Timeout
    BY <1>7, <1>0
       DEF PollLoop, PollHead, PollLock, PollBlock, Pop, Callback, Drained, Timeout,
           PollTimeout, ThreadInv, mappingVars, PollTypeOK
  <1>8. CASE UNCHANGED vars
    BY Zenon, <1>8 DEF vars, mappingVars, pollVars, ThreadInv
  <1> QED BY Zenon, <1>1, <1>2, <1>3, <1>4, <1>5, <1>6, <1>7, <1>8 DEF Next, Subscriber

-------------------------------------------------------------------------------
(* Delivery *)

\* Creating, opening, failing and dying move no cursor.
LEMMA CursorsStand ==
    ASSUME MappingTypeOK, MappingInv, CreationInv, ~ HeaderReorders,
           NEW p \in Publishers, Publisher(p), ~ Publish(p)
    PROVE  file'.control = file.control
  <1>1. p \in Processes
    BY Zenon, TopicAssumption
  <1>2. CASE ClaimCall(p)
    BY Zenon, <1>2 DEF ClaimCall
  <1> QED BY Zenon, <1>1, <1>2, CreateKeepsCursors, OpenKeepsFile DEF Publisher

LEMMA CursorTypes ==
    ASSUME TypeOK
    PROVE  /\ head_publish \in Nat /\ tail_publish \in Nat /\ head_publish <= tail_publish
           /\ tail_publish <= Len(Sizes) /\ tail_publish - head_publish <= Slots
           /\ Len(Sizes) \in Nat /\ Slots \in Nat
           /\ \A n \in 1..Len(Sizes) : Sizes[n] \in Nat
  <1>1. file.control \in [Elements(Cursors) -> Nat]
    BY Zenon DEF TypeOK, MappingTypeOK
  <1>2. head_publish \in Nat /\ tail_publish \in Nat
    BY Zenon, <1>1, CursorPlaces DEF head_publish, tail_publish
  <1>3. /\ Len(Sizes) \in Nat /\ Slots \in Nat
        /\ \A n \in 1..Len(Sizes) : Sizes[n] \in Nat
    BY TopicAssumption
  <1>4. tail_publish <= Len(Sizes) /\ tail_publish - head_publish \in 0..Slots
    BY Zenon DEF TypeOK
  <1> HIDE DEF head_publish, tail_publish
  <1> QED BY <1>2, <1>3, <1>4

\* try_pop leaves the message at the front of the buffer.
LEMMA ReceivedStarts ==
    ASSUME NEW n \in 1..Len(Sizes), Sizes[n] \in Nat, buf \in Seq(1..Len(Sizes))
    PROVE  /\ Received(n) \in Seq(1..Len(Sizes))
           /\ StartsWith(Received(n), n)
  <1> DEFINE m == Sizes[n]
             rest == SubSeq(buf, m + 1, Len(buf))
  <1>0. Len(Sizes) \in Nat /\ m \in Nat
    BY TopicAssumption
  <1>1. Message(n) \in Seq(1..Len(Sizes)) /\ Len(Message(n)) = m
    BY <1>0 DEF Message
  <1>2. rest \in Seq(1..Len(Sizes))
    BY <1>0
  <1>3. /\ Message(n) \o rest \in Seq(1..Len(Sizes))
        /\ Len(Message(n) \o rest) = m + Len(rest)
        /\ \A i \in 1..m : (Message(n) \o rest)[i] = Message(n)[i]
    BY <1>0, <1>1, <1>2
  <1>4. m <= m + Len(rest)
    BY <1>0, <1>2
  <1> QED BY Zenon, <1>3, <1>4 DEF Received, StartsWith

\* What the callback was given, as a whole.
LEMMA GotTypes ==
    ASSUME TypeOK
    PROVE  /\ Len(got) \in Nat
           /\ \A j \in 1..Len(got) : got[j].n \in 1..Len(Sizes)
           /\ stopAt \in Nat /\ faults[Sub] \in Nat /\ InHand \in {0, 1}
  <1>1. Len(got) \in Nat /\ \A j \in 1..Len(got) : got[j].n \in 1..Len(Sizes)
    <2> DEFINE Given == [n : 1..Len(Sizes), span : Seq(1..Len(Sizes))]
    <2>1. got \in Seq(Given)
      BY Zenon DEF TypeOK
    <2>2. \A g \in Given : g.n \in 1..Len(Sizes)
      BY Zenon
    <2> HIDE DEF Given
    <2>3. Len(got) \in Nat /\ \A j \in 1..Len(got) : got[j] \in Given
      BY <2>1
    <2> QED BY Zenon, <2>2, <2>3
  <1>2. stopAt \in Nat
    BY TopicAssumption DEF TypeOK
  <1>3. faults[Sub] \in Nat
    BY TopicAssumption, FaultAssumption DEF TypeOK, MappingTypeOK
  <1>4. InHand \in {0, 1}
    BY Zenon DEF InHand
  <1> QED BY Zenon, <1>1, <1>2, <1>3, <1>4

\* A step that neither pops nor hands over.
LEMMA DeliverySame ==
    ASSUME TypeOK, DeliveryInv, tail_publish' \in Nat, tail_publish <= tail_publish',
           head_publish' = head_publish, InHand' = InHand, UNCHANGED <<got, stopAt>>,
           InHand = 1 => UNCHANGED buf,
           faults'[Sub] \in Nat, faults[Sub] <= faults'[Sub],
           poller' = "done" \/ (owner' = "idle" /\ ~ running')
               => poller = "done" \/ (owner = "idle" /\ ~ running)
    PROVE  DeliveryInv'
  <1>1. stopAt' <= tail_publish'
    BY CursorTypes, GotTypes DEF DeliveryInv
  <1>2. poller' = "done" \/ (owner' = "idle" /\ ~ running') => stopAt' <= head_publish'
    BY Zenon DEF DeliveryInv
  <1>3. InHand' = 1 => head_publish' > 0 /\ StartsWith(buf', head_publish')
    BY Zenon DEF DeliveryInv
  <1>4. \A j \in 1..Len(got') : got'[j].n <= head_publish' - InHand'
    BY Zenon DEF DeliveryInv
  <1>5. head_publish' - Len(got') - InHand' \in 0..faults'[Sub]
    <2>1. head_publish - Len(got) - InHand \in 0..faults[Sub]
      BY Zenon DEF DeliveryInv, DeliveredInOrder
    <2> QED BY <2>1, CursorTypes, GotTypes
  <1>6. DeliveredInOrder'
    BY Zenon, <1>5 DEF DeliveryInv, DeliveredInOrder, StartsWith, Message
  <1>7. StartsWith(buf', head_publish') => StartsWith(buf, head_publish)'
    BY Zenon DEF StartsWith, Message
  <1> QED BY Zenon, <1>1, <1>2, <1>3, <1>4, <1>6, <1>7 DEF DeliveryInv

\* try_pop takes a message.
LEMMA DeliveryPop ==
    ASSUME TypeOK, DeliveryInv, ThreadInv, head_publish < tail_publish, InHand = 0,
           head_publish' = head_publish + 1, tail_publish' = tail_publish, InHand' = 1,
           buf' = Received(head_publish + 1), UNCHANGED <<got, stopAt, faults, owner, running>>,
           poller # "none", poller' # "done"
    PROVE  DeliveryInv'
  <1>0. head_publish + 1 \in 1..Len(Sizes)
    BY CursorTypes
  <1>1. StartsWith(buf', head_publish')
    <2>1. buf \in Seq(1..Len(Sizes)) /\ Sizes[head_publish + 1] \in Nat
      BY Zenon, <1>0, CursorTypes DEF TypeOK
    <2> QED BY Zenon, <1>0, <2>1, ReceivedStarts
  <1>2. StartsWith(buf', head_publish') => StartsWith(buf, head_publish)'
    BY Zenon DEF StartsWith, Message
  <1>3. stopAt' <= tail_publish'
    BY Zenon DEF DeliveryInv
  <1>4. ~ (owner' = "idle" /\ ~ running')
    BY Zenon DEF ThreadInv
  <1>5. \A j \in 1..Len(got') : got'[j].n <= head_publish' - InHand'
    BY CursorTypes, GotTypes DEF DeliveryInv
  <1>6. head_publish' - Len(got') - InHand' \in 0..faults'[Sub]
    <2>1. head_publish - Len(got) - InHand \in 0..faults[Sub]
      BY Zenon DEF DeliveryInv, DeliveredInOrder
    <2> QED BY <2>1, CursorTypes, GotTypes
  <1>7. DeliveredInOrder'
    BY Zenon, <1>6 DEF DeliveryInv, DeliveredInOrder, StartsWith, Message
  <1>8. head_publish' > 0
    BY CursorTypes
  <1> QED BY Zenon, <1>1, <1>2, <1>3, <1>4, <1>5, <1>7, <1>8 DEF DeliveryInv

\* The callback gets the message in hand, which is newer than all it got before.
LEMMA DeliveryCallback ==
    ASSUME TypeOK, DeliveryInv, ThreadInv, InHand = 1, InHand' = 0,
           UNCHANGED <<file, stopAt, faults, owner, running, buf>>,
           got' = Append(got, [n |-> head_publish, span |-> buf]),
           poller # "none", poller' # "done"
    PROVE  DeliveryInv'
  <1>0. /\ head_publish' = head_publish /\ tail_publish' = tail_publish
        /\ head_publish > 0 /\ StartsWith(buf, head_publish)
    BY Zenon DEF DeliveryInv, head_publish, tail_publish
  <1>1. /\ Len(got') = Len(got) + 1
        /\ \A j \in 1..Len(got) : got'[j] = got[j]
        /\ got'[Len(got) + 1] = [n |-> head_publish, span |-> buf]
    BY DEF TypeOK
  <1>2. \A j \in 1..Len(got') : j \in 1..Len(got) \/ j = Len(got) + 1
    BY <1>1, GotTypes
  <1>3. \A j \in 1..Len(got) : got[j].n <= head_publish - 1
    BY Zenon DEF DeliveryInv
  <1>4. \A j \in 1..Len(got') : got'[j].n <= head_publish' - InHand'
    BY <1>0, <1>1, <1>2, <1>3, CursorTypes, GotTypes
  <1>5. head_publish' - Len(got') - InHand' \in 0..faults'[Sub]
    <2>1. head_publish - Len(got) - InHand \in 0..faults[Sub]
      BY Zenon DEF DeliveryInv, DeliveredInOrder
    <2> QED BY <1>0, <1>1, <2>1, CursorTypes, GotTypes
  <1>6. \A j \in 1..Len(got') : StartsWith(got'[j].span, got'[j].n)
    BY <1>0, <1>1, <1>2 DEF DeliveryInv, DeliveredInOrder
  <1>7. \A i, j \in 1..Len(got') : i < j => got'[i].n < got'[j].n
    <2> SUFFICES ASSUME NEW i \in 1..Len(got'), NEW j \in 1..Len(got'), i < j
                 PROVE  got'[i].n < got'[j].n
      BY Zenon
    <2>1. i \in 1..Len(got)
      BY <1>1, GotTypes
    <2>2. CASE j \in 1..Len(got)
      BY Zenon, <1>1, <2>1, <2>2 DEF DeliveryInv, DeliveredInOrder
    <2>3. CASE j = Len(got) + 1
      BY <1>1, <1>3, <2>1, <2>3, CursorTypes, GotTypes
    <2> QED BY Zenon, <1>2, <2>2, <2>3
  <1>8. DeliveredInOrder'
    BY Zenon, <1>5, <1>6, <1>7 DEF DeliveredInOrder, StartsWith, Message
  <1>9. ~ (owner' = "idle" /\ ~ running') /\ stopAt' <= tail_publish'
    BY Zenon, <1>0 DEF ThreadInv, DeliveryInv
  <1> QED BY <1>4, <1>8, <1>9 DEF DeliveryInv

LEMMA DeliveryStep ==
    ASSUME TypeOK, MappingInv, CreationInv, ThreadInv, DeliveryInv, ~ HeaderReorders,
           [Next]_vars
    PROVE  DeliveryInv'
  <1>0. MappingTypeOK /\ Sub \in Processes /\ head_publish \in Nat /\ tail_publish \in Nat
    BY Zenon, TopicAssumption, CursorTypes DEF TypeOK
  <1>1. ASSUME file'.control = file.control
        PROVE  head_publish' = head_publish /\ tail_publish' = tail_publish
    BY Zenon, <1>1 DEF head_publish, tail_publish
  <1>2. ASSUME NEW p \in Publishers, Publisher(p)
        PROVE  DeliveryInv'
    <2>1. /\ faults'[Sub] = faults[Sub] /\ UNCHANGED <<pollVars, loopVars>>
          /\ InHand' = InHand
      BY Zenon, <1>0, <1>2, PublisherKeepsSub DEF Publisher, InHand, pollVars
    <2>2. head_publish' = head_publish /\ tail_publish' \in {tail_publish, tail_publish + 1}
      <3>1. CASE Publish(p)
        BY Zenon, <1>0, <3>1, CursorPlaces DEF Publish, MappingTypeOK, head_publish, tail_publish
      <3>2. CASE ~ Publish(p)
        BY Zenon, <1>0, <1>1, <1>2, <3>2, CursorsStand
      <3> QED BY Zenon, <3>1, <3>2
    <2>3. tail_publish' \in Nat /\ tail_publish <= tail_publish'
      BY <1>0, <2>2
    <2> QED BY <2>1, <2>2, <2>3, DeliverySame, GotTypes DEF pollVars, loopVars
  <1>3. CASE Construct \/ Destroy
    <2>1. /\ UNCHANGED <<file, pollVars, loopVars>> /\ InHand' = InHand
          /\ UNCHANGED faults \/ faults' = [faults EXCEPT ![Sub] = @ + 1]
      BY Zenon, <1>3 DEF Construct, Destroy, OpenCall, OpenExisting, OpenFile, OpenStat, OpenCheck,
                  OpenOffsets, CallFails, InHand, pollVars
    <2>2. faults'[Sub] \in Nat /\ faults[Sub] <= faults'[Sub]
      BY <1>0, <2>1, GotTypes DEF MappingTypeOK
    <2> QED BY <1>0, <1>1, <2>1, <2>2, DeliverySame DEF pollVars, loopVars
  <1>4. CASE SubscriberStart
    <2>1. InHand = 0 /\ InHand' = 0
      BY Zenon, <1>4 DEF SubscriberStart, Start, ThreadInv, InHand
    <2> QED BY <1>0, <1>1, <1>4, <2>1, DeliverySame, GotTypes
            DEF SubscriberStart, Start, mappingVars
  <1>5. CASE SubscriberStop
    <2>1. CASE StopCall /\ stopAt' = tail_publish /\ UNCHANGED <<mappingVars, buf, gotAny, got>>
      <3>1. /\ head_publish' = head_publish /\ tail_publish' = tail_publish
            /\ InHand' = InHand /\ faults' = faults
        BY Zenon, <1>1, <2>1 DEF StopCall, InHand, mappingVars
      <3>2. poller' # "done" /\ owner' # "idle"
        BY Zenon, <2>1 DEF StopCall, ThreadInv
      <3>3. DeliveredInOrder'
        BY Zenon, <2>1, <3>1 DEF DeliveryInv, DeliveredInOrder, StartsWith, Message
      <3>4. stopAt' <= tail_publish'
        BY <1>0, <2>1, <3>1
      <3> QED BY Zenon, <2>1, <3>1, <3>2, <3>3, <3>4 DEF DeliveryInv, StartsWith, Message
    <2>2. CASE Stop /\ UNCHANGED <<mappingVars, loopVars>>
      <3>1. /\ InHand' = InHand
            /\ poller' = "done" \/ (owner' = "idle" /\ ~ running')
                  => poller = "done" \/ (owner = "idle" /\ ~ running)
        BY Zenon, <2>2 DEF Stop, StopStore, StopNotify, StopJoin, InHand
      <3> QED BY <1>0, <1>1, <2>2, <3>1, DeliverySame, GotTypes DEF mappingVars, loopVars
    <2> QED BY Zenon, <1>5, <2>1, <2>2 DEF SubscriberStop
  <1>6. CASE SubscriberDies
    <2>1. /\ file' = file /\ faults'[Sub] = faults[Sub] + 1 /\ InHand' = 0
          /\ stopAt' = 0 /\ got' = got
      BY Zenon, <1>0, <1>6 DEF SubscriberDies, Gone, MappingTypeOK, InHand
    <2>2. head_publish' = head_publish /\ tail_publish' = tail_publish
      BY Zenon, <1>1, <2>1
    <2>3. head_publish' - Len(got') - InHand' \in 0..faults'[Sub]
      <3>1. head_publish - Len(got) - InHand \in 0..faults[Sub]
        BY Zenon DEF DeliveryInv, DeliveredInOrder
      <3> QED BY <1>0, <2>1, <2>2, <3>1, GotTypes
    <2>4. DeliveredInOrder'
      BY Zenon, <2>1, <2>3 DEF DeliveryInv, DeliveredInOrder, StartsWith, Message
    <2>5. \A j \in 1..Len(got') : got'[j].n <= head_publish' - InHand'
      BY <1>0, <2>1, <2>2, GotTypes DEF DeliveryInv
    <2> QED BY <1>0, <2>1, <2>2, <2>4, <2>5 DEF DeliveryInv
  <1>7. ASSUME NEW here, NEW call, NEW none, Pop(here, call, none),
               \/ here = "work" /\ call = "call" /\ none = "empty"
               \/ here = "drain" /\ call = "drain_call" /\ none = "done"
        PROVE  DeliveryInv'
    <2>1. InHand = 0 /\ poller # "none" /\ poller = here
      BY Zenon, <1>7 DEF Pop, InHand
    <2>2. CASE head_publish = tail_publish
      <3>1. /\ UNCHANGED <<file, at, cleared, seen, faults, running, owner, got, stopAt>>
            /\ poller' = none /\ InHand' = 0
        BY Zenon, <1>7, <2>2 DEF Pop, InHand
      <3>2. head_publish' = head_publish /\ tail_publish' = tail_publish
        BY Zenon, <1>1, <3>1
      <3>3. stopAt' <= tail_publish' /\ stopAt' <= head_publish'
        BY Zenon, <2>2, <3>1, <3>2 DEF DeliveryInv
      <3>4. DeliveredInOrder'
        BY Zenon, <2>1, <3>1, <3>2 DEF DeliveryInv, DeliveredInOrder, StartsWith, Message
      <3> QED BY <2>1, <3>1, <3>2, <3>3, <3>4 DEF DeliveryInv
    <2>3. CASE head_publish # tail_publish
      <3>1. /\ file' = [file EXCEPT !.control["head_publish"] = @ + 1]
            /\ buf' = Received(head_publish + 1) /\ poller' = call
            /\ UNCHANGED <<got, stopAt, faults, owner, running>>
        BY Zenon, <1>7, <2>3 DEF Pop
      <3>2. head_publish' = head_publish + 1 /\ tail_publish' = tail_publish
        BY Zenon, <1>0, <3>1, CursorPlaces DEF MappingTypeOK, head_publish, tail_publish
      <3>3. InHand' = 1 /\ poller' # "done"
        BY Zenon, <1>7, <3>1 DEF InHand
      <3>4. head_publish < tail_publish
        BY <2>3, CursorTypes
      <3> QED BY Zenon, <2>1, <3>1, <3>2, <3>3, <3>4, DeliveryPop
    <2> QED BY Zenon, <2>2, <2>3
  <1>8. CASE Callback("call", "work") \/ Callback("drain_call", "drain")
    BY Zenon, <1>8, DeliveryCallback DEF Callback, InHand, mappingVars
  <1>9. CASE \/ (PollHead("drain") \/ PollLock \/ PollBlock) /\ UNCHANGED <<mappingVars, loopVars>>
             \/ Drained \/ Timeout
    <2>1. /\ InHand = 0 /\ InHand' = 0 /\ poller' # "done"
          /\ UNCHANGED <<file, faults, got, stopAt, owner, running>>
      BY Zenon, <1>9 DEF PollHead, PollLock, PollBlock, Drained, Timeout, PollTimeout, InHand,
                  mappingVars, loopVars
    <2> QED BY <1>0, <1>1, <2>1, DeliverySame, GotTypes
  <1>10. CASE UNCHANGED vars
    <2>1. InHand' = InHand /\ UNCHANGED <<file, faults, got, stopAt, buf, owner, running, poller>>
      BY Zenon, <1>10 DEF vars, mappingVars, pollVars, loopVars, InHand
    <2> QED BY <1>0, <1>1, <2>1, DeliverySame, GotTypes
  <1> QED BY Zenon, <1>2, <1>3, <1>4, <1>5, <1>6, <1>7, <1>8, <1>9, <1>10
          DEF Next, Subscriber, PollLoop

-------------------------------------------------------------------------------
(* Types *)

LEMMA PollTypeStep ==
    ASSUME PollTypeOK, [Next]_vars
    PROVE  PollTypeOK'
  <1>1. CASE (\E p \in Publishers : Publisher(p)) \/ Construct \/ Destroy \/ UNCHANGED vars
    BY Zenon, <1>1 DEF Publisher, Construct, Destroy, vars, pollVars, PollTypeOK
  <1>2. CASE SubscriberStart \/ SubscriberStop \/ SubscriberDies
    <2>1. starts \in 0..MaxStarts /\ (starts < MaxStarts => starts + 1 \in 0..MaxStarts)
      BY StartsAssumption DEF PollTypeOK
    <2>2. CASE SubscriberStart
      BY Zenon, <2>1, <2>2 DEF SubscriberStart, Start, PollTypeOK
    <2>3. CASE SubscriberDies
      BY Zenon, <2>3 DEF SubscriberDies, PollTypeOK
    <2>4. CASE SubscriberStop
      BY Zenon, <2>4
         DEF SubscriberStop, StopCall, Stop, StopStore, StopNotify, StopJoin, PollTypeOK
    <2> QED BY Zenon, <1>2, <2>2, <2>3, <2>4
  <1>3. CASE PollLoop \/ Timeout
    BY Zenon, <1>3 DEF PollLoop, PollHead, PollLock, PollBlock, Pop, Callback, Drained, Timeout,
                PollTimeout, PollTypeOK
  <1> QED BY Zenon, <1>1, <1>2, <1>3 DEF Next, Subscriber

\* The cursors stay in their window, and histories and buffer hold messages.
LEMMA TypeStep ==
    ASSUME TypeOK, MappingInv, CreationInv, ThreadInv, DeliveryInv, ~ HeaderReorders,
           [Next]_vars, MappingTypeOK'
    PROVE  TypeOK'
  <1> DEFINE Given == [n : 1..Len(Sizes), span : Seq(1..Len(Sizes))]
             Window == tail_publish <= Len(Sizes) /\ tail_publish - head_publish \in 0..Slots
             Histories == /\ buf \in Seq(1..Len(Sizes)) /\ got \in Seq(Given)
                          /\ gotAny \in BOOLEAN /\ stopAt \in 0..Len(Sizes)
  <1>0. /\ MappingTypeOK /\ PollTypeOK' /\ Window /\ Histories
        /\ head_publish \in Nat /\ tail_publish \in Nat /\ Len(Sizes) \in Nat
    BY Zenon, PollTypeStep, CursorTypes DEF TypeOK
  <1>1. ASSUME file'.control = file.control PROVE Window'
    BY Zenon, <1>0, <1>1 DEF head_publish, tail_publish
  <1>2. ASSUME UNCHANGED loopVars PROVE Histories'
    BY Zenon, <1>0, <1>2 DEF loopVars
  <1>3. <<>> \in Seq(1..Len(Sizes)) /\ 0 \in 0..Len(Sizes)
    BY <1>0
  <1> SUFFICES Window' /\ Histories'
    BY Zenon, <1>0 DEF TypeOK
  <1> HIDE DEF Window, Histories
  <1>4. ASSUME NEW p \in Publishers, Publisher(p)
        PROVE  Window' /\ Histories'
    <2>1. CASE Publish(p)
      <3>1. /\ head_publish' = head_publish /\ tail_publish' = tail_publish + 1
            /\ tail_publish < Len(Sizes) /\ tail_publish - head_publish < Slots
        BY Zenon, <1>0, <2>1, CursorPlaces DEF Publish, MappingTypeOK, head_publish, tail_publish
      <3>2. Window'
        BY <1>0, <3>1, CursorTypes DEF Window
      <3> QED BY Zenon, <1>2, <1>4, <3>2 DEF Publisher
    <2>2. CASE ~ Publish(p)
      BY Zenon, <1>0, <1>1, <1>2, <1>4, <2>2, CursorsStand DEF Publisher
    <2> QED BY Zenon, <2>1, <2>2
  <1>5. CASE Construct \/ Destroy
    <2>1. UNCHANGED <<file, loopVars>>
      BY Zenon, <1>5 DEF Construct, Destroy, OpenCall, OpenExisting, OpenFile, OpenStat, OpenCheck,
                  OpenOffsets, CallFails
    <2> QED BY Zenon, <1>1, <1>2, <2>1
  <1>6. CASE SubscriberStart \/ SubscriberStop \/ SubscriberDies
    <2>1. UNCHANGED <<file, got>>
      BY Zenon, <1>6 DEF SubscriberStart, SubscriberStop, SubscriberDies, Gone, mappingVars, loopVars
    <2>2. /\ buf' \in {buf, <<>>} /\ gotAny' \in {gotAny, FALSE}
          /\ stopAt' \in {stopAt, tail_publish, 0}
      BY Zenon, <1>6 DEF SubscriberStart, SubscriberStop, SubscriberDies, loopVars
    <2>3. tail_publish \in 0..Len(Sizes)
      BY <1>0 DEF Window
    <2>4. Histories'
      BY Zenon, <1>0, <1>3, <2>1, <2>2, <2>3 DEF Histories
    <2> QED BY Zenon, <1>1, <2>1, <2>4
  <1>7. ASSUME NEW here, NEW call, NEW none, Pop(here, call, none)
        PROVE  Window' /\ Histories'
    <2>1. CASE head_publish = tail_publish
      BY Zenon, <1>1, <1>2, <1>7, <2>1 DEF Pop, loopVars
    <2>2. CASE head_publish # tail_publish
      <3>1. /\ head_publish' = head_publish + 1 /\ tail_publish' = tail_publish
            /\ buf' = Received(head_publish + 1) /\ UNCHANGED <<gotAny, got, stopAt>>
        BY <1>0, <1>7, <2>2, CursorPlaces
           DEF Pop, MappingTypeOK, head_publish, tail_publish
      <3>2. head_publish + 1 \in 1..Len(Sizes)
        BY <2>2, CursorTypes
      <3>3. buf' \in Seq(1..Len(Sizes))
        BY Zenon, <1>0, <3>1, <3>2, CursorTypes, ReceivedStarts DEF Histories
      <3>4. Window'
        BY <1>0, <2>2, <3>1, CursorTypes DEF Window
      <3>5. Histories'
        BY Zenon, <1>0, <3>1, <3>3 DEF Histories
      <3> QED BY Zenon, <3>4, <3>5
    <2> QED BY Zenon, <2>1, <2>2
  <1>8. CASE Callback("call", "work") \/ Callback("drain_call", "drain")
    <2>1. /\ got' = Append(got, [n |-> head_publish, span |-> buf]) /\ gotAny' = TRUE
          /\ UNCHANGED <<file, buf, stopAt>> /\ head_publish > 0
      BY Zenon, <1>8 DEF Callback, mappingVars, DeliveryInv, InHand
    <2>2. [n |-> head_publish, span |-> buf] \in Given
      BY <1>0, <2>1, CursorTypes DEF Histories
    <2>3. got' \in Seq(Given)
      <3> HIDE DEF Given
      <3> QED BY <1>0, <2>1, <2>2 DEF Histories
    <2>4. Histories'
      BY Zenon, <1>0, <2>1, <2>3 DEF Histories
    <2> QED BY Zenon, <1>1, <2>1, <2>4
  <1>9. CASE \/ (PollHead("drain") \/ PollLock \/ PollBlock) /\ UNCHANGED <<mappingVars, loopVars>>
             \/ Drained \/ Timeout
    <2>1. UNCHANGED <<file, buf, got, stopAt>> /\ gotAny' \in {gotAny, FALSE}
      BY Zenon, <1>9 DEF Drained, Timeout, mappingVars, loopVars
    <2>2. Histories'
      BY Zenon, <1>0, <2>1 DEF Histories
    <2> QED BY Zenon, <1>1, <2>1, <2>2
  <1>10. CASE UNCHANGED vars
    BY Zenon, <1>1, <1>2, <1>10 DEF vars, mappingVars
  <1> QED BY Zenon, <1>4, <1>5, <1>6, <1>7, <1>8, <1>9, <1>10 DEF Next, Subscriber, PollLoop

-------------------------------------------------------------------------------
(* The theorems *)

LEMMA TopicStarts == Init => TopicInv
  <1> SUFFICES ASSUME Init PROVE TopicInv
    BY Zenon
  <1>1. MappingTypeOK /\ MappingInv
    BY Zenon, MappingStarts DEF Init
  <1>2. PollTypeOK /\ ThreadInv
    <2>1. 0 \in 0..MaxStarts
      BY StartsAssumption
    <2> QED BY Zenon, <2>1 DEF Init, PollInit, PollTypeOK, ThreadInv
  <1>3. file.control = ZeroControl /\ \A p \in Processes : at[p] = "down"
    BY Zenon DEF Init, MappingInit
  <1>4. CreationInv
    BY Zenon, <1>3, TopicAssumption DEF CreationInv, Making
  <1>5. head_publish = 0 /\ tail_publish = 0
    BY Zenon, <1>3, CursorPlaces DEF head_publish, tail_publish, ZeroControl
  <1>6. InHand = 0 /\ Len(got) = 0 /\ stopAt = 0 /\ faults[Sub] = 0
    BY Zenon, TopicAssumption DEF Init, PollInit, MappingInit, InHand
  <1>7. DeliveryInv
    BY <1>5, <1>6 DEF DeliveryInv, DeliveredInOrder
  <1>8. /\ <<>> \in Seq(1..Len(Sizes)) /\ 0 \in 0..Len(Sizes) /\ 0 <= Len(Sizes)
        /\ <<>> \in Seq([n : 1..Len(Sizes), span : Seq(1..Len(Sizes))]) /\ 0 - 0 \in 0..Slots
    BY TopicAssumption
  <1>9. TypeOK
    BY Zenon, <1>1, <1>2, <1>5, <1>8 DEF TypeOK, Init
  <1> QED BY Zenon, <1>1, <1>2, <1>4, <1>7, <1>9 DEF TopicInv

LEMMA TopicStep ==
    ASSUME TopicInv, ~ HeaderReorders, Supervised, [Next]_vars
    PROVE  TopicInv'
  <1>1. MappingTypeOK' /\ MappingInv'
    BY Zenon, MappingStep DEF TopicInv, TypeOK
  <1> QED BY Zenon, <1>1, CreationStep, ThreadStep, DeliveryStep, TypeStep DEF TopicInv

\* TopicInv for every number of publishers that are started one at a time, of deaths
\* and failed calls, of messages and of calls of start and stop.
THEOREM TopicInvHolds == ~ HeaderReorders /\ Supervised => (Spec => []TopicInv)
  <1> SUFFICES ASSUME ~ HeaderReorders, Supervised PROVE Spec => []TopicInv
    BY Zenon
  <1>1. Init => TopicInv
    BY Zenon, TopicStarts
  <1>2. TopicInv /\ [Next]_vars => TopicInv'
    BY Zenon, TopicStep
  <1> QED BY <1>1, <1>2, PTL DEF Spec

\* StoppedIsJoined: stop of ipc_adapter.hpp leaves no thread behind, without a lock
\* around the whole of it.
THEOREM StopJoins == ~ HeaderReorders /\ Supervised => (Spec => []StoppedIsJoined)
  <1> SUFFICES ASSUME ~ HeaderReorders, Supervised PROVE Spec => []StoppedIsJoined
    BY Zenon
  <1>1. TopicInv => StoppedIsJoined
    BY Zenon DEF TopicInv, ThreadInv, StoppedIsJoined
  <1> QED BY <1>1, TopicInvHolds, PTL

\* StopDelivers: the final drain of poll_loop hands over whatever was published before
\* stop was called.
THEOREM StopDrains == ~ HeaderReorders /\ Supervised => (Spec => []StopDelivers)
  <1> SUFFICES ASSUME ~ HeaderReorders, Supervised PROVE Spec => []StopDelivers
    OBVIOUS
  <1>1. ASSUME TopicInv PROVE StopDelivers
    <2>1. SUFFICES ASSUME owner = "idle", ~ running PROVE stopAt <= head_publish /\ InHand = 0
      BY Zenon, <1>1, CursorTypes, GotTypes DEF StopDelivers, TopicInv
    <2> QED BY Zenon, <1>1, <2>1 DEF TopicInv, ThreadInv, DeliveryInv, InHand
  <1> QED BY <1>1, TopicInvHolds, PTL

\* DeliveredInOrder: poll_loop hands over every message once and in order, except for
\* those a dying subscriber had in hand.
THEOREM DeliveryInOrder == ~ HeaderReorders /\ Supervised => (Spec => []DeliveredInOrder)
  <1> SUFFICES ASSUME ~ HeaderReorders, Supervised PROVE Spec => []DeliveredInOrder
    OBVIOUS
  <1>1. TopicInv => DeliveredInOrder
    BY Zenon DEF TopicInv, DeliveryInv
  <1> QED BY <1>1, TopicInvHolds, PTL

\* CursorsOnlyGrow: neither create_mapping's memset and stores of 0 nor a claim that
\* finds the file takes back what was published or consumed.
THEOREM CursorsGrow == ~ HeaderReorders /\ Supervised => (Spec => CursorsOnlyGrow)
  <1> SUFFICES ASSUME ~ HeaderReorders, Supervised PROVE Spec => CursorsOnlyGrow
    BY Zenon
  <1> DEFINE Grow == \A c \in DOMAIN file.control : file.control[c] <= file'.control[c]
  <1>1. ASSUME TopicInv, [Next]_vars PROVE Grow
    <2>0. /\ file.control \in [Elements(Cursors) -> Nat] /\ MappingTypeOK
          /\ TypeOK /\ MappingInv /\ CreationInv /\ ThreadInv
      BY Zenon, <1>1 DEF TopicInv, TypeOK, MappingTypeOK
    <2>1. CASE file'.control = file.control
      BY <2>0, <2>1
    <2>2. CASE \E c \in Elements(Cursors) : file' = [file EXCEPT !.control[c] = @ + 1]
      <3>1. PICK c \in Elements(Cursors) : file' = [file EXCEPT !.control[c] = @ + 1]
        BY Zenon, <2>2
      <3>2. file'.control = [file.control EXCEPT ![c] = @ + 1]
        BY Zenon, <2>0, <3>1 DEF MappingTypeOK
      <3> QED BY <2>0, <3>2
    <2>3. CASE \E p \in Publishers : Publisher(p)
      BY Zenon, <2>0, <2>1, <2>2, <2>3, CursorsStand, CursorPlaces DEF Publish
    <2>4. CASE Subscriber
      BY Zenon, <2>1, <2>4
         DEF Subscriber, Construct, OpenCall, OpenExisting, OpenFile, OpenStat, OpenCheck,
             OpenOffsets, CallFails, SubscriberStart, SubscriberStop, SubscriberDies, Gone,
             Destroy, mappingVars
    <2>5. CASE PollLoop \/ Timeout
      BY Zenon, <2>1, <2>2, <2>5, CursorPlaces DEF PollLoop, Pop, Callback, Drained, Timeout, mappingVars
    <2>6. CASE UNCHANGED vars
      BY Zenon, <2>1, <2>6 DEF vars, mappingVars
    <2> QED BY Zenon, <1>1, <2>3, <2>4, <2>5, <2>6 DEF Next
  <1>2. TopicInv /\ [Next]_vars => [Grow]_vars
    BY Zenon, <1>1
  <1> QED BY <1>2, TopicInvHolds, PTL DEF Spec, CursorsOnlyGrow
===============================================================================
