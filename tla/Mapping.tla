------------------------------- MODULE Mapping -------------------------------
(***************************************************************************)
(* The shared-memory file (shared_memory_mapping.cpp): create_mapping and  *)
(* open_mapping of several processes, store by store, as far as they see   *)
(* each other's work.  Any call may throw or its process die, after which  *)
(* the process may try again.                                              *)
(*                                                                         *)
(* What open_mapping loads before it looks at flags cannot change any more *)
(* once it passes its test, so the three tests are one step.               *)
(***************************************************************************)
EXTENDS RingLayout, Sequences

CONSTANTS
    Processes,
    CapacityBytes,   \* capacity_bytes
    Exact,           \* the class compares the capacity (SPSCQueue) or not (the rings)
    HeaderReorders,  \* the build may store the header's fields in any order
    MaxFault         \* bound: deaths and failed system calls, per process

ASSUME CapacityBytesAssumption == CapacityBytes \in Nat \ {0}
ASSUME BuildAssumption == Exact \in BOOLEAN /\ HeaderReorders \in BOOLEAN
ASSUME FaultAssumption == MaxFault \in Nat

VARIABLES
    file,      \* exists, size, the fields of Header and of ControlBlock
    at,        \* per process: next statement of create_mapping or open_mapping
    cleared,   \* per process: cursors it stored as 0
    seen,      \* per process: capacity and offsets it works with
    faults     \* history, per process: deaths and failed system calls

mappingVars == <<file, at, cleared, seen, faults>>

kCacheLineSize == 64
HeaderRegionSize == AlignUp(48, kCacheLineSize)                   \* sizeof(Header)
ControlRegionSize == AlignUp(5 * kCacheLineSize, kCacheLineSize)  \* ControlBlock
RequiredMappingSize(bytes) ==
    HeaderRegionSize + ControlRegionSize + AlignUp(bytes, kAlignment)

Cursors == <<"head_reserve", "head_publish", "tail_reserve", "tail_publish",
             "sequence">>

\* Mutant of Fields: flags is not stored last.
Fields_FlagsEarly ==
    <<"magic", "version", "flags", "header_size", "capacity_bytes",
      "control_offset", "ring_offset", "alignment">>

\* The fields of Header in the order in which create_mapping stores them.
Fields ==
    <<"magic", "version", "header_size", "capacity_bytes", "control_offset",
      "ring_offset", "alignment", "flags">>

\* What it stores; magic, version and flags are 1 for the value that is expected.
FieldValue(f) ==
    CASE f \in {"magic", "version", "flags"} -> 1
      [] f = "header_size" -> 48
      [] f = "capacity_bytes" -> AlignUp(CapacityBytes, kAlignment)
      [] f = "control_offset" -> HeaderRegionSize
      [] f = "ring_offset" -> HeaderRegionSize + ControlRegionSize
      [] f = "alignment" -> kAlignment

Elements(s) == {s[i] : i \in 1..Len(s)}
ZeroHeader == [f \in Elements(Fields) |-> 0]
ZeroControl == [c \in Elements(Cursors) |-> 0]
NothingSeen == [capacity |-> 0, control |-> 0, ring |-> 0]

MappingInit ==
    /\ file = [exists |-> FALSE, size |-> 0, header |-> ZeroHeader,
               control |-> ZeroControl]
    /\ at = [p \in Processes |-> "down"]
    /\ cleared = [p \in Processes |-> 0]
    /\ seen = [p \in Processes |-> NothingSeen]
    /\ faults = [p \in Processes |-> 0]

Goto(p, pc) == at' = [at EXCEPT ![p] = pc]

\* An exception; every way out closes what was opened.
Throw(p) == Goto(p, "down")

-------------------------------------------------------------------------------
(* create_mapping *)

\* O_CREAT | O_EXCL: of several processes one gets past this.
CreateFile(p) ==
    /\ at[p] = "create"
    /\ IF file.exists
       THEN Throw(p) /\ UNCHANGED file
       ELSE /\ file' = [file EXCEPT !.exists = TRUE]
            /\ Goto(p, "truncate")
    /\ UNCHANGED <<cleared, seen, faults>>

Truncate(p) ==
    /\ at[p] = "truncate"
    /\ file' = [file EXCEPT !.size = RequiredMappingSize(CapacityBytes)]
    /\ Goto(p, "map")
    /\ UNCHANGED <<cleared, seen, faults>>

\* mmap and memset.
MapAndClear(p) ==
    /\ at[p] = "map"
    /\ file' = [file EXCEPT !.header = ZeroHeader, !.control = ZeroControl]
    /\ cleared' = [cleared EXCEPT ![p] = 0]
    /\ Goto(p, "header")
    /\ UNCHANGED <<seen, faults>>

\* The fields still to be stored; no field is stored as 0.
Missing == {i \in 1..Len(Fields) : file.header[Fields[i]] = 0}

\* Plain stores: the compiler may reorder them.
StoreHeader(p) ==
    /\ at[p] = "header"
    /\ \E i \in Missing :
        /\ HeaderReorders \/ \A j \in Missing : i <= j
        /\ file' = [file EXCEPT !.header[Fields[i]] = FieldValue(Fields[i])]
        /\ Goto(p, IF Missing = {i} THEN "control" ELSE "header")
    /\ UNCHANGED <<cleared, seen, faults>>

WholeHeader == [capacity |-> FieldValue("capacity_bytes"),
                control |-> FieldValue("control_offset"),
                ring |-> FieldValue("ring_offset")]

\* The cursors are stored as 0 once more, when open_mapping already succeeds.
StoreControl(p) ==
    /\ at[p] = "control"
    /\ file' = [file EXCEPT !.control[Cursors[cleared[p] + 1]] = 0]
    /\ cleared' = [cleared EXCEPT ![p] = @ + 1]
    /\ IF cleared[p] + 1 < Len(Cursors)
       THEN UNCHANGED <<at, seen>>
       ELSE seen' = [seen EXCEPT ![p] = WholeHeader] /\ Goto(p, "ready")
    /\ UNCHANGED faults

Create(p) ==
    CreateFile(p) \/ Truncate(p) \/ MapAndClear(p) \/ StoreHeader(p) \/ StoreControl(p)

-------------------------------------------------------------------------------
(* open_mapping *)

OpenFile(p) ==
    /\ at[p] = "open"
    /\ IF file.exists THEN Goto(p, "stat") ELSE Throw(p)
    /\ UNCHANGED <<file, cleared, seen, faults>>

\* fstat, and mmap when there is room for a Header.
OpenStat(p) ==
    /\ at[p] = "stat"
    /\ IF file.size < 48 THEN Throw(p) ELSE Goto(p, "check")
    /\ UNCHANGED <<file, cleared, seen, faults>>

\* magic, version and flags.
OpenCheck(p) ==
    /\ at[p] = "check"
    /\ IF \A f \in {"magic", "version", "flags"} : file.header[f] = FieldValue(f)
       THEN Goto(p, "offsets")
       ELSE Throw(p)
    /\ UNCHANGED <<file, cleared, seen, faults>>

LoadedHeader == [capacity |-> file.header["capacity_bytes"],
                 control |-> file.header["control_offset"],
                 ring |-> file.header["ring_offset"]]

\* Mutant of FitsFile: a ring that ends with the file does not fit.
FitsFile_Strict ==
    /\ LoadedHeader.ring + LoadedHeader.capacity < file.size
    /\ LoadedHeader.control + ControlRegionSize <= file.size

\* The size is set once, so it is still what fstat returned.
FitsFile ==
    /\ LoadedHeader.ring + LoadedHeader.capacity <= file.size
    /\ LoadedHeader.control + ControlRegionSize <= file.size

\* Mutant of OpenOffsets: a call that finds the file clears its cursors.
OpenOffsets_Clears(p) ==
    /\ at[p] = "offsets"
    /\ seen' = [seen EXCEPT ![p] = LoadedHeader]
    /\ Goto(p, "ready")
    /\ file' = [file EXCEPT !.control = ZeroControl]
    /\ UNCHANGED <<cleared, faults>>

\* Capacity and offsets, which have to lie inside the file; the queue of fixed
\* slots then compares the capacity, which create_mapping rounded up, with its own.
OpenOffsets(p) ==
    /\ at[p] = "offsets"
    /\ IF FitsFile /\ (Exact => LoadedHeader.capacity = CapacityBytes)
       THEN seen' = [seen EXCEPT ![p] = LoadedHeader] /\ Goto(p, "ready")
       ELSE Throw(p) /\ UNCHANGED seen
    /\ UNCHANGED <<file, cleared, faults>>

OpenExisting(p) == OpenFile(p) \/ OpenStat(p) \/ OpenCheck(p) \/ OpenOffsets(p)

-------------------------------------------------------------------------------
\* ftruncate, fstat or mmap fails: the descriptor is closed, a file that
\* create_mapping made stays.
CallFails(p) ==
    /\ at[p] \in {"truncate", "map", "stat"}
    /\ faults[p] < MaxFault
    /\ faults' = [faults EXCEPT ![p] = @ + 1]
    /\ Throw(p)
    /\ UNCHANGED <<file, cleared, seen>>

\* The process dies.
Gone(p) ==
    /\ at[p] # "down"
    /\ faults[p] < MaxFault
    /\ faults' = [faults EXCEPT ![p] = @ + 1]
    /\ Throw(p)
    /\ UNCHANGED <<file, cleared, seen>>

-------------------------------------------------------------------------------
MappingTypeOK ==
    /\ file \in [exists : BOOLEAN, size : Nat, header : [Elements(Fields) -> Nat],
                 control : [Elements(Cursors) -> Nat]]
    /\ at \in [Processes -> {"down", "create", "truncate", "map", "header", "control",
                             "open", "stat", "check", "offsets", "ready"}]
    /\ cleared \in [Processes -> 0..Len(Cursors)]
    /\ seen \in [Processes -> [capacity : Nat, control : Nat, ring : Nat]]
    /\ faults \in [Processes -> 0..MaxFault]

\* Every process that has the file open works with the capacity and the offsets
\* of a finished header, although open_mapping takes no lock and its size tests
\* accept a header of zeros: flags, which it insists on, is stored last.
HeaderIsWhole == \A p \in Processes : at[p] = "ready" => seen[p] = WholeHeader

Making == {"truncate", "map", "header"}

\* What holds of the file and of those who create and open it, one step at a time,
\* when the header's fields are stored in order: one process at most is creating,
\* the stored fields are a prefix of Fields, and whoever is past the look at flags
\* finds all of them.
MappingInv ==
    /\ \A p \in Processes : at[p] \in Making => file.exists
    /\ \A p, q \in Processes : at[p] \in Making /\ at[q] \in Making => p = q
    /\ ~ file.exists => file.header = ZeroHeader
    /\ \A p \in Processes :
        /\ at[p] \in {"truncate", "map"} => file.header = ZeroHeader
        /\ at[p] = "header" => Missing # {}
        /\ at[p] \in {"control", "offsets", "ready"} => Missing = {}
        /\ at[p] \in {"header", "control"} => cleared[p] < Len(Cursors)
    /\ \A i \in 1..Len(Fields) : file.header[Fields[i]] \in {0, FieldValue(Fields[i])}
    /\ \A i \in Missing : \A j \in 1..Len(Fields) : i <= j => j \in Missing
    /\ HeaderIsWhole

\* "creating the file or resuming from an existing one" (spsc_queue.hpp:65): a call
\* that finds a finished file opens it, unless a fault ends the call.
FinishedFileOpens ==
    \A p \in Processes : \A n \in 0..MaxFault :
        (at[p] = "open" /\ Missing = {} /\ faults[p] = n)
            ~> (at[p] = "ready" \/ faults[p] > n)

\* The same for every file, finished or not.
EveryFileOpens ==
    \A p \in Processes : \A n \in 0..MaxFault :
        (at[p] = "open" /\ faults[p] = n) ~> (at[p] = "ready" \/ faults[p] > n)
===============================================================================
