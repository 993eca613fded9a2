------------------------------ MODULE QnnRuntime ------------------------------
(***************************************************************************)
(* The life of one QnnRuntime (src/src/qnn_runtime.cpp): libraries, device *)
(* and context are acquired in open and loadContextBinary, each tensor of  *)
(* a session gets a buffer, in shared memory if every step of that works   *)
(* and in plain memory otherwise, graphs are executed, and the destructor  *)
(* releases what the members hold.  Any call of the driver may fail; a     *)
(* failure of open or load returns false and a missing file or graph       *)
(* throws, so the destructor runs from wherever that was.                  *)
(*                                                                         *)
(* held is what the driver and the system really hold for the runtime,     *)
(* known is what the members of the object know of it.                     *)
(***************************************************************************)
EXTENDS Integers, Sequences

CONSTANT Tensors           \* tensors of the sessions' graphs

ASSUME TensorsAssumption == Tensors \in Nat \ {0}

Ids == 1 .. Tensors

Resource(name) == <<name, 0>>
Memory(b)      == <<"memory", b>>      \* rpcmem_alloc
Handle(b)      == <<"handle", b>>      \* memRegister

OpenOrder == <<"qnnLib", "systemLib", "log", "backend", "device">>

Names == {"qnnLib", "systemLib", "log", "backend", "device", "power", "systemContext",
          "context", "rpcLib"}

Resources == {Resource(n) : n \in Names} \cup {Memory(b) : b \in Ids} \cup {Handle(b) : b \in Ids}

Optional == {"log", "device", "memRegister"}

VARIABLES
    offers,        \* entries of the driver's interface that are not null
    explicit,      \* DFLASH_QNN_EXPLICIT_RELEASE is 1
    supported,     \* the file's metadata is there, in a version the runtime reads
    held,
    known,
    shared,        \* shared_buffers_enabled_
    buffers,       \* the TensorBuffers of the sessions
    at,            \* the tensor whose buffer is being made
    step,          \* place in OpenOrder or in ReleaseOrder
    pc

vars == <<offers, explicit, supported, held, known, shared, buffers, at, step, pc>>
env  == <<offers, explicit, supported>>

\* host: where the data is; tensor: what the descriptor given to the driver
\* refers to; named: its name and dimensions point into this very buffer.
NoBuffer == [host |-> "none", tensor |-> "none", named |-> FALSE]

Init ==
    /\ offers \in SUBSET Optional /\ explicit \in BOOLEAN /\ supported \in BOOLEAN
    /\ held = {} /\ known = {}
    /\ shared = TRUE
    /\ buffers = [b \in Ids |-> NoBuffer]
    /\ at = 1 /\ step = 1
    /\ pc = "open"

Take(names) ==
    /\ held' = held \cup {Resource(n) : n \in names}
    /\ known' = known \cup {Resource(n) : n \in names}

Goto(label) == pc' = label /\ UNCHANGED <<env, shared, buffers, at>>

\* The object is destroyed, at once or while an exception unwinds.
Destroy == pc' = "destroy" /\ step' = 1 /\ UNCHANGED <<env, held, known, shared, buffers, at>>
-----------------------------------------------------------------------------
(***************************************************************************)
(* open: loadSymbols and createBackendAndDevice.                           *)
(***************************************************************************)
Skipped(name) == name \in Optional /\ name \notin offers

Open ==
    /\ pc = "open" /\ step <= Len(OpenOrder)
    /\ Take(IF Skipped(OpenOrder[step]) THEN {} ELSE {OpenOrder[step]})
    /\ step' = step + 1
    /\ Goto("open")

OpenFails ==
    /\ pc = "open" /\ step <= Len(OpenOrder)
    /\ ~Skipped(OpenOrder[step])
    /\ Destroy

Opened ==
    /\ pc = "open" /\ step > Len(OpenOrder)
    /\ UNCHANGED <<held, known, step>>
    /\ \E label \in {"power", "system"} : Goto(label)   \* DFLASH_QNN_PERF

\* Mutant: perf_configured_ is set only when all the settings have worked.
PowerKnownLate == {}

PowerKnown == {Resource("power")}

\* configureHtpPerformance: a failure is a warning, before or after the id exists.
PowerCreated ==
    /\ pc = "power"
    /\ held' = held \cup {Resource("power")}
    /\ known' = known \cup PowerKnown
    /\ Goto("system")
    /\ UNCHANGED step

PowerUnavailable ==
    /\ pc = "power"
    /\ Goto("system")
    /\ UNCHANGED <<held, known, step>>

\* The system interface is chosen: open returns.
SystemFound ==
    /\ pc = "system"
    /\ Goto("load")
    /\ UNCHANGED <<held, known, step>>

SystemMissing == pc = "system" /\ Destroy
-----------------------------------------------------------------------------
(***************************************************************************)
(* loadContextBinary.                                                      *)
(***************************************************************************)
ReadFails == pc = "load" /\ Destroy

MetadataOpened ==
    /\ pc = "load"
    /\ held' = held \cup {Resource("systemContext")}     \* a local handle
    /\ Goto("metadata")
    /\ UNCHANGED <<known, step>>

\* systemContextFree, whether the binary could be read or not.
MetadataRead ==
    /\ pc = "metadata"
    /\ held' = held \ {Resource("systemContext")}
    /\ \/ supported /\ Goto("context")
       \/ Goto("unreadable")
    /\ UNCHANGED <<known, step>>

\* copyGraphsFromBinaryInfo throws past the call of systemContextFree.
MetadataThrows == pc = "metadata" /\ ~supported /\ Destroy

ContextCreated ==
    /\ pc = "context"
    /\ Take({"context"})
    /\ Goto("graphs")
    /\ UNCHANGED step

LoadFails == pc \in {"unreadable", "context", "graphs"} /\ Destroy

\* Shared buffers stay enabled if the library and all its symbols are found.
SharedDecided ==
    /\ pc = "graphs"
    /\ \E found \in BOOLEAN, complete \in BOOLEAN :
          /\ Take(IF found THEN {"rpcLib"} ELSE {})
          /\ shared' = (found /\ complete)
    /\ pc' = "buffer"
    /\ UNCHANGED <<env, buffers, at, step>>
-----------------------------------------------------------------------------
(***************************************************************************)
(* makeInputBuffers and makeOutputBuffers, one tensor after the other.     *)
(***************************************************************************)
GraphMissing == pc = "buffer" /\ at <= Tensors /\ Destroy

\* registerSharedBuffer goes as far as the driver lets it.
CanShare == shared /\ "memRegister" \in offers /\ Resource("context") \in known

\* Mutant: shared_allocations_ lists the memory as soon as it exists.
ListedAtOnce(b) == {Memory(b)}

\* What shared_allocations_ lists of a memory that is not registered yet.
Listed(b) == {}

Allocated ==
    /\ pc = "buffer" /\ at <= Tensors
    /\ CanShare
    /\ held' = held \cup {Memory(at)}
    /\ known' = known \cup Listed(at)
    /\ pc' = "mapping"
    /\ UNCHANGED <<env, shared, buffers, at, step>>

\* The memory has no descriptor: it is freed and a plain buffer used.
MappingFails ==
    /\ pc = "mapping"
    /\ held' = held \ {Memory(at)}
    /\ pc' = "plain"
    /\ UNCHANGED <<env, known, shared, buffers, at, step>>

Mapped ==
    /\ pc = "mapping"
    /\ buffers' = [buffers EXCEPT ![at] = [host |-> "shared", tensor |-> "raw", named |-> TRUE]]
    /\ pc' = "register"
    /\ UNCHANGED <<env, held, known, shared, at, step>>

Registered ==
    /\ pc = "register"
    /\ held' = held \cup {Handle(at)}
    /\ known' = known \cup {Memory(at), Handle(at)}        \* shared_allocations_
    /\ buffers' = [buffers EXCEPT ![at] = [host |-> "shared", tensor |-> "handle", named |-> TRUE]]
    /\ pc' = "append"
    /\ UNCHANGED <<env, shared, at, step>>

\* Mutant: the buffer keeps the pointer to the memory just freed.
HostKept == "shared"

HostAfterFailure == "none"

RegisterFails ==
    /\ pc = "register"
    /\ held' = held \ {Memory(at)}
    /\ buffers' = [buffers EXCEPT ![at].host = HostAfterFailure]
    /\ pc' = "plain"
    /\ UNCHANGED <<env, known, shared, at, step>>

NotShared ==
    /\ pc = "buffer" /\ at <= Tensors
    /\ pc' = "plain"
    /\ UNCHANGED <<env, held, known, shared, buffers, at, step>>

\* resizeForDesc fills external memory if there is any, and bindClientBuffer.
Plain ==
    /\ pc = "plain"
    /\ buffers' = [buffers EXCEPT ![at] =
          [host |-> IF @.host = "shared" THEN "shared" ELSE "owned", tensor |-> "raw", named |-> TRUE]]
    /\ pc' = "append"
    /\ UNCHANGED <<env, held, known, shared, at, step>>

\* The buffer is moved into the vector: its descriptor still names the local.
PushBack ==
    /\ pc = "append"
    /\ buffers' = [buffers EXCEPT ![at].named = FALSE]
    /\ at' = at + 1
    /\ pc' = "buffer"
    /\ UNCHANGED <<env, held, known, shared, step>>
-----------------------------------------------------------------------------
Bound(b) == [b EXCEPT !.named = TRUE]

\* execute binds every descriptor to the place where its buffer is now.
Execute ==
    /\ pc = "buffer" /\ at > Tensors
    /\ buffers' = [b \in Ids |-> Bound(buffers[b])]
    /\ pc' = "running"
    /\ UNCHANGED <<env, held, known, shared, at, step>>

ExecuteReturns ==
    /\ pc = "running"
    /\ pc' = "buffer"
    /\ UNCHANGED <<env, held, known, shared, buffers, at, step>>

\* The decode is over or has failed: sessions, then runtimes are destroyed.
SessionEnds == pc \in {"buffer", "running"} /\ at > Tensors /\ Destroy
-----------------------------------------------------------------------------
Memories == {Memory(b) : b \in Ids}
Handles  == {Handle(b) : b \in Ids}

\* Mutant: the memory is freed while it is still registered.
MemoryFirst == <<Memories, Handles, {Resource("context")}, {Resource("power")},
                 {Resource("device")}, {Resource("backend")}, {Resource("log")},
                 {Resource("rpcLib")}, {Resource("systemLib")}, {Resource("qnnLib")}>>

\* The order in which ~QnnRuntime releases what the members hold.
ReleaseOrder == <<Handles, Memories, {Resource("context")}, {Resource("power")},
                  {Resource("device")}, {Resource("backend")}, {Resource("log")},
                  {Resource("rpcLib")}, {Resource("systemLib")}, {Resource("qnnLib")}>>

Release ==
    /\ pc = "destroy" /\ explicit /\ step <= Len(ReleaseOrder)
    /\ held' = held \ (known \cap ReleaseOrder[step])
    /\ known' = known \ ReleaseOrder[step]
    /\ step' = step + 1
    /\ UNCHANGED <<env, shared, buffers, at, pc>>

\* Without the request everything is left to the end of the process.
Gone ==
    /\ pc = "destroy" /\ (explicit => step > Len(ReleaseOrder))
    /\ pc' = "gone"
    /\ UNCHANGED <<env, held, known, shared, buffers, at, step>>

Terminating == pc = "gone" /\ UNCHANGED vars

Next ==
    \/ Open \/ OpenFails \/ Opened \/ PowerCreated \/ PowerUnavailable
    \/ SystemFound \/ SystemMissing
    \/ ReadFails \/ MetadataOpened \/ MetadataRead \/ MetadataThrows
    \/ ContextCreated \/ LoadFails
    \/ SharedDecided
    \/ GraphMissing \/ Allocated \/ MappingFails \/ Mapped \/ Registered \/ RegisterFails
    \/ NotShared \/ Plain \/ PushBack
    \/ Execute \/ ExecuteReturns \/ SessionEnds
    \/ Release \/ Gone \/ Terminating

Spec == Init /\ [][Next]_vars
-----------------------------------------------------------------------------
TypeOK ==
    /\ offers \subseteq Optional /\ explicit \in BOOLEAN /\ supported \in BOOLEAN
    /\ shared \in BOOLEAN
    /\ held \subseteq Resources /\ known \subseteq held
    /\ buffers \in [Ids -> [host : {"none", "owned", "shared"},
                            tensor : {"none", "raw", "handle"}, named : BOOLEAN]]
    /\ at \in 1 .. Tensors + 1 /\ step \in Nat

\* What the driver and the loader require to be alive as long as r is.
Needs(r) ==
    CASE r[1] \in {"qnnLib", "systemLib"} -> {}
      [] r[1] = "rpcLib"        -> {}
      [] r[1] = "log"           -> {Resource("qnnLib")}
      [] r[1] = "backend"       -> {Resource("qnnLib"), Resource("log")}
      [] r[1] = "device"        -> {Resource("qnnLib"), Resource("log")}
      [] r[1] = "power"         -> {Resource("qnnLib"), Resource("device")}
      [] r[1] = "systemContext" -> {Resource("systemLib")}
      [] r[1] = "context"       -> {Resource("backend"), Resource("device")}
      [] r[1] = "memory"        -> {Resource("rpcLib")}
      [] r[1] = "handle"        -> {Resource("context"), Memory(r[2])}

(***************************************************************************)
(* Nothing is released while something that rests on it is still held, on  *)
(* the way up and on the way down, wherever the way up ended.  (A file     *)
(* without metadata, or with some of an unsupported version, leaves the    *)
(* handle that was reading it behind.)                                     *)
(***************************************************************************)
ReleasedInOrder ==
    [][supported => \A r \in held' : Needs(r) \cap held \subseteq held']_vars

\* With an explicit release the destructor gives back everything, whichever
\* call failed before: also what a half-finished step had acquired.  Not the
\* handle that was reading a file whose metadata is refused: it is lost.
NothingLeaks ==
    pc = "gone" /\ explicit =>
        held \subseteq IF supported THEN {} ELSE {Resource("systemContext")}

(***************************************************************************)
(* When a graph executes, each descriptor handed to the driver refers to   *)
(* memory that is alive and is where the session reads and writes, and is  *)
(* named by a buffer that has not moved since.                             *)
(***************************************************************************)
TensorsLive ==
    pc = "running" => \A b \in Ids :
        /\ buffers[b].named
        /\ buffers[b].tensor = "handle" => Handle(b) \in held /\ buffers[b].host = "shared"
        /\ buffers[b].tensor = "raw" => buffers[b].host = "owned"
        /\ buffers[b].host = "shared" => Memory(b) \in held
        /\ buffers[b].tensor # "none"
=============================================================================
