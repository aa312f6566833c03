------------------------- MODULE TenantServerProofs -------------------------
(***************************************************************************)
(* Proofs about what MCServe composes: a tenant of TenantServer, for any   *)
(* number of requests, saves and permits and every outage, and the index   *)
(* directory under it.                                                     *)
(*                                                                         *)
(* The stop.  A request that got past the second look at `closing` holds   *)
(* the lock of its handle; what the stop flushes is the handle that was in *)
(* the slot, and such a request can only hold that one (SameHandle).  A    *)
(* backfill the stop waited for is registered as long as it runs           *)
(* (Registered), and no record is begun once the stop has begun            *)
(* (NothingBegun).                                                         *)
(*                                                                         *)
(* The heal.  Before a handle with the index is in the slot every record   *)
(* without a vector was saved since the index was missed, unless the index *)
(* is a fresh one (Unserved); from then on every such record is owed by    *)
(* the one re-embedder that runs (Served).                                 *)
(***************************************************************************)
EXTENDS MCServe, TLAPS, FiniteSetTheorems

Handles == {"kw", "vec"}
WorkFields == {"step", "todo", "half", "since", "full"}

\* The maps are over the threads, the handles and the workers.
Typed ==
  /\ DOMAIN pc = Threads /\ DOMAIN holds = Threads /\ DOMAIN lock = Handles
  /\ DOMAIN work = Workers /\ \A w \in Workers : DOMAIN work[w] = WorkFields
  /\ \A t \in Threads : holds[t] \in {"none", "kw", "vec"}
  /\ \A w \in Workers : work[w].full \in BOOLEAN
  /\ cached \in {"none", "kw", "vec"} /\ taken \in {"none", "kw", "vec"}
  /\ {running, draining, closing, flushed, late} \subseteq BOOLEAN
  /\ closer \in {"up", "backfills", "take", "lock", "done"}

\* Who is in the lock has it, and an open finds the slot empty.
Locks ==
  /\ \A r \in Requests : pc[r] \in {"embed", "embedding", "wait", "locked", "in"} =>
                          holds[r] \in Handles
  /\ \A r \in Requests : pc[r] \in {"locked", "in"} => lock[holds[r]] = r
  /\ \A t \in Threads : pc[t] = "open" /\ slotLock = t => cached = "none"

\* The stop: closing from the start of it, and a handle in its hands before the flush.
Stopping ==
  /\ closer # "up" => closing
  /\ taken # "none" => closer \in {"lock", "done"}
  /\ closer = "lock" => taken \in Handles
  /\ flushed => closer = "done"

\* A handle with the index is the one in the slot, and after the stop took it, the one taken.
SameHandle ==
  /\ ~closing => \A r \in Requests : holds[r] = "vec" => cached = "vec"
  /\ \A r \in Requests : pc[r] = "in" /\ holds[r] = "vec" =>
       taken = "vec" \/ (taken = "none" /\ cached = "vec")
  /\ flushed => \A r \in Requests : ~(pc[r] = "in" /\ holds[r] = "vec")

\* A backfill, or a heal that does one's work, is registered, and there is one.
Registered ==
  /\ running <=> \E w \in Workers : work[w].full
  /\ \A v, w \in Workers : work[v].full /\ work[w].full => v = w
  /\ work["background"].step # "idle" => pc["background"] = "heal"
  /\ work["background"].full => pc["background"] = "heal"
  /\ work["backfill"].step # "idle" => work["backfill"].full

\* Past the wait for the backfills none is in the middle of a record.
NothingBegun ==
  closer \in {"take", "lock", "done"} /\ ~late =>
    \A w \in Workers : work[w].full => work[w].half = 0 /\ work[w].step \in {"list", "next"}

StopInv == Typed /\ Locks /\ Stopping /\ SameHandle /\ Registered /\ NothingBegun

-----------------------------------------------------------------------------
LEMMA InitInv == ASSUME Init PROVE StopInv
BY ServerAssumption DEF Init, StopInv, Typed, Locks, Stopping, SameHandle, Registered, NothingBegun,
   Handles, WorkFields, Threads, Workers, Idle

\* A step of one thread from one place to another, that takes no lock and no handle.
LEMMA MoveInv ==
  ASSUME StopInv, NEW t \in Threads, NEW to \in {"check", "slot", "tick", "idle",
           "retry"},
         pc[t] \notin {"locked", "in", "heal"}, Goto(t, to),
         UNCHANGED <<slotLock, cached, lock, holds, work, running, stop>>
  PROVE  StopInv'
<1>1. \A s \in Threads \ {t} : pc'[s] = pc[s]
  BY DEF Goto, StopInv, Typed
<1>2. pc'[t] = to /\ DOMAIN pc' = Threads
  BY DEF Goto, StopInv, Typed
<1> QED
  BY ServerAssumption, <1>1, <1>2 DEF stop, StopInv, Typed, Locks, Stopping, SameHandle, Registered,
     NothingBegun, Threads

LEMMA EnterSlotInv ==
  ASSUME StopInv, NEW t \in Threads, EnterSlot(t)
  PROVE  StopInv'
<1>1. /\ pc[t] = "slot" /\ slotLock = "free"
      /\ UNCHANGED <<cached, lock, work, running, stop>>
  BY DEF EnterSlot, workers
<1>2. CASE cached = "none"
  <2>1. pc' = [pc EXCEPT ![t] = "open"] /\ slotLock' = t /\ holds' = holds
    BY <1>2 DEF EnterSlot, Goto
  <2> QED
    BY ServerAssumption, <1>1, <1>2, <2>1 DEF stop, StopInv, Typed, Locks, Stopping, SameHandle,
       Registered, NothingBegun, Threads
<1>3. CASE cached # "none" /\ t = "background"
  <2>1. /\ pc' = [pc EXCEPT ![t] = "tick"] /\ slotLock' = slotLock
        /\ holds' = [holds EXCEPT ![t] = "none"]
    BY <1>3 DEF EnterSlot, Goto
  <2> QED
    BY ServerAssumption, <1>1, <1>3, <2>1 DEF stop, StopInv, Typed, Locks, Stopping, SameHandle,
       Registered, NothingBegun, Threads
<1>4. CASE cached # "none" /\ t # "background"
  <2>1. /\ pc' = [pc EXCEPT ![t] = "embed"] /\ slotLock' = slotLock
        /\ holds' = [holds EXCEPT ![t] = cached]
    BY <1>4 DEF EnterSlot, Goto
  <2>2. cached \in Handles
    BY <1>4 DEF StopInv, Typed, Handles
  <2> QED
    BY ServerAssumption, <1>1, <1>4, <2>1, <2>2 DEF stop, StopInv, Typed, Locks, Stopping,
       SameHandle, Registered, NothingBegun, Threads
<1> QED
  BY <1>2, <1>3, <1>4

\* A backfill that is registered now was not, and does nothing before it lists.
LEMMA StartBackfillInv ==
  ASSUME StopInv, NEW owed, StartBackfill(owed) \/ UNCHANGED workers,
         pc["background"] = "heal" => pc'["background"] = "heal", UNCHANGED <<closer, late>>
  PROVE  /\ DOMAIN work' = Workers /\ \A w \in Workers : DOMAIN work'[w] = WorkFields
         /\ \A w \in Workers : work'[w].full \in BOOLEAN
         /\ running' \in BOOLEAN /\ Registered' /\ NothingBegun'
<1>1. CASE owed /\ ~running /\ StartBackfill(owed)
  <2>1. /\ work'["backfill"] = Backfill /\ work'["background"] = work["background"]
        /\ DOMAIN work' = Workers /\ running' = TRUE
    BY <1>1 DEF StartBackfill, StopInv, Typed, Workers
  <2>2. /\ Backfill.full = TRUE /\ Backfill.step = "list" /\ Backfill.half = 0
        /\ DOMAIN Backfill = WorkFields
    BY DEF Backfill, Idle, WorkFields
  <2>3. ~work["background"].full
    BY <1>1 DEF StopInv, Registered, Workers
  <2>4. DOMAIN work' = Workers /\ \A w \in Workers : DOMAIN work'[w] = WorkFields
    BY <2>1, <2>2 DEF StopInv, Typed, Workers
  <2>5. (\A w \in Workers : work'[w].full \in BOOLEAN) /\ running' \in BOOLEAN
    BY <2>1, <2>2 DEF StopInv, Typed, Workers
  <2>6. Registered'
    BY <2>1, <2>2, <2>3 DEF StopInv, Registered, Workers
  <2>7. NothingBegun'
    BY <2>1, <2>2, <2>3 DEF StopInv, NothingBegun, Workers
  <2> QED
    BY <2>4, <2>5, <2>6, <2>7
<1>2. CASE UNCHANGED workers
  BY <1>2 DEF workers, StopInv, Typed, Registered, NothingBegun
<1> QED
  BY <1>1, <1>2 DEF StartBackfill

LEMMA OpenTenantInv ==
  ASSUME StopInv, NEW t \in Threads, OpenTenant(t)
  PROVE  StopInv'
<1>1. /\ pc[t] = "open" /\ slotLock = t /\ slotLock' = "free" /\ cached = "none"
      /\ UNCHANGED <<lock, stop>>
  BY DEF OpenTenant, StopInv, Locks
<1>2. \E owed : StartBackfill(owed) \/ UNCHANGED workers
  BY DEF OpenTenant
<1>3. PICK to \in {"tick", "idle", "embed"} : pc' = [pc EXCEPT ![t] = to]
  BY DEF OpenTenant, Goto, Leave
<1>4. /\ DOMAIN work' = Workers /\ \A w \in Workers : DOMAIN work'[w] = WorkFields
      /\ \A w \in Workers : work'[w].full \in BOOLEAN
      /\ running' \in BOOLEAN /\ Registered' /\ NothingBegun'
  <2>1. pc["background"] = "heal" => pc'["background"] = "heal"
    BY <1>1, <1>3 DEF StopInv, Typed, Threads
  <2>2. UNCHANGED <<closer, late>>
    BY <1>1 DEF stop
  <2> QED
    BY <1>2, <2>1, <2>2, StartBackfillInv
<1>5. /\ cached' \in {"none", "kw", "vec"}
      /\ \/ holds' = holds /\ to # "embed"
         \/ to = "tick" /\ t = "background" /\ holds' = [holds EXCEPT ![t] = "none"]
         \/ to = "embed" /\ cached' \in Handles /\ holds' = [holds EXCEPT ![t] = cached']
  BY <1>1, <1>3 DEF OpenTenant, Goto, Leave, Handles, StopInv, Typed
<1>6. /\ \A s \in Threads \ {t} : pc'[s] = pc[s] /\ holds'[s] = holds[s]
      /\ pc'[t] = to /\ DOMAIN pc' = Threads /\ DOMAIN holds' = Threads
  BY <1>3, <1>5 DEF StopInv, Typed
<1>7. \/ holds'[t] = holds[t] /\ to # "embed"
      \/ to = "tick" /\ t = "background" /\ holds'[t] = "none"
      \/ to = "embed" /\ cached' \in Handles /\ holds'[t] = cached'
  BY <1>5 DEF StopInv, Typed
<1>8. Typed' /\ Stopping'
  BY <1>1, <1>4, <1>5, <1>6, <1>7 DEF stop, StopInv, Typed, Stopping, Handles
<1>9. Locks'
  BY ServerAssumption, <1>1, <1>6, <1>7 DEF StopInv, Typed, Locks, Threads
<1>10. SameHandle'
  BY ServerAssumption, <1>1, <1>6, <1>7 DEF stop, StopInv, Typed, SameHandle, Threads
<1> QED
  BY <1>4, <1>8, <1>9, <1>10 DEF StopInv

\* The way of a request to the lock, under it, and out.
LEMMA TakePermitInv ==
  ASSUME StopInv, NEW r \in Requests, TakePermit(r)
  PROVE  StopInv'
<1>1. /\ pc[r] = "embed" /\ pc' = [pc EXCEPT ![r] = "embedding"] /\ r \in Threads
      /\ UNCHANGED <<slotLock, cached, lock, holds, work, running, stop>>
  BY DEF TakePermit, Goto, workers, Threads
<1>2. pc'[r] = "embedding" /\ \A s \in Threads \ {r} : pc'[s] = pc[s]
  BY <1>1 DEF StopInv, Typed
<1> QED
  BY ServerAssumption, <1>1, <1>2 DEF stop, StopInv, Typed, Locks, Stopping, SameHandle,
     Registered, NothingBegun, Threads

LEMMA EmbeddedInv ==
  ASSUME StopInv, NEW r \in Requests, Embedded(r)
  PROVE  StopInv'
<1>1. /\ pc[r] \in {"embed", "embedding"} /\ r \in Threads
      /\ UNCHANGED <<slotLock, cached, lock, work, running, stop>>
  BY DEF Embedded, workers, Threads
<1>2. \/ pc' = [pc EXCEPT ![r] = "idle"] /\ holds' = [holds EXCEPT ![r] = "none"]
      \/ pc' = [pc EXCEPT ![r] = "wait"] /\ holds' = holds
  BY DEF Embedded, Goto, Drop
<1>3. /\ \A s \in Threads \ {r} : pc'[s] = pc[s] /\ holds'[s] = holds[s]
      /\ pc'[r] \in {"idle", "wait"} /\ holds'[r] \in {"none", holds[r]}
      /\ pc'[r] = "wait" => holds'[r] = holds[r]
      /\ DOMAIN pc' = Threads /\ DOMAIN holds' = Threads
  BY <1>1, <1>2 DEF StopInv, Typed
<1> QED
  BY ServerAssumption, <1>1, <1>3 DEF stop, StopInv, Typed, Locks, Stopping, SameHandle,
     Registered, NothingBegun, Threads, Handles

LEMMA TakeLockInv ==
  ASSUME StopInv, NEW r \in Requests, TakeLock(r)
  PROVE  StopInv'
<1>1. /\ pc[r] = "wait" /\ lock[holds[r]] = "free" /\ r \in Threads /\ holds[r] \in Handles
      /\ lock' = [lock EXCEPT ![holds[r]] = r] /\ pc' = [pc EXCEPT ![r] = "locked"]
      /\ UNCHANGED <<slotLock, cached, holds, work, running, stop>>
  BY DEF TakeLock, Goto, workers, Threads, StopInv, Locks
<1>2. /\ \A s \in Threads \ {r} : pc'[s] = pc[s]
      /\ pc'[r] = "locked" /\ lock'[holds[r]] = r
      /\ \A h \in Handles \ {holds[r]} : lock'[h] = lock[h]
  BY <1>1 DEF StopInv, Typed
<1>3. Locks'
  BY ServerAssumption, <1>1, <1>2 DEF StopInv, Typed, Locks, Threads
<1> QED
  BY ServerAssumption, <1>1, <1>2, <1>3 DEF stop, StopInv, Typed, Stopping, SameHandle,
     Registered, NothingBegun, Threads

\* The second look at `closing`: whoever gets past it holds the handle in the slot.
LEMMA CheckAgainInv ==
  ASSUME StopInv, NEW r \in Requests, CheckAgain(r)
  PROVE  StopInv'
<1>1. /\ pc[r] = "locked" /\ r \in Threads /\ holds[r] \in Handles /\ lock[holds[r]] = r
      /\ UNCHANGED <<slotLock, cached, work, running, stop>>
  BY DEF CheckAgain, workers, Threads, StopInv, Locks
<1>2. CASE ~closing
  <2>1. pc' = [pc EXCEPT ![r] = "in"] /\ UNCHANGED <<lock, holds>>
    BY <1>2 DEF CheckAgain, GoesOn, Goto
  <2>2. pc'[r] = "in" /\ \A s \in Threads \ {r} : pc'[s] = pc[s]
    BY <1>1, <2>1 DEF StopInv, Typed
  <2>3. closer = "up" /\ taken = "none" /\ ~flushed
    BY <1>2 DEF StopInv, Typed, Stopping
  <2> QED
    BY ServerAssumption, <1>1, <1>2, <2>1, <2>2, <2>3 DEF stop, StopInv, Typed, Locks, Stopping,
       SameHandle, Registered, NothingBegun, Threads
<1>3. CASE closing
  <2>1. /\ pc' = [pc EXCEPT ![r] = "idle"] /\ holds' = [holds EXCEPT ![r] = "none"]
        /\ lock' = [lock EXCEPT ![holds[r]] = "free"]
    BY <1>3 DEF CheckAgain, GoesOn, Goto, Drop
  <2>2. /\ \A s \in Threads \ {r} : pc'[s] = pc[s] /\ holds'[s] = holds[s]
        /\ pc'[r] = "idle" /\ holds'[r] = "none" /\ DOMAIN lock' = Handles
        /\ \A h \in Handles \ {holds[r]} : lock'[h] = lock[h]
    BY <1>1, <2>1 DEF StopInv, Typed
  <2>3. Locks'
    BY ServerAssumption, <1>1, <2>2 DEF StopInv, Typed, Locks, Threads
  <2> QED
    BY ServerAssumption, <1>1, <2>1, <2>2, <2>3 DEF stop, StopInv, Typed, Stopping, SameHandle,
       Registered, NothingBegun, Threads
<1> QED
  BY <1>2, <1>3 DEF StopInv, Typed

LEMMA SaveRecordInv ==
  ASSUME StopInv, NEW r \in Requests, SaveRecord(r)
  PROVE  StopInv'
<1>1. /\ pc[r] = "in" /\ r \in Threads /\ holds[r] \in Handles /\ lock[holds[r]] = r
      /\ UNCHANGED <<slotLock, cached, work, running, stop>>
  BY DEF SaveRecord, workers, Threads, StopInv, Locks
<1>2. /\ pc' = [pc EXCEPT ![r] = "idle"] /\ holds' = [holds EXCEPT ![r] = "none"]
      /\ lock' = [lock EXCEPT ![holds[r]] = "free"]
  BY DEF SaveRecord, Goto, Drop
<1>3. /\ \A s \in Threads \ {r} : pc'[s] = pc[s] /\ holds'[s] = holds[s]
      /\ pc'[r] = "idle" /\ holds'[r] = "none" /\ DOMAIN lock' = Handles
      /\ \A h \in Handles \ {holds[r]} : lock'[h] = lock[h]
  BY <1>1, <1>2 DEF StopInv, Typed
<1>4. Locks'
  BY ServerAssumption, <1>1, <1>3 DEF StopInv, Typed, Locks, Threads
<1> QED
  BY ServerAssumption, <1>1, <1>2, <1>3, <1>4 DEF stop, StopInv, Typed, Stopping, SameHandle,
     Registered, NothingBegun, Threads

-----------------------------------------------------------------------------
(* The background thread and the re-embedders.                             *)

LEMMA EnterRetryInv ==
  ASSUME StopInv, EnterRetry
  PROVE  StopInv'
<1>1. /\ pc["background"] = "retry" /\ "background" \in Threads
      /\ UNCHANGED <<cached, lock, holds, work, running, stop>>
  BY DEF EnterRetry, workers, Threads
<1>2. CASE Goto("background", "tick") /\ UNCHANGED slotLock
  BY <1>1, <1>2, MoveInv
<1>3. CASE Goto("background", "reopen") /\ slotLock' = "background"
  <2>1. /\ pc'["background"] = "reopen" /\ DOMAIN pc' = Threads
        /\ \A s \in Threads \ {"background"} : pc'[s] = pc[s]
    BY <1>1, <1>3 DEF Goto, StopInv, Typed
  <2> QED
    BY ServerAssumption, <1>1, <1>3, <2>1 DEF stop, StopInv, Typed, Locks, Stopping, SameHandle,
       Registered, NothingBegun, Threads
<1> QED
  BY <1>2, <1>3 DEF EnterRetry

\* A heal replaces the handle in the slot, and never once a stop has begun.
LEMMA ReopenInv ==
  ASSUME StopInv, Reopen
  PROVE  StopInv'
<1>1. /\ pc["background"] = "reopen" /\ "background" \in Threads /\ slotLock' = "free"
      /\ ~work["background"].full /\ UNCHANGED <<lock, holds, stop>>
  BY DEF Reopen, Threads, StopInv, Registered, Workers
<1>2. CASE Goto("background", "tick") /\ UNCHANGED <<cached, workers>>
  <2>1. /\ pc'["background"] = "tick" /\ DOMAIN pc' = Threads
        /\ \A s \in Threads \ {"background"} : pc'[s] = pc[s]
    BY <1>1, <1>2 DEF Goto, StopInv, Typed
  <2> QED
    BY ServerAssumption, <1>1, <1>2, <2>1 DEF stop, workers, StopInv, Typed, Locks, Stopping,
       SameHandle, Registered, NothingBegun, Threads
<1>3. CASE ~(Goto("background", "tick") /\ UNCHANGED <<cached, workers>>)
  <2> DEFINE full == marker' /\ ~running
             heal == [Idle EXCEPT !.step = "drain", !.since = Since(full), !.full = full]
  <2>1. /\ ~closing /\ cached' = "vec" /\ Goto("background", "heal")
        /\ running' = (running \/ full) /\ work' = [work EXCEPT !["background"] = heal]
    BY <1>3 DEF Reopen
  <2>2. /\ pc'["background"] = "heal" /\ DOMAIN pc' = Threads
        /\ \A s \in Threads \ {"background"} : pc'[s] = pc[s]
    BY <1>1, <2>1 DEF Goto, StopInv, Typed
  <2>3. heal.full = full /\ DOMAIN heal = WorkFields
    BY DEF Idle, WorkFields
  <2> HIDE DEF heal
  <2>4. /\ work'["background"] = heal /\ work'["backfill"] = work["backfill"]
        /\ DOMAIN work' = Workers
    BY <2>1 DEF StopInv, Typed, Workers
  <2>5. closer = "up" /\ taken = "none" /\ ~flushed
    BY <2>1 DEF StopInv, Typed, Stopping
  <2>6. full \in BOOLEAN /\ running' = (running \/ full) /\ ~(full /\ running)
    BY <2>1 DEF StopInv, Typed
  <2> HIDE DEF full
  <2>7. Typed'
    BY <1>1, <2>1, <2>2, <2>3, <2>4, <2>6 DEF stop, StopInv, Typed, Workers
  <2>8. Locks'
    BY ServerAssumption, <1>1, <2>2 DEF StopInv, Locks, Threads
  <2>9. Stopping' /\ NothingBegun'
    BY <1>1, <2>5 DEF stop, Stopping, StopInv, NothingBegun
  <2>10. SameHandle'
    BY ServerAssumption, <1>1, <2>1, <2>2, <2>5 DEF stop, StopInv, SameHandle, Threads
  <2>11. Registered'
    <3>1. running <=> work["backfill"].full
      BY <1>1 DEF StopInv, Registered, Workers
    <3> QED
      BY <2>2, <2>3, <2>4, <2>6, <3>1 DEF StopInv, Registered, Workers
  <2> QED
    BY <2>7, <2>8, <2>9, <2>10, <2>11 DEF StopInv
<1> QED
  BY <1>2, <1>3

\* A step of a re-embedder that stays registered, and begins no record once a stop has begun.
Works(w) ==
  /\ DOMAIN work' = Workers /\ DOMAIN work'[w] = WorkFields
  /\ \A v \in Workers \ {w} : work'[v] = work[v]
  /\ work[w].step # "idle" /\ work'[w].full = work[w].full
  /\ closing /\ ~late' =>
       \/ ~work[w].full \/ closer = "backfills"
       \/ work[w].half = 0 /\ work[w].step \in {"list", "next"} =>
            work'[w].half = 0 /\ work'[w].step \in {"list", "next"}
  /\ UNCHANGED <<pc, slotLock, cached, lock, holds, running, draining, closing, closer, taken,
                 flushed>>
  /\ late' \in BOOLEAN /\ (late => late')

LEMMA WorksInv ==
  ASSUME StopInv, NEW w \in Workers, Works(w)
  PROVE  StopInv'
<1>1. Typed' /\ Locks' /\ Stopping' /\ SameHandle'
  BY DEF Works, StopInv, Typed, Locks, Stopping, SameHandle
<1>2. Registered'
  <2>1. \A v \in Workers : work'[v].full = work[v].full
    BY DEF Works
  <2>2. \A v \in Workers : work'[v].step # "idle" => work[v].step # "idle"
    BY DEF Works
  <2>3. pc' = pc /\ running' = running
    BY DEF Works
  <2> QED
    BY <2>1, <2>2, <2>3 DEF StopInv, Registered, Workers
<1>3. NothingBegun'
  BY DEF Works, StopInv, Typed, Stopping, NothingBegun
<1> QED
  BY <1>1, <1>2, <1>3 DEF StopInv

\* Every step of a re-embedder but its end is one of those.
LEMMA ReembedWorks ==
  ASSUME StopInv, NEW w \in Workers,
         List(w) \/ BeginRecord(w) \/ TakeRecord(w) \/ DeleteOld(w) \/ InsertNew(w)
  PROVE  Works(w)
<1>1. PICK new :
        /\ work' = [work EXCEPT ![w] = new] /\ DOMAIN new = WorkFields
        /\ new.full = work[w].full /\ work[w].step # "idle"
        /\ closing /\ work[w].half = 0 /\ work[w].step \in {"list", "next"} =>
             new.half = 0 /\ new.step \in {"list", "next"}
        /\ UNCHANGED <<pc, slotLock, cached, lock, holds, running, stop>>
  <2>1. CASE List(w)
    BY <2>1 DEF List, handles, StopInv, Typed, WorkFields
  <2>2. CASE BeginRecord(w)
    BY <2>2 DEF BeginRecord, handles, StopInv, Typed, WorkFields
  <2>3. CASE TakeRecord(w)
    BY <2>3 DEF TakeRecord, StopInv, Typed, WorkFields
  <2>4. CASE DeleteOld(w)
    BY <2>4 DEF DeleteOld, handles, StopInv, Typed, WorkFields
  <2>5. CASE InsertNew(w)
    BY <2>5 DEF InsertNew, StopInv, Typed, WorkFields
  <2> QED
    BY <2>1, <2>2, <2>3, <2>4, <2>5
<1> QED
  BY <1>1 DEF Works, stop, StopInv, Typed

LEMMA HealDrainInv ==
  ASSUME StopInv, HealDrain
  PROVE  StopInv'
<1> DEFINE w == "background"
           waits == \E r \in Requests : holds[r] = "kw"
<1>1. /\ work[w].step = "drain" /\ work' = [work EXCEPT ![w].step = "list"] /\ w \in Workers
      /\ late' = (late \/ (waits /\ ~draining))
      /\ UNCHANGED <<pc, slotLock, cached, lock, holds, running, draining, closing, closer,
                     taken, flushed>>
  BY DEF HealDrain, handles, Workers
<1>2. /\ DOMAIN work' = Workers /\ DOMAIN work'[w] = WorkFields
      /\ \A v \in Workers \ {w} : work'[v] = work[v]
      /\ work'[w].full = work[w].full
  BY <1>1 DEF StopInv, Typed, WorkFields
<1> QED
  BY <1>1, <1>2, WorksInv DEF Works, StopInv, Typed

LEMMA EndRunInv ==
  ASSUME StopInv, NEW w \in Workers, EndRun(w)
  PROVE  StopInv'
<1>1. /\ work[w].step = "next" /\ work' = [work EXCEPT ![w] = Idle]
      /\ running' = (running /\ ~work[w].full)
      /\ UNCHANGED <<slotLock, cached, lock, holds, stop>>
  BY DEF EndRun, handles
<1>2. /\ work'[w] = Idle /\ DOMAIN work' = Workers
      /\ \A v \in Workers \ {w} : work'[v] = work[v]
  BY <1>1 DEF StopInv, Typed
<1>3. Idle.full = FALSE /\ Idle.step = "idle" /\ DOMAIN Idle = WorkFields
  BY DEF Idle, WorkFields
<1>4. /\ w = "background" => pc["background"] = "heal" /\ pc' = [pc EXCEPT !["background"] = "tick"]
      /\ w # "background" => pc' = pc
  BY <1>1 DEF EndRun, Goto, StopInv, Registered
<1>5. /\ "background" \in Threads /\ DOMAIN pc' = Threads
      /\ \A s \in Threads \ {"background"} : pc'[s] = pc[s]
      /\ w = "background" => pc'["background"] = "tick"
      /\ w # "background" => pc'["background"] = pc["background"]
  BY <1>4 DEF StopInv, Typed, Threads
<1>6. Typed' /\ Stopping'
  <2>1. running' \in BOOLEAN /\ \A v \in Workers : work'[v].full \in BOOLEAN
    BY <1>1, <1>2, <1>3 DEF StopInv, Typed
  <2>2. \A v \in Workers : DOMAIN work'[v] = WorkFields
    BY <1>2, <1>3 DEF StopInv, Typed
  <2> QED
    BY <1>1, <1>2, <1>5, <2>1, <2>2 DEF stop, StopInv, Typed, Stopping
<1>7. Locks' /\ SameHandle'
  BY ServerAssumption, <1>1, <1>4, <1>5 DEF stop, StopInv, Locks, SameHandle, Threads
<1>8. Registered'
  BY <1>1, <1>2, <1>3, <1>5 DEF StopInv, Typed, Registered, Workers
<1>9. NothingBegun'
  BY <1>1, <1>2, <1>3 DEF stop, StopInv, NothingBegun
<1> QED
  BY <1>6, <1>7, <1>8, <1>9 DEF StopInv

-----------------------------------------------------------------------------
(* The stop.                                                               *)

LEMMA CloserInv ==
  ASSUME StopInv, BeginClose \/ CloseBackfills \/ CloseSkip
  PROVE  StopInv'
<1>1. UNCHANGED <<pc, slotLock, cached, lock, holds, work, running, draining, taken, flushed>>
  BY DEF BeginClose, CloseBackfills, CloseSkip, handles, workers
<1>2. CASE BeginClose
  BY <1>1, <1>2 DEF BeginClose, StopInv, Typed, Locks, Stopping, SameHandle, Registered,
     NothingBegun
<1>3. CASE CloseBackfills
  <2>1. ~late' => \A w \in Workers : ~work[w].full
    BY <1>3 DEF CloseBackfills, StopInv, Registered
  <2> QED
    BY <1>1, <1>3, <2>1 DEF CloseBackfills, StopInv, Typed, Locks, Stopping, SameHandle,
       Registered, NothingBegun
<1>4. CASE CloseSkip
  BY <1>1, <1>4 DEF CloseSkip, StopInv, Typed, Locks, Stopping, SameHandle, Registered,
     NothingBegun
<1> QED
  BY <1>2, <1>3, <1>4

LEMMA CloseTakeInv ==
  ASSUME StopInv, CloseTake
  PROVE  StopInv'
<1>1. /\ closer = "take" /\ taken = "none" /\ ~flushed /\ closing
      /\ UNCHANGED <<pc, slotLock, lock, holds, work, running, draining, closing, flushed, late>>
  BY DEF CloseTake, workers, StopInv, Typed, Stopping
<1>2. CASE slotLock = "free" /\ cached # "none"
  <2>1. taken' = cached /\ cached' = "none" /\ closer' = "lock"
    BY <1>2 DEF CloseTake
  <2>2. Locks'
    BY ServerAssumption, <1>1, <1>2, <2>1 DEF StopInv, Locks, Threads
  <2> QED
    BY <1>1, <1>2, <2>1, <2>2 DEF StopInv, Typed, Stopping, SameHandle, Registered,
       NothingBegun, Handles
<1>3. CASE ~(slotLock = "free" /\ cached # "none")
  <2>1. closer' = "done" /\ UNCHANGED <<taken, cached>>
    BY <1>3 DEF CloseTake
  <2> QED
    BY <1>1, <2>1 DEF StopInv, Typed, Locks, Stopping, SameHandle, Registered, NothingBegun
<1> QED
  BY <1>2, <1>3

\* At the flush nobody is under the lock of the handle that is flushed.
LEMMA CloseFlushInv ==
  ASSUME StopInv, CloseFlush
  PROVE  StopInv'
<1>1. /\ closer = "lock" /\ lock[taken] = "free" /\ closer' = "done" /\ flushed' = TRUE
      /\ taken \in Handles
      /\ UNCHANGED <<pc, slotLock, cached, lock, holds, work, running, draining, closing, taken,
                     late>>
  BY DEF CloseFlush, handles, workers, StopInv, Stopping
<1>2. ASSUME NEW r \in Requests, pc[r] = "in", holds[r] = "vec" PROVE FALSE
  <2>1. taken = "vec"
    BY <1>1, <1>2 DEF StopInv, SameHandle, Handles
  <2>2. lock["vec"] = r
    BY <1>2 DEF StopInv, Locks
  <2> QED
    BY ServerAssumption, <1>1, <2>1, <2>2
<1> QED
  BY <1>1, <1>2 DEF StopInv, Typed, Locks, Stopping, SameHandle, Registered, NothingBegun

\* A request goes to its handle by the steps above, and nothing else touches the stop.
LEMMA MovesInv ==
  ASSUME StopInv,
         \/ \E r \in Requests : Arrive(r)
         \/ Boot \/ Due
         \/ \E t \in Threads : CheckClosing(t)
  PROVE  StopInv'
<1>1. \E t \in Threads, to \in {"check", "slot", "tick", "idle", "retry"} :
        /\ pc[t] \notin {"locked", "in", "heal"} /\ Goto(t, to)
        /\ UNCHANGED <<slotLock, cached, lock, holds, work, running, stop>>
  BY DEF Arrive, Boot, Due, CheckClosing, Leave, handles, workers, Threads
<1> QED
  BY <1>1, MoveInv

\* Every step keeps the invariant.
LEMMA StepInv ==
  ASSUME StopInv, [Next]_vars
  PROVE  StopInv'
<1>1. CASE Repair \/ Signal
  <2>1. /\ UNCHANGED <<pc, slotLock, cached, lock, holds, work, running, closing, closer, taken,
                       flushed, late>>
        /\ draining' \in {draining, TRUE}
    BY <1>1 DEF Repair, Signal, handles, workers, stop
  <2>2. Typed' /\ Locks' /\ Stopping'
    BY <2>1 DEF StopInv, Typed, Locks, Stopping
  <2>3. SameHandle' /\ Registered' /\ NothingBegun'
    BY <2>1 DEF StopInv, SameHandle, Registered, NothingBegun
  <2> QED
    BY <2>2, <2>3 DEF StopInv
<1>2. CASE UNCHANGED vars
  BY <1>2 DEF vars, StopInv, Typed, Locks, Stopping, SameHandle, Registered, NothingBegun
<1>3. CASE \E r \in Requests : Arrive(r) \/ Request(r)
  BY <1>3, MovesInv, EnterSlotInv, OpenTenantInv, TakePermitInv, EmbeddedInv, TakeLockInv,
     CheckAgainInv, SaveRecordInv DEF Request, Memory, Threads
<1>4. ASSUME NEW w \in Workers, Reembed(w) PROVE StopInv'
  BY <1>4, ReembedWorks, WorksInv, EndRunInv DEF Reembed
<1>5. CASE Background
  BY <1>4, <1>5, MovesInv, EnterSlotInv, OpenTenantInv, EnterRetryInv, ReopenInv, HealDrainInv
     DEF Background, Memory, Threads, Workers
<1>6. CASE Reembed("backfill")
  BY <1>4, <1>6 DEF Workers
<1>7. CASE Closer
  BY <1>7, CloserInv, CloseTakeInv, CloseFlushInv DEF Closer
<1> QED
  BY <1>1, <1>2, <1>3, <1>5, <1>6, <1>7 DEF Next

\* A stop leaves nothing half done: no request writes into the index that is flushed, and a
\* backfill that was waited for is between two records (server.rs close_tenants, on_tenant's
\* second look at `closing`, run_backfill).
THEOREM TenantStopIsClean == Spec => StopIsClean
<1>1. Init => StopInv
  BY InitInv
<1>2. StopInv /\ [Next]_vars => StopInv'
  BY StepInv
<1>3. StopInv /\ [Next]_vars =>
        [\A r \in Requests : flushed /\ SaveRecord(r) => vec' = vec]_vars
  BY DEF StopInv, SameHandle, SaveRecord
<1>4. StopInv /\ [Next]_vars =>
        [CloseFlush /\ ~late => \A w \in Workers : work[w].full => work[w].half = 0]_vars
  BY DEF StopInv, NothingBegun, CloseFlush
<1> QED
  BY <1>1, <1>2, <1>3, <1>4, PTL DEF Spec, StopIsClean, NothingAfterFlush, BackfillsAreWhole

-----------------------------------------------------------------------------
(* A heal and a backfill are complete.                                     *)

Places == {"boot", "check", "slot", "open", "tick", "embed", "embedding", "wait", "locked", "in",
           "idle", "retry", "reopen", "heal"}
WorkPlaces == {"idle", "drain", "list", "next", "permit", "delete", "insert"}
Runs == [step : WorkPlaces, todo : SUBSET Nat, half : Nat, since : Nat, full : BOOLEAN]

\* Every variable stays in its domain; a list is of records that are there.
Domains ==
  /\ require \in BOOLEAN /\ index \in {"whole", "fresh", "shut"} /\ marker \in BOOLEAN
  /\ saves \in Nat \ {0} /\ vec \subseteq 1..saves
  /\ slotLock \in Threads \cup {"free"}
  /\ lock \in [{"kw", "vec"} -> Requests \cup {"free"}]
  /\ pc \in [Threads -> Places]
  /\ pc["background"] \notin {"embed", "embedding", "wait", "locked", "in"}
  /\ holds \in [Threads -> {"none", "kw", "vec"}]
  /\ judged \in {"unknown", "no", "yes"} /\ retry \in {None} \cup 1..saves
  /\ work \in [Workers -> Runs]
  /\ \A w \in Workers :
       /\ work[w].todo \subseteq 1..saves /\ work[w].half <= saves /\ work[w].since <= saves
       /\ work[w].step \in {"permit", "delete"} => work[w].todo # {}
       /\ work[w].step = "insert" => work[w].half # 0

\* The slot: who opens is in it, and what is known of the index goes with the handle.
SlotHeld ==
  /\ \A t \in Threads : pc[t] \in {"open", "reopen"} => slotLock = t
  /\ cached = "vec" => judged = "yes"
  /\ pc["background"] = "reopen" => judged # "yes" /\ retry # None
  /\ pc["background"] = "retry" => judged = "yes" \/ retry # None

Missing == (1..saves) \ vec

\* Before the first handle with the index nothing is being re-embedded, and what is missing was
\* saved since the index was missed, if it is not a fresh one.
Unserved ==
  cached # "vec" =>
    /\ ~running /\ ~marker /\ judged # "yes"
    /\ \A w \in Workers : work[w] = Idle
    /\ \A r \in Requests : holds[r] # "vec"
    /\ index # "fresh" => 1..(IF retry = None THEN saves ELSE retry) \subseteq vec
    /\ cached = "kw" => retry # None
    /\ cached = "none" => retry \in {None, saves} /\ \A r \in Requests : holds[r] # "kw"

\* What a re-embedder will still see to.
Owes(w) ==
  CASE work[w].step \in {"drain", "list"} -> (work[w].since + 1)..saves
    [] work[w].step \in {"next", "permit", "delete"} -> work[w].todo
    [] work[w].step = "insert" -> work[w].todo \cup {work[w].half}
    [] OTHER -> {}

\* From then on what is missing is owed by the one re-embedder that runs, and a request on the
\* old handle is waited for.
Served ==
  cached = "vec" =>
    /\ index = "whole"
    /\ \E w \in Workers : Missing \subseteq Owes(w) /\ \A v \in Workers \ {w} : work[v] = Idle
    /\ work["backfill"].step # "drain"
    /\ \A r \in Requests : holds[r] = "kw" => work["background"].step = "drain"

\* A stop, or a wait that ran out, ends the promise.
HealInv == (closing => draining) /\ (~draining /\ ~late => Unserved /\ Served)


\* The facts of IndexProofs, for the index that MCServe composes.
IndexFacts == INSTANCE IndexProofs WITH
  MaxUri <- 3, Scoped <- {1, 3}, Procs <- {Server}, Servers <- {Server},
  CrashPoints <- {"torn?", "probe", "serving"}, CrashLeaves <- {"whole", "torn", "damaged"},
  LosesUnflushed <- TRUE, MayFail <- {"probe", "move"},
  MaxCrashes <- 2, MaxErrors <- 1, MaxStarts <- 3, vec <- embedded


\* What a re-embedder is before and after its run.
LEMMA IdleRun ==
  /\ Idle \in Runs /\ Idle.step = "idle" /\ Idle.todo = {} /\ Idle.half = 0 /\ Idle.since = 0
  /\ ~Idle.full
BY DEF Idle, Runs, WorkPlaces

\* An open is the first handle with the index, or the beginning of an outage.
LEMMA OpenTenantHeal ==
  ASSUME StopInv, Domains, SlotHeld, HealInv, NEW t \in Threads, OpenTenant(t)
  PROVE  Domains' /\ HealInv'
<1>1. /\ pc[t] = "open" /\ slotLock = t /\ slotLock' = "free" /\ cached = "none"
      /\ UNCHANGED <<require, saves, vec, lock, permits, stop>>
  BY DEF OpenTenant, Opened, data, StopInv, Locks
<1>2. PICK to \in {"tick", "idle", "embed"} :
        /\ pc' = [pc EXCEPT ![t] = to] /\ (t = "background" => to = "tick")
  BY DEF OpenTenant, Goto, Leave
<1>3. /\ pc' \in [Threads -> Places]
      /\ pc'["background"] \notin {"embed", "embedding", "wait", "locked", "in"}
  BY <1>2 DEF Domains, Places
<1>4. judged' \in {"yes", "no"} /\ retry' \in {None} \cup 1..saves
  BY DEF OpenTenant, Note, Domains
<1>5. /\ Backfill \in Runs /\ Backfill.step = "list" /\ Backfill.since = 0
      /\ Backfill.todo = {} /\ Backfill.half = 0
  BY IdleRun DEF Backfill, Runs, WorkPlaces
<1>6. \/ UNCHANGED workers
      \/ /\ ~running /\ running' = TRUE /\ work' = [work EXCEPT !["backfill"] = Backfill]
         /\ index # "shut" /\ marker'
  BY DEF OpenTenant, StartBackfill
<1>7. work' \in [Workers -> Runs] /\ \A w \in Workers : work'[w] \in {work[w], Backfill}
  <2>1. work' = work \/ work' = [work EXCEPT !["backfill"] = Backfill]
    BY <1>6 DEF workers
  <2> QED
    <3>1. work \in [Workers -> Runs]
      BY DEF Domains
    <3> QED
      BY <1>5, <2>1, <3>1
<1>8. index' \in {"whole", "shut"} /\ marker' \in BOOLEAN
  BY DEF OpenTenant, Opened, Domains, data
<1>9. holds' \in [Threads -> {"none", "kw", "vec"}]
  BY DEF OpenTenant, Domains
<1>10. Domains'
  BY <1>1, <1>3, <1>4, <1>5, <1>7, <1>8, <1>9 DEF Domains
<1>11. ASSUME ~draining, ~late PROVE Unserved' /\ Served'
  <2>1. /\ ~running /\ ~marker
        /\ index # "fresh" => 1..(IF retry = None THEN saves ELSE retry) \subseteq vec
        /\ \A w \in Workers : work[w] = Idle
        /\ retry \in {None, saves} /\ \A r \in Requests : holds[r] = "none"
    BY <1>1, <1>11 DEF HealInv, Unserved, StopInv, Typed, Threads
  <2>2. CASE index # "shut"
    <3>1. cached' = "vec" /\ index' = "whole" /\ (marker' <=> index = "fresh")
      <4>1. /\ cached' = "vec" /\ index' = "whole"
            /\ marker' = (marker \/ (index = "fresh" /\ saves > 0))
        BY <2>2 DEF OpenTenant, Opened
      <4>2. saves > 0
        BY DEF Domains
      <4> QED
        BY <2>1, <4>1, <4>2
    <3>2. \A r \in Requests : holds'[r] # "kw"
      BY <2>1, <2>2 DEF OpenTenant, Domains, Threads
    <3>3. CASE index = "fresh"
      <4>1. work'["backfill"] = Backfill /\ work'["background"] = Idle
        <5>1. work' = [work EXCEPT !["backfill"] = Backfill]
          BY <2>1, <2>2, <3>1, <3>3 DEF OpenTenant, StartBackfill
        <5> QED
          BY <2>1, <5>1 DEF StopInv, Typed, Workers
      <4>2. Missing' \subseteq Owes("backfill")'
        BY <1>1, <1>5, <4>1 DEF Missing, Owes, Domains
      <4> QED
        BY <1>5, <3>1, <3>2, <4>1, <4>2 DEF Unserved, Served, Workers
    <3>4. CASE index # "fresh"
      <4>1. UNCHANGED workers
        BY <1>6, <2>2, <3>1, <3>4
      <4>2. Missing' = {}
        BY <1>1, <2>1, <3>4 DEF Missing, Domains, None
      <4> QED
        BY <2>1, <3>1, <3>2, <4>1, <4>2 DEF Unserved, Served, Workers, workers, Idle
    <3> QED
      BY <3>3, <3>4
  <2>3. CASE index = "shut"
    <3>1. /\ UNCHANGED <<data, workers>> /\ judged' = "no"
          /\ retry' = (IF retry = None THEN saves ELSE retry)
      BY <2>3 DEF OpenTenant, Note, data, workers
    <3>2. 1..retry' \subseteq vec /\ retry' = saves
      BY <2>1, <2>3, <3>1 DEF None, Domains
    <3>3. \/ cached' = "kw" /\ holds' \in {[holds EXCEPT ![t] = "kw"], [holds EXCEPT ![t] = "none"]}
          \/ cached' = "none" /\ holds' = holds
      BY <1>1, <2>3 DEF OpenTenant
    <3>4. \A r \in Requests : holds'[r] # "vec" /\ (cached' = "none" => holds'[r] # "kw")
      BY <2>1, <3>3 DEF Domains, Threads
    <3> QED
      BY <1>1, <2>1, <2>3, <3>1, <3>2, <3>3, <3>4 DEF Unserved, Served, data, workers, None, Domains
  <2> QED
    BY <2>2, <2>3
<1> QED
  BY <1>1, <1>10, <1>11 DEF HealInv, stop

\* A heal takes over what the outage left: all of a fresh index, else what was saved since.
LEMMA ReopenHeal ==
  ASSUME StopInv, Domains, SlotHeld, HealInv, Reopen
  PROVE  Domains' /\ HealInv'
<1> DEFINE full == marker' /\ ~running
           heal == [Idle EXCEPT !.step = "drain", !.since = Since(full), !.full = full]
<1>1. /\ pc["background"] = "reopen" /\ slotLock' = "free" /\ "background" \in Threads
      /\ UNCHANGED <<require, saves, vec, lock, permits, holds, stop>>
      /\ judged # "yes" /\ cached # "vec" /\ retry \in 1..saves
  BY DEF Reopen, Opened, data, Threads, SlotHeld, Domains, None
<1>2. CASE closing \/ index = "shut"
  <2>1. /\ pc' = [pc EXCEPT !["background"] = "tick"] /\ UNCHANGED <<cached, health, workers>>
        /\ index' \in {index, "whole"} /\ (index = "shut" => marker' = marker /\ index' = index)
        /\ marker' \in BOOLEAN
    BY <1>2 DEF Reopen, Opened, Goto, data, Domains
  <2>2. Domains'
    BY <1>1, <2>1 DEF Domains, health, workers, Places
  <2>3. HealInv'
    BY <1>1, <1>2, <2>1 DEF HealInv, Unserved, Served, Missing, Owes, Domains, health, workers, stop
  <2> QED
    BY <2>2, <2>3
<1>3. CASE ~closing /\ index # "shut"
  <2>1. /\ pc' = [pc EXCEPT !["background"] = "heal"] /\ cached' = "vec" /\ index' = "whole"
        /\ judged' = "yes" /\ retry' = None
        /\ marker' = (marker \/ (index = "fresh" /\ saves > 0))
        /\ work' = [work EXCEPT !["background"] = heal]
    BY <1>3 DEF Reopen, Opened, Note, Goto
  <2>3. full \in BOOLEAN /\ Since(full) \in 0..saves /\ (~full => Since(full) = retry)
        /\ (full => Since(full) = 0)
    BY <1>1, <2>1 DEF Since, Domains, StopInv, Typed
  <2>4. marker' \in BOOLEAN
    BY <2>1 DEF Domains
  <2> HIDE DEF full
  <2>5. /\ heal \in Runs /\ heal.step = "drain" /\ heal.todo = {} /\ heal.half = 0
        /\ heal.since = Since(full) /\ heal.full = full
    <3>1. Since(full) \in Nat
      BY <2>3 DEF Domains
    <3>2. heal \in Runs
      BY IdleRun, <2>3, <3>1 DEF Runs, WorkPlaces
    <3> QED
      BY IdleRun, <3>2 DEF Runs
  <2> HIDE DEF heal
  <2>6. /\ work' \in [Workers -> Runs] /\ work'["background"] = heal
        /\ work'["backfill"] = work["backfill"]
    BY <2>1, <2>5 DEF Domains, Workers
  <2>7. Domains'
    BY <1>1, <2>1, <2>3, <2>4, <2>5, <2>6 DEF Domains, Places, Workers
  <2>8. ASSUME ~draining, ~late PROVE Unserved' /\ Served'
    <3>1. /\ ~running /\ ~marker
          /\ work["backfill"] = Idle
          /\ index # "fresh" => 1..retry \subseteq vec
      BY <1>1, <2>8 DEF HealInv, Unserved, None, Workers
    <3>2. full <=> index = "fresh"
      <4>1. saves > 0
        BY DEF Domains
      <4> QED
        BY <2>1, <3>1, <4>1 DEF full
    <3>3. Missing \subseteq (Since(full) + 1)..saves
      BY <1>1, <2>3, <3>1, <3>2 DEF Missing, Domains
    <3>4. Missing' \subseteq Owes("background")'
      BY <1>1, <2>5, <2>6, <3>3 DEF Missing, Owes
    <3> QED
      BY <1>1, <2>1, <2>5, <2>6, <3>1, <3>4, IdleRun DEF Unserved, Served, Workers
  <2> QED
    BY <1>1, <2>7, <2>8 DEF HealInv, stop
<1> QED
  BY <1>2, <1>3

\* The constants that MCServe gives the index are of the kinds IndexLifecycle asks for.
LEMMA IndexAssumed == IndexFacts!BoundsAssumption /\ IndexFacts!FaultsAssumption
BY DEF IndexFacts!BoundsAssumption, IndexFacts!FaultsAssumption, IndexFacts!Uris,
   IndexFacts!Phases, IndexFacts!Conditions, IndexFacts!Operations

\* The least record of a list is one of it.
LEMMA LeastRecord ==
  ASSUME NEW S \in SUBSET Nat, S # {}
  PROVE  Min(S) \in S
<1>1. Min(S) = IndexFacts!Min(S)
  BY DEF Min, IndexFacts!Min
<1> QED
  BY <1>1, IndexFacts!MinOf, IndexAssumed

\* A record whose vectors are deleted is still owed, as the one half done.
LEMMA DeleteOldHeal ==
  ASSUME StopInv, Domains, HealInv, NEW w \in Workers, DeleteOld(w)
  PROVE  Domains' /\ HealInv'
<1> DEFINE n == Min(work[w].todo)
           new == [work[w] EXCEPT !.step = "insert", !.half = n, !.todo = @ \ {n}]
<1>1. n \in work[w].todo /\ n \in 1..saves
  <2>1. work[w].todo \subseteq 1..saves /\ work[w].todo # {}
    BY DEF DeleteOld, Domains
  <2> QED
    BY <2>1, LeastRecord DEF Domains
<1> HIDE DEF n
<1>2. /\ work' = [work EXCEPT ![w] = new] /\ vec' = vec \ {n}
      /\ UNCHANGED <<require, index, saves, marker, handles, pc, health, running, stop>>
      /\ work[w].step = "delete"
  BY DEF DeleteOld, n
<1>3. /\ new \in Runs /\ new.step = "insert" /\ new.half = n /\ new.todo \subseteq work[w].todo
      /\ new.since = work[w].since /\ new.todo = work[w].todo \ {n}
  <2>1. /\ new.step = "insert" /\ new.half = n /\ new.since = work[w].since
        /\ new.todo = work[w].todo \ {n}
    BY DEF StopInv, Typed, WorkFields
  <2>2. new \in Runs
    <3>1. work[w] \in Runs /\ n \in Nat
      BY <1>1 DEF Domains
    <3> QED
      BY <3>1 DEF Runs, WorkPlaces
  <2> QED
    BY <2>1, <2>2
<1> HIDE DEF new
<1>4. Domains'
  BY <1>1, <1>2, <1>3 DEF Domains, handles, health
<1>5. ASSUME ~draining, ~late PROVE Unserved' /\ Served'
  <2>1. cached = "vec"
    BY <1>2, <1>5, IdleRun DEF HealInv, Unserved
  <2>2. Missing \subseteq work[w].todo /\ \A v \in Workers \ {w} : work[v] = Idle
    BY <1>2, <1>5, <2>1, IdleRun DEF HealInv, Served, Owes
  <2>3. work'[w] = new /\ \A v \in Workers \ {w} : work'[v] = Idle
    BY <1>2, <2>2 DEF StopInv, Typed
  <2>4. Missing' \subseteq Owes(w)'
    BY <1>1, <1>2, <1>3, <2>2, <2>3 DEF Missing, Owes
  <2> QED
    BY <1>2, <1>3, <1>5, <2>1, <2>3, <2>4, IdleRun
       DEF HealInv, Unserved, Served, handles, Workers, health
<1> QED
  BY <1>2, <1>4, <1>5 DEF HealInv, stop

\* Every step keeps each part.
LEMMA StepDomains ==
  ASSUME StopInv, Domains, SlotHeld, HealInv, [Next]_vars
  PROVE  Domains'
<1>1. ASSUME Repair
      PROVE  Domains'
  BY ServerAssumption, <1>1 DEF Repair, Domains, StopInv, Typed, Locks, handles, health, workers,
     stop, Threads, Workers, None, Places, Runs, WorkFields, Handles, WorkPlaces
<1>2. ASSUME Boot
      PROVE  Domains'
  BY ServerAssumption, <1>2 DEF Boot, Domains, StopInv, Typed, Locks, Goto, data, handles, health,
     workers, stop, Threads, Workers, None, Places, Runs, WorkFields, Handles, WorkPlaces
<1>3. ASSUME Due
      PROVE  Domains'
  BY ServerAssumption, <1>3 DEF Due, Domains, StopInv, Typed, Locks, Goto, data, handles, health,
     workers, stop, None, Threads, Workers, Places, Runs, WorkFields, Handles, WorkPlaces
<1>4. ASSUME EnterRetry
      PROVE  Domains'
  BY ServerAssumption, <1>4 DEF EnterRetry, Domains, StopInv, Typed, Locks, Goto, data, health,
     workers, stop, None, Threads, Workers, Places, Runs, WorkFields, Handles, WorkPlaces
<1>5. ASSUME HealDrain
      PROVE  Domains'
  BY ServerAssumption, <1>5 DEF HealDrain, Domains, StopInv, Typed, Locks, data, handles, health,
     Threads, Workers, None, Places, Runs, WorkFields, Handles, WorkPlaces
<1>6. ASSUME Signal
      PROVE  Domains'
  BY ServerAssumption, <1>6 DEF Signal, Domains, StopInv, Typed, Locks, data, handles, health,
     workers, Threads, Workers, None, Places, Runs, WorkFields, Handles, WorkPlaces
<1>7. ASSUME BeginClose
      PROVE  Domains'
  BY ServerAssumption, <1>7 DEF BeginClose, Domains, StopInv, Typed, Locks, data, handles, health,
     workers, Threads, Workers, None, Places, Runs, WorkFields, Handles, WorkPlaces
<1>8. ASSUME CloseBackfills
      PROVE  Domains'
  BY ServerAssumption, <1>8 DEF CloseBackfills, Domains, StopInv, Typed, Locks, data, handles,
     health, workers, Threads, Workers, None, Places, Runs, WorkFields, Handles, WorkPlaces
<1>9. ASSUME CloseTake
      PROVE  Domains'
  BY ServerAssumption, <1>9 DEF CloseTake, Domains, StopInv, Typed, Locks, data, health, workers,
     Threads, Workers, None, Places, Runs, WorkFields, Handles, WorkPlaces
<1>10. ASSUME CloseFlush
      PROVE  Domains'
  BY ServerAssumption, <1>10 DEF CloseFlush, Domains, StopInv, Typed, Locks, data, handles, health,
     workers, Threads, Workers, None, Places, Runs, WorkFields, Handles, WorkPlaces
<1>11. ASSUME CloseSkip
      PROVE  Domains'
  BY ServerAssumption, <1>11 DEF CloseSkip, Domains, StopInv, Typed, Locks, data, handles, health,
     workers, Threads, Workers, None, Places, Runs, WorkFields, Handles, WorkPlaces
<1>12. ASSUME NEW r \in Requests, Arrive(r)
      PROVE  Domains'
  BY ServerAssumption, <1>12 DEF Arrive, Domains, StopInv, Typed, Locks, Goto, data, handles,
     health, workers, stop, Threads, Workers, None, Places, Runs, WorkFields, Handles, WorkPlaces
<1>13. ASSUME NEW r \in Requests, TakePermit(r)
      PROVE  Domains'
  BY ServerAssumption, <1>13 DEF TakePermit, Domains, StopInv, Typed, Locks, Goto, data, health,
     workers, stop, Threads, Workers, None, Places, Runs, WorkFields, Handles, WorkPlaces
<1>14. ASSUME NEW r \in Requests, Embedded(r)
      PROVE  Domains'
  BY ServerAssumption, <1>14 DEF Embedded, Domains, StopInv, Typed, Locks, Goto, data, health,
     workers, stop, Drop, Threads, Workers, None, Places, Runs, WorkFields, Handles, WorkPlaces
<1>15. ASSUME NEW r \in Requests, TakeLock(r)
      PROVE  Domains'
  BY ServerAssumption, <1>15 DEF TakeLock, Domains, StopInv, Typed, Locks, Goto, data, health,
     workers, stop, Threads, Workers, None, Places, Runs, WorkFields, Handles, WorkPlaces
<1>16. ASSUME NEW r \in Requests, CheckAgain(r)
      PROVE  Domains'
  BY ServerAssumption, <1>16 DEF CheckAgain, Domains, StopInv, Typed, Locks, Goto, data, health,
     workers, stop, Drop, GoesOn, Threads, Workers, None, Places, Runs, WorkFields, Handles,
     WorkPlaces
<1>17. ASSUME NEW r \in Requests, SaveRecord(r)
      PROVE  Domains'
  BY ServerAssumption, <1>17 DEF SaveRecord, Domains, StopInv, Typed, Locks, Goto, health, workers,
     stop, Drop, Threads, Workers, None, Places, Runs, WorkFields, Handles, WorkPlaces
<1>18. ASSUME NEW t \in Threads, CheckClosing(t)
      PROVE  Domains'
  BY ServerAssumption, <1>18 DEF CheckClosing, Domains, StopInv, Typed, Locks, Goto, data, handles,
     health, workers, stop, Leave, Threads, Workers, None, Places, Runs, WorkFields, Handles,
     WorkPlaces
<1>19. ASSUME NEW t \in Threads, EnterSlot(t)
      PROVE  Domains'
  BY ServerAssumption, <1>19 DEF EnterSlot, Domains, StopInv, Typed, Locks, Goto, data, health,
     workers, stop, Threads, Workers, None, Places, Runs, WorkFields, Handles, WorkPlaces
<1>20. ASSUME NEW w \in Workers, List(w)
      PROVE  Domains'
  BY ServerAssumption, <1>20 DEF List, Domains, StopInv, Typed, Locks, data, handles, health, stop,
     Threads, Workers, None, Places, Runs, WorkFields, Handles, WorkPlaces
<1>21. ASSUME NEW w \in Workers, BeginRecord(w)
      PROVE  Domains'
  BY ServerAssumption, <1>21 DEF BeginRecord, Domains, StopInv, Typed, Locks, data, handles,
     health, stop, Threads, Workers, None, Places, Runs, WorkFields, Handles, WorkPlaces
<1>22. ASSUME NEW w \in Workers, TakeRecord(w)
      PROVE  Domains'
  BY ServerAssumption, <1>22 DEF TakeRecord, Domains, StopInv, Typed, Locks, data, health, stop,
     Threads, Workers, None, Places, Runs, WorkFields, Handles, WorkPlaces
<1>23. ASSUME NEW w \in Workers, InsertNew(w)
      PROVE  Domains'
  BY ServerAssumption, <1>23 DEF InsertNew, Domains, StopInv, Typed, Locks, health, stop,
     GivesPermit, Threads, Workers, None, Places, Runs, WorkFields, Handles, WorkPlaces
<1>24. ASSUME NEW w \in Workers, EndRun(w)
      PROVE  Domains'
  BY ServerAssumption, <1>24 DEF EndRun, Domains, StopInv, Typed, Locks, Goto, handles, health,
     stop, Idle, Threads, Workers, None, Places, Runs, WorkFields, Handles, WorkPlaces
<1>25. ASSUME NEW t \in Threads, OpenTenant(t) PROVE Domains'
  BY <1>25, OpenTenantHeal
<1>26. ASSUME Reopen PROVE Domains'
  BY <1>26, ReopenHeal
<1>27. ASSUME NEW w \in Workers, DeleteOld(w) PROVE Domains'
  BY <1>27, DeleteOldHeal
<1>28. CASE UNCHANGED vars
  BY <1>28 DEF vars, Domains
<1> QED
  BY <1>1, <1>2, <1>3, <1>4, <1>5, <1>6, <1>7, <1>8, <1>9, <1>10, <1>11, <1>12, <1>13, <1>14,
     <1>15, <1>16, <1>17, <1>18, <1>19, <1>20, <1>21, <1>22, <1>23, <1>24, <1>25, <1>26, <1>27,
     <1>28 DEF Next, Request, Memory, Background, Reembed, Closer, Threads, Workers

LEMMA StepSlotHeld ==
  ASSUME StopInv, Domains, SlotHeld, [Next]_vars
  PROVE  SlotHeld'
<1>1. ASSUME Repair \/ Signal \/ Boot \/ Due \/ EnterRetry \/ Reopen \/ HealDrain
      PROVE  SlotHeld'
  BY ServerAssumption, <1>1 DEF Repair, Signal, Boot, Due, EnterRetry, Reopen, HealDrain, Domains,
     SlotHeld, StopInv, Typed, Locks, handles, health, workers, stop, data, Goto, None, Opened,
     Note, Since, Idle, Threads, Workers, Places, Runs, WorkFields, Handles, WorkPlaces
<1>2. ASSUME BeginClose \/ CloseBackfills \/ CloseTake \/ CloseFlush \/ CloseSkip
      PROVE  SlotHeld'
  BY ServerAssumption, <1>2 DEF BeginClose, CloseBackfills, CloseTake, CloseFlush, CloseSkip,
     Domains, SlotHeld, StopInv, Typed, Locks, data, handles, health, workers, Threads, Workers,
     None, Places, Runs, WorkFields, Handles, WorkPlaces
<1>3. ASSUME NEW r \in Requests, Arrive(r) \/ TakePermit(r) \/ Embedded(r) \/ TakeLock(r) \/
      CheckAgain(r) \/ SaveRecord(r)
      PROVE  SlotHeld'
  BY ServerAssumption, <1>3 DEF Arrive, TakePermit, Embedded, TakeLock, CheckAgain, SaveRecord,
     Domains, SlotHeld, StopInv, Typed, Locks, Goto, data, handles, health, workers, stop, Drop,
     GoesOn, Threads, Workers, None, Places, Runs, WorkFields, Handles, WorkPlaces
<1>4. ASSUME NEW t \in Threads, CheckClosing(t) \/ EnterSlot(t)
      PROVE  SlotHeld'
  BY ServerAssumption, <1>4 DEF CheckClosing, EnterSlot, Domains, SlotHeld, StopInv, Typed, Locks,
     Goto, data, handles, health, workers, stop, Leave, Threads, Workers, None, Places, Runs,
     WorkFields, Handles, WorkPlaces
<1>5. ASSUME NEW t \in Threads, OpenTenant(t)
      PROVE  SlotHeld'
  BY ServerAssumption, <1>5 DEF OpenTenant, Domains, SlotHeld, StopInv, Typed, Locks, Goto, data,
     workers, stop, Opened, Note, Leave, StartBackfill, Threads, Workers, None, Places, Runs,
     WorkFields, Handles, Backfill, WorkPlaces, Idle
<1>6. ASSUME NEW w \in Workers, List(w) \/ BeginRecord(w) \/ TakeRecord(w) \/ DeleteOld(w) \/
      InsertNew(w)
      PROVE  SlotHeld'
  BY ServerAssumption, <1>6 DEF List, BeginRecord, TakeRecord, DeleteOld, InsertNew, Domains,
     SlotHeld, StopInv, Typed, Locks, data, handles, health, stop, GivesPermit, Threads, Workers,
     None, Places, Runs, WorkFields, Handles, WorkPlaces
<1>7. ASSUME NEW w \in Workers, EndRun(w)
      PROVE  SlotHeld'
  BY ServerAssumption, <1>7 DEF EndRun, Domains, SlotHeld, StopInv, Typed, Locks, Goto, handles,
     health, stop, Idle, Threads, Workers, None, Places, Runs, WorkFields, Handles, WorkPlaces
<1>8. CASE UNCHANGED vars
  BY <1>8 DEF vars, SlotHeld
<1> QED
  BY <1>1, <1>2, <1>3, <1>4, <1>5, <1>6, <1>7, <1>8 DEF Next, Request, Memory, Background, Reembed,
     Closer, Threads, Workers

LEMMA StepHeal ==
  ASSUME StopInv, Domains, SlotHeld, HealInv, [Next]_vars
  PROVE  HealInv'
<1>1. ASSUME Repair
      PROVE  HealInv'
  BY ServerAssumption, <1>1 DEF Repair, Domains, SlotHeld, HealInv, Stopping, StopInv, Typed,
     Locks, handles, health, workers, stop, Threads, Workers, None, Places, Runs, Unserved, Served,
     Handles, WorkFields, WorkPlaces, Idle, Owes, Missing
<1>2. ASSUME Boot
      PROVE  HealInv'
  BY ServerAssumption, <1>2 DEF Boot, Domains, SlotHeld, HealInv, Stopping, StopInv, Typed, Locks,
     Goto, data, handles, health, workers, stop, Threads, Workers, None, Places, Runs, Unserved,
     Served, Handles, WorkFields, WorkPlaces, Idle, Owes, Missing
<1>3. ASSUME Due
      PROVE  HealInv'
  BY ServerAssumption, <1>3 DEF Due, Domains, SlotHeld, HealInv, Stopping, StopInv, Typed, Locks,
     Goto, data, handles, health, workers, stop, None, Threads, Workers, Places, Runs, Unserved,
     Served, Handles, WorkFields, WorkPlaces, Idle, Owes, Missing
<1>4. ASSUME EnterRetry
      PROVE  HealInv'
  BY ServerAssumption, <1>4 DEF EnterRetry, Domains, SlotHeld, HealInv, Stopping, StopInv, Typed,
     Locks, Goto, data, health, workers, stop, None, Threads, Workers, Places, Runs, Unserved,
     Served, Handles, WorkFields, WorkPlaces, Idle, Owes, Missing
<1>5. ASSUME HealDrain
      PROVE  HealInv'
  BY ServerAssumption, <1>5 DEF HealDrain, Domains, SlotHeld, HealInv, Stopping, StopInv, Typed,
     Locks, data, handles, health, Threads, Workers, None, Places, Runs, Unserved, Served, Handles,
     WorkFields, WorkPlaces, Idle, Owes, Missing
<1>6. ASSUME Signal
      PROVE  HealInv'
  BY ServerAssumption, <1>6 DEF Signal, Domains, SlotHeld, HealInv, Stopping, StopInv, Typed,
     Locks, data, handles, health, workers, Threads, Workers, None, Places, Runs, Unserved, Served,
     Handles, WorkFields, WorkPlaces, Idle, Owes, Missing
<1>7. ASSUME BeginClose
      PROVE  HealInv'
  BY ServerAssumption, <1>7 DEF BeginClose, Domains, SlotHeld, HealInv, Stopping, StopInv, Typed,
     Locks, data, handles, health, workers, Threads, Workers, None, Places, Runs, Unserved, Served,
     Handles, WorkFields, WorkPlaces, Idle, Owes, Missing
<1>8. ASSUME CloseBackfills
      PROVE  HealInv'
  BY ServerAssumption, <1>8 DEF CloseBackfills, Domains, SlotHeld, HealInv, Stopping, StopInv,
     Typed, Locks, data, handles, health, workers, Threads, Workers, None, Places, Runs, Unserved,
     Served, Handles, WorkFields, WorkPlaces, Idle, Owes, Missing
<1>9. ASSUME CloseTake
      PROVE  HealInv'
  BY ServerAssumption, <1>9 DEF CloseTake, Domains, SlotHeld, HealInv, Stopping, StopInv, Typed,
     Locks, data, health, workers, Threads, Workers, None, Places, Runs, Unserved, Served, Handles,
     WorkFields, WorkPlaces, Idle, Owes, Missing
<1>10. ASSUME CloseFlush
      PROVE  HealInv'
  BY ServerAssumption, <1>10 DEF CloseFlush, Domains, SlotHeld, HealInv, Stopping, StopInv, Typed,
     Locks, data, handles, health, workers, Threads, Workers, None, Places, Runs, Unserved, Served,
     Handles, WorkFields, WorkPlaces, Idle, Owes, Missing
<1>11. ASSUME CloseSkip
      PROVE  HealInv'
  BY ServerAssumption, <1>11 DEF CloseSkip, Domains, SlotHeld, HealInv, Stopping, StopInv, Typed,
     Locks, data, handles, health, workers, Threads, Workers, None, Places, Runs, Unserved, Served,
     Handles, WorkFields, WorkPlaces, Idle, Owes, Missing
<1>12. ASSUME NEW r \in Requests, Arrive(r)
      PROVE  HealInv'
  BY ServerAssumption, <1>12 DEF Arrive, Domains, SlotHeld, HealInv, Stopping, StopInv, Typed,
     Locks, Goto, data, handles, health, workers, stop, Threads, Workers, None, Places, Runs,
     Unserved, Served, Handles, WorkFields, WorkPlaces, Idle, Owes, Missing
<1>13. ASSUME NEW r \in Requests, TakePermit(r)
      PROVE  HealInv'
  BY ServerAssumption, <1>13 DEF TakePermit, Domains, SlotHeld, HealInv, Stopping, StopInv, Typed,
     Locks, Goto, data, health, workers, stop, Threads, Workers, None, Places, Runs, Unserved,
     Served, Handles, WorkFields, WorkPlaces, Idle, Owes, Missing
<1>14. ASSUME NEW r \in Requests, Embedded(r)
      PROVE  HealInv'
  BY ServerAssumption, <1>14 DEF Embedded, Domains, SlotHeld, HealInv, Stopping, StopInv, Typed,
     Locks, Goto, data, health, workers, stop, Drop, Threads, Workers, None, Places, Runs,
     Unserved, Served, Handles, WorkFields, WorkPlaces, Idle, Owes, Missing
<1>15. ASSUME NEW r \in Requests, TakeLock(r)
      PROVE  HealInv'
  BY ServerAssumption, <1>15 DEF TakeLock, Domains, SlotHeld, HealInv, Stopping, StopInv, Typed,
     Locks, Goto, data, health, workers, stop, Threads, Workers, None, Places, Runs, Unserved,
     Served, Handles, WorkFields, WorkPlaces, Idle, Owes, Missing
<1>16. ASSUME NEW r \in Requests, CheckAgain(r)
      PROVE  HealInv'
  BY ServerAssumption, <1>16 DEF CheckAgain, Domains, SlotHeld, HealInv, Stopping, StopInv, Typed,
     Locks, Goto, data, health, workers, stop, Drop, GoesOn, Threads, Workers, None, Places, Runs,
     Unserved, Served, Handles, WorkFields, WorkPlaces, Idle, Owes, Missing
<1>17. ASSUME NEW r \in Requests, SaveRecord(r)
      PROVE  HealInv'
  BY ServerAssumption, <1>17 DEF SaveRecord, Domains, SlotHeld, HealInv, Stopping, StopInv, Typed,
     Locks, Goto, health, workers, stop, Drop, Threads, Workers, None, Places, Runs, Unserved,
     Served, Handles, WorkFields, WorkPlaces, Idle, Owes, Missing
<1>18. ASSUME NEW t \in Threads, CheckClosing(t)
      PROVE  HealInv'
  BY ServerAssumption, <1>18 DEF CheckClosing, Domains, SlotHeld, HealInv, Stopping, StopInv,
     Typed, Locks, Goto, data, handles, health, workers, stop, Leave, Threads, Workers, None,
     Places, Runs, Unserved, Served, Handles, WorkFields, WorkPlaces, Idle, Owes, Missing
<1>19. ASSUME NEW t \in Threads, EnterSlot(t)
      PROVE  HealInv'
  BY ServerAssumption, <1>19 DEF EnterSlot, Domains, SlotHeld, HealInv, Stopping, StopInv, Typed,
     Locks, Goto, data, health, workers, stop, Threads, Workers, None, Places, Runs, Unserved,
     Served, Handles, WorkFields, WorkPlaces, Idle, Owes, Missing
<1>20. ASSUME NEW w \in Workers, List(w)
      PROVE  HealInv'
  BY ServerAssumption, <1>20 DEF List, Domains, SlotHeld, HealInv, Stopping, StopInv, Typed, Locks,
     data, handles, health, stop, Threads, Workers, None, Places, Runs, Unserved, Served, Handles,
     WorkFields, WorkPlaces, Idle, Owes, Missing
<1>21. ASSUME NEW w \in Workers, BeginRecord(w)
      PROVE  HealInv'
  BY ServerAssumption, <1>21 DEF BeginRecord, Domains, SlotHeld, HealInv, Stopping, StopInv, Typed,
     Locks, data, handles, health, stop, Threads, Workers, None, Places, Runs, Unserved, Served,
     Handles, WorkFields, WorkPlaces, Idle, Owes, Missing
<1>22. ASSUME NEW w \in Workers, TakeRecord(w)
      PROVE  HealInv'
  BY ServerAssumption, <1>22 DEF TakeRecord, Domains, SlotHeld, HealInv, Stopping, StopInv, Typed,
     Locks, data, health, stop, Threads, Workers, None, Places, Runs, Unserved, Served, Handles,
     WorkFields, WorkPlaces, Idle, Owes, Missing
<1>23. ASSUME NEW w \in Workers, InsertNew(w)
      PROVE  HealInv'
  BY ServerAssumption, <1>23 DEF InsertNew, Domains, SlotHeld, HealInv, Stopping, StopInv, Typed,
     Locks, health, stop, GivesPermit, Threads, Workers, None, Places, Runs, Unserved, Served,
     Handles, WorkFields, WorkPlaces, Idle, Owes, Missing
<1>24. ASSUME NEW w \in Workers, EndRun(w)
      PROVE  HealInv'
  BY ServerAssumption, <1>24 DEF EndRun, Domains, SlotHeld, HealInv, Stopping, StopInv, Typed,
     Locks, Goto, handles, health, stop, Idle, Threads, Workers, None, Places, Runs, Unserved,
     Served, Handles, WorkFields, WorkPlaces, Owes, Missing
<1>25. ASSUME NEW t \in Threads, OpenTenant(t) PROVE HealInv'
  BY <1>25, OpenTenantHeal
<1>26. ASSUME Reopen PROVE HealInv'
  BY <1>26, ReopenHeal
<1>27. ASSUME NEW w \in Workers, DeleteOld(w) PROVE HealInv'
  BY <1>27, DeleteOldHeal
<1>28. CASE UNCHANGED vars
  BY <1>28 DEF vars, HealInv, Unserved, Served, Owes, Missing
<1> QED
  BY <1>1, <1>2, <1>3, <1>4, <1>5, <1>6, <1>7, <1>8, <1>9, <1>10, <1>11, <1>12, <1>13, <1>14,
     <1>15, <1>16, <1>17, <1>18, <1>19, <1>20, <1>21, <1>22, <1>23, <1>24, <1>25, <1>26, <1>27,
     <1>28 DEF Next, Request, Memory, Background, Reembed, Closer, Threads, Workers

\* Who has a permit: who embeds before the lock, and a re-embedder in a record.
Embedding == {t \in Threads : pc[t] = "embedding"}
Rewriting == {w \in Workers : work[w].step \in {"delete", "insert"}}
Limits ==
  /\ permits = Embedding \cup Rewriting
  /\ IsFiniteSet(permits) /\ Cardinality(permits) <= SavePermits

\* Each request in flight may save one more.
Busy == {r \in Requests : pc[r] # "idle"}
Counted == saves + Cardinality(Busy) <= MaxSaves + Cardinality(Requests)

LEMMA StepLimits ==
  ASSUME StopInv, Domains, Limits, [Next]_vars
  PROVE  Limits'
<1>1. ASSUME Embedding' = Embedding, Rewriting' = Rewriting, permits' = permits
      PROVE  Limits'
  BY <1>1 DEF Limits
<1>2. ASSUME NEW x, x \notin permits, HasPermit, permits' = permits \cup {x},
             Embedding' \cup Rewriting' = Embedding \cup Rewriting \cup {x}
      PROVE  Limits'
  <2>1. Cardinality(permits) < SavePermits /\ Cardinality(permits) \in Nat
    BY <1>2, FS_CardinalityType DEF HasPermit, Limits
  <2>2. IsFiniteSet(permits') /\ Cardinality(permits') = Cardinality(permits) + 1
    BY <1>2, FS_AddElement DEF Limits
  <2>3. Cardinality(permits') <= SavePermits
    BY ServerAssumption, <2>1, <2>2
  <2> QED
    BY <1>2, <2>2, <2>3 DEF Limits
<1>3. ASSUME NEW x, permits' = permits \ {x},
             Embedding' \cup Rewriting' = (Embedding \cup Rewriting) \ {x}
      PROVE  Limits'
  <2>1. permits' \subseteq permits
    BY <1>3
  <2>2. /\ IsFiniteSet(permits') /\ Cardinality(permits') <= Cardinality(permits)
        /\ Cardinality(permits') \in Nat /\ Cardinality(permits) \in Nat
    BY <2>1, FS_Subset, FS_CardinalityType DEF Limits
  <2>3. Cardinality(permits') <= SavePermits
    BY ServerAssumption, <2>2 DEF Limits
  <2> QED
    BY <1>3, <2>2, <2>3 DEF Limits
<1>4. ASSUME NEW r \in Requests, TakePermit(r) PROVE Limits'
  <2>1. /\ pc[r] = "embed" /\ pc' = [pc EXCEPT ![r] = "embedding"] /\ work' = work
        /\ r \in Threads /\ HasPermit /\ permits' = permits \cup {r}
    BY <1>4 DEF TakePermit, Goto, workers, Threads
  <2>2. Embedding' = Embedding \cup {r} /\ Rewriting' = Rewriting
    BY <2>1 DEF Embedding, Rewriting, StopInv, Typed
  <2>3. r \notin permits
    BY ServerAssumption, <2>1 DEF Limits, Embedding, Rewriting, Workers
  <2> QED
    BY <1>2, <2>1, <2>2, <2>3
<1>5. ASSUME NEW r \in Requests, Embedded(r) PROVE Limits'
  <2>1. /\ pc' \in {[pc EXCEPT ![r] = "idle"], [pc EXCEPT ![r] = "wait"]} /\ work' = work
        /\ r \in Threads /\ permits' = permits \ {r} /\ r \notin Workers
    BY <1>5, ServerAssumption DEF Embedded, Goto, workers, Threads, Workers
  <2>2. Embedding' = Embedding \ {r} /\ Rewriting' = Rewriting
    BY <2>1 DEF Embedding, Rewriting, StopInv, Typed
  <2> QED
    BY <1>3, <2>1, <2>2 DEF Rewriting
<1>6. ASSUME NEW w \in Workers, TakeRecord(w) PROVE Limits'
  <2>1. /\ work[w].step = "permit" /\ HasPermit /\ permits' = permits \cup {w} /\ pc' = pc
        /\ work' = [work EXCEPT ![w].step = "delete"] /\ (w \in Threads => pc[w] # "embedding")
    BY <1>6, ServerAssumption DEF TakeRecord, Workers, Threads, Domains
  <2>2. Rewriting' = Rewriting \cup {w} /\ Embedding' = Embedding
    BY <2>1 DEF Embedding, Rewriting, StopInv, Typed, WorkFields
  <2>3. w \notin permits
    BY <2>1 DEF Limits, Embedding, Rewriting
  <2> QED
    BY <1>2, <2>1, <2>2, <2>3
<1>7. ASSUME NEW w \in Workers, InsertNew(w) PROVE Limits'
  <2>1. /\ permits' = permits \ {w} /\ pc' = pc
        /\ work' = [work EXCEPT ![w].step = "next", ![w].half = 0]
        /\ (w \in Threads => pc[w] # "embedding")
    BY <1>7, ServerAssumption DEF InsertNew, GivesPermit, Workers, Threads, Domains
  <2>2. Rewriting' = Rewriting \ {w} /\ Embedding' = Embedding
    BY <2>1 DEF Embedding, Rewriting, StopInv, Typed, WorkFields
  <2> QED
    BY <1>3, <2>1, <2>2 DEF Embedding
<1>8. ASSUME NEW r \in Requests, Arrive(r) \/ TakeLock(r) \/ CheckAgain(r) \/ SaveRecord(r)
      PROVE  UNCHANGED <<Embedding, Rewriting, permits>>
  BY ServerAssumption, <1>8 DEF Embedding, Rewriting, Arrive, TakeLock, CheckAgain, SaveRecord,
     StopInv, Typed, Locks, Domains, Goto, data, handles, health, workers, stop, Drop, GoesOn,
     Threads, Workers, WorkFields, Handles, None, Places, Runs, WorkPlaces
<1>9. ASSUME NEW t \in Threads, CheckClosing(t) \/ EnterSlot(t)
      PROVE  UNCHANGED <<Embedding, Rewriting, permits>>
  BY ServerAssumption, <1>9 DEF Embedding, Rewriting, CheckClosing, EnterSlot, StopInv, Typed,
     Locks, Domains, Goto, data, handles, health, workers, stop, Leave, Threads, Workers,
     WorkFields, Handles, None, Places, Runs, WorkPlaces
<1>10. ASSUME Boot \/ Due \/ EnterRetry \/ HealDrain
      PROVE  UNCHANGED <<Embedding, Rewriting, permits>>
  BY ServerAssumption, <1>10 DEF Embedding, Rewriting, Boot, Due, EnterRetry, HealDrain, StopInv,
     Typed, Locks, Domains, Goto, data, handles, health, workers, stop, None, Threads, Workers,
     WorkFields, Handles, Places, Runs, WorkPlaces
<1>11. ASSUME Repair \/ Signal
      PROVE  UNCHANGED <<Embedding, Rewriting, permits>>
  BY ServerAssumption, <1>11 DEF Embedding, Rewriting, Repair, Signal, StopInv, Typed, Locks,
     Domains, handles, health, workers, stop, data, Threads, Workers, WorkFields, Handles, None,
     Places, Runs, WorkPlaces
<1>12. ASSUME BeginClose \/ CloseBackfills \/ CloseTake \/ CloseFlush \/ CloseSkip
      PROVE  UNCHANGED <<Embedding, Rewriting, permits>>
  BY ServerAssumption, <1>12 DEF Embedding, Rewriting, BeginClose, CloseBackfills, CloseTake,
     CloseFlush, CloseSkip, StopInv, Typed, Locks, Domains, data, handles, health, workers,
     Threads, Workers, WorkFields, Handles, None, Places, Runs, WorkPlaces
<1>13. ASSUME NEW w \in Workers, List(w) \/ BeginRecord(w) \/ DeleteOld(w)
      PROVE  UNCHANGED <<Embedding, Rewriting, permits>>
  BY ServerAssumption, <1>13 DEF Embedding, Rewriting, List, BeginRecord, DeleteOld, StopInv,
     Typed, Locks, Domains, data, handles, health, stop, Threads, Workers, WorkFields, Handles,
     None, Places, Runs, WorkPlaces
<1>14. ASSUME NEW w \in Workers, EndRun(w)
      PROVE  UNCHANGED <<Embedding, Rewriting, permits>>
  BY ServerAssumption, <1>14 DEF Embedding, Rewriting, EndRun, StopInv, Typed, Locks, Domains,
     Goto, handles, health, stop, Idle, Threads, Workers, WorkFields, Handles, None, Places, Runs,
     WorkPlaces
<1>15. ASSUME NEW t \in Threads, OpenTenant(t) PROVE UNCHANGED <<Embedding, Rewriting, permits>>
  <2>1. PICK to \in {"tick", "idle", "embed"} : pc' = [pc EXCEPT ![t] = to]
    BY <1>15 DEF OpenTenant, Goto, Leave
  <2>2. pc[t] = "open" /\ permits' = permits
    BY <1>15 DEF OpenTenant
  <2>3. work' = work \/ (~running /\ work' = [work EXCEPT !["backfill"] = Backfill])
    BY <1>15 DEF OpenTenant, StartBackfill, workers
  <2>4. ~running => work["backfill"].step = "idle"
    BY DEF StopInv, Registered, Workers
  <2>5. Embedding' = Embedding
    BY <2>1, <2>2 DEF Embedding, StopInv, Typed
  <2>6. Rewriting' = Rewriting
    <3>1. Backfill.step = "list"
      BY IdleRun DEF Backfill, Runs
    <3> QED
      BY <2>3, <2>4, <3>1 DEF Rewriting, StopInv, Typed, Workers
  <2> QED
    BY <2>2, <2>5, <2>6
<1>16. ASSUME Reopen PROVE UNCHANGED <<Embedding, Rewriting, permits>>
  <2>1. /\ pc["background"] = "reopen" /\ permits' = permits
        /\ pc' \in {[pc EXCEPT !["background"] = "tick"], [pc EXCEPT !["background"] = "heal"]}
    BY <1>16 DEF Reopen, Goto
  <2>2. PICK since, full :
          work' \in {work, [work EXCEPT !["background"] =
                              [Idle EXCEPT !.step = "drain", !.since = since, !.full = full]]}
    BY <1>16 DEF Reopen, workers
  <2>3. work["background"].step = "idle"
    BY <2>1, IdleRun DEF StopInv, Registered
  <2>4. Embedding' = Embedding
    BY <2>1 DEF Embedding, StopInv, Typed
  <2>5. Rewriting' = Rewriting
    BY <2>2, <2>3 DEF Rewriting, StopInv, Typed, Idle, Workers
  <2> QED
    BY <2>1, <2>4, <2>5
<1>17. CASE UNCHANGED vars
  BY <1>1, <1>17 DEF vars, Embedding, Rewriting
<1> QED
  BY <1>1, <1>4, <1>5, <1>6, <1>7, <1>8, <1>9, <1>10, <1>11, <1>12, <1>13, <1>14, <1>15, <1>16,
     <1>17 DEF Next, Request, Memory, Background, Reembed, Closer, Threads, Workers

LEMMA StepCounted ==
  ASSUME StopInv, Domains, Counted, [Next]_vars
  PROVE  Counted'
<1>1. /\ IsFiniteSet(Busy) /\ IsFiniteSet(Busy') /\ Cardinality(Requests) \in Nat
      /\ Cardinality(Busy) \in Nat /\ Cardinality(Busy') \in Nat
      /\ Cardinality(Busy') <= Cardinality(Requests) /\ {saves, MaxSaves} \subseteq Nat
  <2>1. Busy \subseteq Requests /\ Busy' \subseteq Requests /\ IsFiniteSet(Requests)
    BY ServerAssumption DEF Busy
  <2>2. /\ IsFiniteSet(Busy) /\ IsFiniteSet(Busy')
        /\ Cardinality(Busy') <= Cardinality(Requests)
    BY <2>1, FS_Subset
  <2> QED
    BY <2>1, <2>2, FS_CardinalityType, ServerAssumption DEF Domains
<1>2. ASSUME Busy' \subseteq Busy, saves' = saves PROVE Counted'
  <2>1. Cardinality(Busy') <= Cardinality(Busy)
    BY <1>1, <1>2, FS_Subset
  <2> QED
    BY <1>1, <1>2, <2>1 DEF Counted
<1>3. ASSUME NEW r \in Requests, Arrive(r) PROVE Counted'
  BY <1>1, <1>3 DEF Arrive, Counted, data
<1>4. ASSUME NEW r \in Requests, SaveRecord(r) PROVE Counted'
  <2>1. /\ pc[r] = "in" /\ pc' = [pc EXCEPT ![r] = "idle"] /\ saves' = saves + 1
        /\ r \in Threads
    BY <1>4 DEF SaveRecord, Goto, Threads
  <2>2. r \in Busy /\ Busy' = Busy \ {r}
    BY <2>1 DEF Busy, StopInv, Typed, Threads
  <2>3. Cardinality(Busy') = Cardinality(Busy) - 1
    BY <1>1, <2>2, FS_RemoveElement
  <2> QED
    BY <1>1, <2>1, <2>3 DEF Counted
<1>5. ASSUME NEW r \in Requests, TakePermit(r) \/ Embedded(r) \/ TakeLock(r) \/ CheckAgain(r)
      PROVE  Busy' \subseteq Busy /\ saves' = saves
  BY ServerAssumption, <1>5 DEF Busy, TakePermit, Embedded, TakeLock, CheckAgain, StopInv, Typed,
     Goto, data, health, workers, stop, Drop, GoesOn, Threads, Workers, WorkFields, Handles
<1>6. ASSUME NEW t \in Threads, CheckClosing(t) \/ EnterSlot(t) \/ OpenTenant(t)
      PROVE  Busy' \subseteq Busy /\ saves' = saves
  BY ServerAssumption, <1>6 DEF Busy, CheckClosing, EnterSlot, OpenTenant, StopInv, Typed, Goto,
     data, handles, health, workers, stop, Leave, Opened, Note, StartBackfill, Threads, Workers,
     WorkFields, Handles, None, Backfill, Idle
<1>7. ASSUME Boot \/ Due \/ EnterRetry \/ Reopen \/ HealDrain
      PROVE  Busy' \subseteq Busy /\ saves' = saves
  BY ServerAssumption, <1>7 DEF Busy, Boot, Due, EnterRetry, Reopen, HealDrain, StopInv, Typed,
     Goto, data, handles, health, workers, stop, None, Opened, Note, Since, Idle, Threads, Workers,
     WorkFields, Handles
<1>8. ASSUME Repair \/ Signal
      PROVE  Busy' \subseteq Busy /\ saves' = saves
  BY ServerAssumption, <1>8 DEF Busy, Repair, Signal, StopInv, Typed, handles, health, workers,
     stop, data, Threads, Workers, WorkFields, Handles
<1>9. ASSUME BeginClose \/ CloseBackfills \/ CloseTake \/ CloseFlush \/ CloseSkip
      PROVE  Busy' \subseteq Busy /\ saves' = saves
  BY ServerAssumption, <1>9 DEF Busy, BeginClose, CloseBackfills, CloseTake, CloseFlush, CloseSkip,
     StopInv, Typed, data, handles, health, workers, Threads, Workers, WorkFields, Handles
<1>10. ASSUME NEW w \in Workers, List(w) \/ BeginRecord(w) \/ TakeRecord(w) \/ DeleteOld(w) \/
      InsertNew(w) \/ EndRun(w)
      PROVE  Busy' \subseteq Busy /\ saves' = saves
  BY ServerAssumption, <1>10 DEF Busy, List, BeginRecord, TakeRecord, DeleteOld, InsertNew, EndRun,
     StopInv, Typed, data, handles, health, stop, GivesPermit, Goto, Idle, Threads, Workers,
     WorkFields, Handles
<1>11. CASE UNCHANGED vars
  BY <1>2, <1>11 DEF vars, Busy
<1> QED
  BY <1>2, <1>3, <1>4, <1>5, <1>6, <1>7, <1>8, <1>9, <1>10, <1>11 DEF Next, Request, Memory,
     Background, Reembed, Closer, Threads, Workers

\* Everything that is needed of the tenant.
TenantInv == StopInv /\ Domains /\ SlotHeld /\ HealInv /\ Limits /\ Counted

LEMMA InitTenant == ASSUME Init PROVE TenantInv
<1>1. StopInv
  BY InitInv
<1>2. Domains
  <2>1. work \in [Workers -> Runs] /\ \A w \in Workers : work[w] = Idle
    BY IdleRun DEF Init
  <2>2. require \in BOOLEAN /\ index \in {"whole", "fresh", "shut"}
    BY ServerAssumption DEF Init
  <2>3. pc \in [Threads -> Places] /\ pc["background"] = "boot"
    BY DEF Init, Threads, Places
  <2>4. saves \in Nat \ {0} /\ vec \subseteq 1..saves
    BY DEF Init
  <2>5. /\ lock \in [{"kw", "vec"} -> Requests \cup {"free"}]
        /\ holds \in [Threads -> {"none", "kw", "vec"}]
    BY DEF Init
  <2>6. \A w \in Workers : /\ work[w].todo \subseteq 1..saves /\ work[w].half <= saves
                            /\ work[w].since <= saves /\ work[w].step = "idle"
    BY <2>1, <2>4, IdleRun
  <2>7. slotLock = "free" /\ judged = "unknown" /\ retry = None /\ marker = FALSE
    BY DEF Init
  <2> QED
    BY <2>1, <2>2, <2>3, <2>4, <2>5, <2>6, <2>7 DEF Domains
<1>3. SlotHeld
  BY DEF Init, SlotHeld, Threads
<1>4. HealInv
  <2>1. /\ ~running /\ ~marker /\ judged # "yes" /\ cached = "none" /\ closing = FALSE
        /\ \A w \in Workers : work[w] = Idle
        /\ \A r \in Requests : holds[r] = "none"
        /\ index # "fresh" => 1..saves \subseteq vec
        /\ retry = None
    BY DEF Init, Threads
  <2> QED
    BY <2>1 DEF HealInv, Unserved, Served
<1>5. Limits
  <2>1. Embedding = {} /\ Rewriting = {} /\ permits = {}
    BY IdleRun DEF Init, Embedding, Rewriting, Threads
  <2> QED
    BY ServerAssumption, <2>1, FS_EmptySet DEF Limits
<1>6. Counted
  <2>1. Busy = {} /\ saves = 1
    BY ServerAssumption DEF Init, Busy, Threads
  <2> QED
    BY ServerAssumption, <2>1, FS_EmptySet, FS_CardinalityType DEF Counted
<1> QED
  BY <1>1, <1>2, <1>3, <1>4, <1>5, <1>6 DEF TenantInv

LEMMA StepTenant ==
  ASSUME TenantInv, [Next]_vars
  PROVE  TenantInv'
BY StepInv, StepDomains, StepSlotHeld, StepHeal, StepLimits, StepCounted DEF TenantInv

\* The domains of the run, from the parts of the invariant.
LEMMA TenantTypes == ASSUME TenantInv PROVE TypeOK
<1>1. saves \in 1..MaxSaves + Cardinality(Requests)
  <2>1. Busy \subseteq Requests
    BY DEF Busy
  <2>2. Cardinality(Busy) \in Nat /\ Cardinality(Requests) \in Nat
    BY <2>1, ServerAssumption, FS_Subset, FS_CardinalityType
  <2> QED
    BY <2>2, ServerAssumption DEF TenantInv, Counted, Domains
<1>2. /\ require \in BOOLEAN /\ index \in {"whole", "fresh", "shut"} /\ vec \subseteq 1..saves
      /\ slotLock \in Threads \cup {"free"} /\ lock \in [{"kw", "vec"} -> Requests \cup {"free"}]
      /\ holds \in [Threads -> {"none", "kw", "vec"}]
      /\ judged \in {"unknown", "no", "yes"} /\ retry \in {None} \cup 1..saves
  BY DEF TenantInv, Domains
<1>3. \A w \in Workers : work[w].todo \subseteq 1..saves /\ work[w].half \in 0..saves
  BY DEF TenantInv, Domains, Runs
<1>4. cached \in {"none", "kw", "vec"} /\ ((\E w \in Workers : work[w].full) <=> running)
  BY DEF TenantInv, StopInv, Typed, Registered
<1>5. /\ permits = {t \in Threads : pc[t] = "embedding"}
                     \cup {w \in Workers : work[w].step \in {"delete", "insert"}}
      /\ Cardinality(permits) <= SavePermits
  BY DEF TenantInv, Limits, Embedding, Rewriting
<1> QED
  BY <1>1, <1>2, <1>3, <1>4, <1>5 DEF TypeOK

\* Nobody re-embeds: nobody owes anything, so nothing is missing.
LEMMA TenantHealed == ASSUME TenantInv PROVE HealedIsComplete
<1>1. ASSUME cached = "vec", \A w \in Workers : work[w] = Idle, ~draining, ~late
      PROVE  vec = 1..saves
  <2>1. PICK w \in Workers : Missing \subseteq Owes(w)
    BY <1>1 DEF TenantInv, HealInv, Served
  <2>2. Owes(w) = {}
    BY <1>1, <2>1, IdleRun DEF Owes
  <2> QED
    BY <2>1, <2>2 DEF Missing, TenantInv, Domains
<1> QED
  BY <1>1 DEF HealedIsComplete

\* Once a heal or a backfill has run every record has its vector, whatever was saved meanwhile
\* and on whichever handle; and every variable stays in its domain, the permits within
\* DM_EMBED_CONCURRENCY (server.rs reopen_for_vectors, heal_vectors, run_backfill).
THEOREM TenantCompleteOnceHealed == MCSpec => []CompleteOnceHealed
<1>1. MCInit => TenantInv
  BY InitTenant DEF MCInit
<1>2. TenantInv /\ [MCNext]_<<part, vars, index_vars>> => TenantInv'
  <2>1. [MCNext]_<<part, vars, index_vars>> => [Next]_vars
    BY DEF MCNext, Tenant, Lifetime
  <2> QED
    BY <2>1, StepTenant
<1>3. TenantInv => CompleteOnceHealed
  BY TenantTypes, TenantHealed DEF CompleteOnceHealed
<1> QED
  BY <1>1, <1>2, <1>3, PTL DEF MCSpec

\* The steps that MCServe instantiates and those that IndexProofs is about are the same.
LEMMA SameIndexStep ==
  ASSUME [Index!Next]_(Index!vars)
  PROVE  [IndexFacts!Next]_(IndexFacts!vars)
<1>1. ASSUME NEW p, Index!Retry(p) PROVE IndexFacts!Retry(p)
  BY <1>1 DEF Index!Retry, IndexFacts!Retry, Index!Goto, IndexFacts!Goto, Index!files,
     IndexFacts!files, Index!counts, IndexFacts!counts
<1>2. ASSUME NEW p, Index!CheckTorn(p) PROVE IndexFacts!CheckTorn(p)
  BY <1>2 DEF Index!CheckTorn, IndexFacts!CheckTorn, Index!Goto, IndexFacts!Goto, Index!Fails,
     IndexFacts!Fails, Index!files, IndexFacts!files, Index!Quarantine, IndexFacts!Quarantine
<1>3. ASSUME NEW p, Index!Probe(p) PROVE IndexFacts!Probe(p)
  BY <1>3 DEF Index!Probe, IndexFacts!Probe, Index!Goto, IndexFacts!Goto, Index!Fails,
     IndexFacts!Fails, Index!files, IndexFacts!files, Index!Locked, IndexFacts!Locked
<1>4. ASSUME NEW p, Index!MoveAside(p) PROVE IndexFacts!MoveAside(p)
  BY <1>4 DEF Index!MoveAside, IndexFacts!MoveAside, Index!Goto, IndexFacts!Goto, Index!Fails,
     IndexFacts!Fails, Index!files, IndexFacts!files, Index!Quarantine, IndexFacts!Quarantine
<1>5. ASSUME NEW p, Index!Unmark(p) PROVE IndexFacts!Unmark(p)
  BY <1>5 DEF Index!Unmark, IndexFacts!Unmark, Index!Goto, IndexFacts!Goto, Index!counts,
     IndexFacts!counts
<1>6. ASSUME NEW p, Index!Open(p) PROVE IndexFacts!Open(p)
  BY <1>6 DEF Index!Open, IndexFacts!Open, Index!Goto, IndexFacts!Goto, Index!Fails,
     IndexFacts!Fails, Index!files, IndexFacts!files, Index!Locked, IndexFacts!Locked
<1>7. ASSUME NEW p, Index!MarkDirty(p) PROVE IndexFacts!MarkDirty(p)
  BY <1>7 DEF Index!MarkDirty, IndexFacts!MarkDirty, Index!Goto, IndexFacts!Goto, Index!counts,
     IndexFacts!counts
<1>8. ASSUME NEW p, Index!Migrate(p) PROVE IndexFacts!Migrate(p)
  BY <1>8 DEF Index!Migrate, IndexFacts!Migrate, Index!Goto, IndexFacts!Goto, Index!Fails,
     IndexFacts!Fails, Index!Embedded, IndexFacts!Embedded, Index!Min, IndexFacts!Min
<1>9. ASSUME NEW p, Index!MarkSlots(p) PROVE IndexFacts!MarkSlots(p)
  BY <1>9 DEF Index!MarkSlots, IndexFacts!MarkSlots, Index!Goto, IndexFacts!Goto, Index!Fails,
     IndexFacts!Fails, Index!Owed, IndexFacts!Owed
<1>10. ASSUME NEW p, Index!MarkFresh(p) PROVE IndexFacts!MarkFresh(p)
  BY <1>10 DEF Index!MarkFresh, IndexFacts!MarkFresh, Index!Goto, IndexFacts!Goto, Index!Fails,
     IndexFacts!Fails, Index!Owed, IndexFacts!Owed, Index!Backfills, IndexFacts!Backfills
<1>11. ASSUME NEW p, Index!Opening(p) PROVE IndexFacts!Opening(p)
  BY <1>11, <1>1, <1>2, <1>3, <1>4, <1>5, <1>6, <1>7, <1>8, <1>9, <1>10 DEF Index!Opening,
     IndexFacts!Opening
<1>12. ASSUME NEW p, Index!Fill(p) PROVE IndexFacts!Fill(p)
  BY <1>12 DEF Index!Fill, IndexFacts!Fill, Index!Goto, IndexFacts!Goto, Index!Fails,
     IndexFacts!Fails, Index!Embedded, IndexFacts!Embedded, Index!Min, IndexFacts!Min
<1>13. ASSUME NEW p, Index!DropProgress(p) PROVE IndexFacts!DropProgress(p)
  BY <1>13 DEF Index!DropProgress, IndexFacts!DropProgress, Index!Goto, IndexFacts!Goto,
     Index!counts, IndexFacts!counts
<1>14. ASSUME NEW p, Index!BgList(p) PROVE IndexFacts!BgList(p)
  BY <1>14 DEF Index!BgList, IndexFacts!BgList, Index!Fails, IndexFacts!Fails, Index!files,
     IndexFacts!files, Index!BgStep, IndexFacts!BgStep
<1>15. ASSUME NEW p, Index!BgEmbed(p) PROVE IndexFacts!BgEmbed(p)
  BY <1>15 DEF Index!BgEmbed, IndexFacts!BgEmbed, Index!Fails, IndexFacts!Fails, Index!Embedded,
     IndexFacts!Embedded, Index!BgStep, IndexFacts!BgStep, Index!Min, IndexFacts!Min
<1>16. ASSUME NEW p, Index!BgFlush(p) PROVE IndexFacts!BgFlush(p)
  BY <1>16 DEF Index!BgFlush, IndexFacts!BgFlush, Index!files, IndexFacts!files, Index!counts,
     IndexFacts!counts, Index!BgStep, IndexFacts!BgStep
<1>17. ASSUME NEW p, Index!Backfilling(p) PROVE IndexFacts!Backfilling(p)
  BY <1>17, <1>12, <1>13, <1>14, <1>15, <1>16 DEF Index!Backfilling, IndexFacts!Backfilling
<1>18. ASSUME NEW p, Index!Start(p) PROVE IndexFacts!Start(p)
  BY <1>18 DEF Index!Start, IndexFacts!Start, Index!Goto, IndexFacts!Goto, Index!files,
     IndexFacts!files
<1>19. ASSUME NEW p, Index!Stop(p) PROVE IndexFacts!Stop(p)
  BY <1>19 DEF Index!Stop, IndexFacts!Stop, Index!files, IndexFacts!files, Index!counts,
     IndexFacts!counts
<1>20. ASSUME NEW p, Index!Flushed(p) PROVE IndexFacts!Flushed(p)
  BY <1>20 DEF Index!Flushed, IndexFacts!Flushed, Index!Fails, IndexFacts!Fails, Index!IsClose,
     IndexFacts!IsClose
<1>21. ASSUME NEW p, Index!Crash(p) PROVE IndexFacts!Crash(p)
  BY <1>21 DEF Index!Crash, IndexFacts!Crash, Index!Goto, IndexFacts!Goto
<1>22. ASSUME NEW p, Index!Exit(p) PROVE IndexFacts!Exit(p)
  BY <1>22 DEF Index!Exit, IndexFacts!Exit, Index!Goto, IndexFacts!Goto, Index!files,
     IndexFacts!files, Index!counts, IndexFacts!counts
<1>23. ASSUME NEW p, NEW u, Index!Save(p, u) PROVE IndexFacts!Save(p, u)
  BY <1>23 DEF Index!Save, IndexFacts!Save, Index!counts, IndexFacts!counts, Index!Embedded,
     IndexFacts!Embedded
<1>24. CASE UNCHANGED Index!vars
  BY <1>24 DEF Index!vars, IndexFacts!vars, Index!files, IndexFacts!files, Index!counts,
     IndexFacts!counts
<1> QED
  BY <1>11, <1>17, <1>18, <1>19, <1>20, <1>21, <1>22, <1>23, <1>24
     DEF Index!Next, IndexFacts!Next, Index!Uris, IndexFacts!Uris

\* Everything that is needed of the index: it is open in one process, what it owes is known by
\* a marker, and it is looked at before it is opened.
ServedIndexInv == IndexFacts!OpenInv /\ IndexFacts!CoverInv /\ IndexFacts!Sound

LEMMA InitServedIndex == ASSUME Index!Init PROVE ServedIndexInv
<1>1. IndexFacts!Init
  BY DEF Index!Init, IndexFacts!Init, Index!Uris, IndexFacts!Uris
<1>2. IndexFacts!OpenInv /\ IndexFacts!CoverInv
  BY <1>1, IndexAssumed, IndexFacts!InitOpen, IndexFacts!InitCover
<1>3. IndexFacts!Sound
  BY <1>1 DEF IndexFacts!Init, IndexFacts!Sound
<1> QED
  BY <1>2, <1>3 DEF ServedIndexInv

LEMMA StepServedIndex ==
  ASSUME ServedIndexInv, [Index!Next]_(Index!vars)
  PROVE  ServedIndexInv'
<1>1. IndexFacts!Alone /\ IndexFacts!KillsAreCovered
  BY DEF IndexFacts!Alone, IndexFacts!KillsAreCovered
<1>2. [IndexFacts!Next]_(IndexFacts!vars)
  BY SameIndexStep
<1>3. [IndexFacts!MCNext]_(IndexFacts!vars)
  BY <1>1, <1>2, IndexAssumed, IndexFacts!AloneIsApart DEF ServedIndexInv
<1>4. IndexFacts!OpenInv'
  BY <1>3, IndexAssumed, IndexFacts!StepOpen DEF ServedIndexInv
<1>5. IndexFacts!CoverInv'
  BY <1>1, <1>3, IndexAssumed, IndexFacts!StepCover DEF ServedIndexInv
<1>6. IndexFacts!Sound'
  BY <1>1, <1>2, IndexAssumed, IndexFacts!StepSound DEF ServedIndexInv
<1> QED
  BY <1>4, <1>5, <1>6 DEF ServedIndexInv

LEMMA ServedIndexAlways == MCSpec => []ServedIndexInv
<1>1. MCInit => ServedIndexInv
  BY InitServedIndex DEF MCInit
<1>2. ServedIndexInv /\ [MCNext]_<<part, vars, index_vars>> => ServedIndexInv'
  <2>1. index_vars' = index_vars => UNCHANGED Index!vars
    BY DEF index_vars, Index!vars, Index!files, Index!counts
  <2>2. [MCNext]_<<part, vars, index_vars>> => [Index!Next]_(Index!vars)
    BY <2>1 DEF MCNext, Tenant, Lifetime
  <2> QED
    BY <2>2, StepServedIndex
<1> QED
  BY <1>1, <1>2, PTL DEF MCSpec


\* A tenant that is served with no backfill outstanding has a vector for every record, over every
\* index a killed server left and however often it was killed (tools.rs open_vector_index,
\* backfill_vectors; server.rs run_backfill).
THEOREM ServedIndexIsComplete == MCSpec => []HybridComplete
<1>1. ServedIndexInv => HybridComplete
  <2>1. ServedIndexInv => IndexFacts!HybridComplete
    BY IndexAssumed, IndexFacts!CoverIsComplete DEF ServedIndexInv
  <2> QED
    BY <2>1 DEF HybridComplete, Index!HybridComplete, IndexFacts!HybridComplete
<1> QED
  BY <1>1, ServedIndexAlways, PTL

\* zvec dies opening an index that is not whole, on every restart: `dmem serve` never hands it
\* one (zvec_index.rs torn_reason, the probe of tools.rs).
THEOREM ServedIndexOpensWhole == MCSpec => []NeverOpensTorn
<1>1. ServedIndexInv => NeverOpensTorn
  BY DEF ServedIndexInv, IndexFacts!Sound, NeverOpensTorn, Index!NeverOpensTorn
<1> QED
  BY <1>1, ServedIndexAlways, PTL
=============================================================================
