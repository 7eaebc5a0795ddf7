------------------------- MODULE LockPersistenceProofs -------------------------
(***************************************************************************)
(* What a job may believe about its lock, proved for any number of jobs,   *)
(* requests, crashes of WConfd, failed writes and deaths of jobs.          *)
(***************************************************************************)
EXTENDS LockPersistence, WellFoundedInduction, TLAPS

LockState == [holder : Client \cup {NoClient}, queue : SUBSET Client]

Place == {"idle", "requesting", "check", "waiting", "working", "freeing", "dead"}
Typed ==
  /\ ds \in LockState /\ disk \in LockState
  /\ thread \in [Client -> {"none", "sent", "saving", "saved", "notified"}]
  /\ pc \in [Client -> Place] /\ op \in [Client -> {"request", "free"}]
  /\ count \in [requests : Nat, crashes : Nat, failures : Nat, deaths : Nat]

\* The holder does not wait, and nobody waits for a lock that is free.
Sound(s) == s.holder \notin s.queue /\ (s.holder = NoClient => s.queue = {})

Known(c, s) == c \in s.queue \cup {s.holder}

\* A thread serves who is in an RPC or has died in one.
Served(c) ==
  /\ thread[c] # "none" => pc[c] \in {"requesting", "freeing", "dead"}
  /\ pc[c] = "requesting" => thread[c] # "none" /\ op[c] = "request"

\* A request that was handled is in memory until it is answered ...
Entered(c) ==
  pc[c] = "requesting" /\ thread[c] \in {"saving", "saved", "notified"} => Known(c, ds)

\* ... and from before its answer on disk, if no write failed.
Kept(c) ==
  count.failures = 0 =>
    /\ pc[c] \in {"check", "waiting"} => Known(c, disk)
    /\ pc[c] = "requesting" /\ thread[c] \in {"saved", "notified"} => Known(c, disk)

Believes(c) ==
  \/ Claims(c, ds)
  \/ c \in lost /\ (count.failures = 0 => pc[c] \notin {"check", "waiting"})

IInv ==
  /\ Typed /\ Sound(ds) /\ Sound(disk)
  /\ \A c \in Client : Served(c) /\ Entered(c) /\ Kept(c) /\ Believes(c)

-----------------------------------------------------------------------------
\* One of the clients that wait is the most urgent one.
LEMMA UrgentWaits == \A q \in SUBSET Client : q # {} => urgent(q) \in q
<1> SUFFICES ASSUME NEW q \in SUBSET Client, q # {} PROVE urgent(q) \in q
  BY Zenon
<1> DEFINE Less == {r \in Nat \X Nat : r[1] < r[2]}
           Ranks == {Prio[c] + 20 : c \in q}
<1>1. IsWellFoundedOn(Less, Nat)
  BY Zenon, NatLessThanWellFounded DEF OpToRel
<1>2. Ranks \subseteq Nat /\ Ranks # {}
  BY PrioAssumption
<1>3. \E x \in Ranks : \A y \in Ranks : ~(<<y, x>> \in Less)
  BY Zenon, <1>1, <1>2, WFMin
<1>4. PICK c \in q : \A d \in q : ~(<<Prio[d] + 20, Prio[c] + 20>> \in Less)
  BY Zenon, <1>3
<1>5. ASSUME NEW d \in q PROVE Prio[c] <= Prio[d]
  <2>1. Prio[c] \in -20..19 /\ Prio[d] \in -20..19
    BY Zenon, PrioAssumption
  <2>2. Prio[c] + 20 \in Nat /\ Prio[d] + 20 \in Nat
    BY <2>1
  <2>3. ~(Prio[d] + 20 < Prio[c] + 20)
    BY Zenon, <1>4, <2>2
  <2> QED  BY <2>1, <2>3
<1> QED  BY Zenon, <1>5 DEF urgent

(***************************************************************************)
(* An operation on the lock state keeps it sound, and keeps everybody but  *)
(* the client that releases the lock in it, and a holder holding.          *)
(***************************************************************************)
LEMMA UpdateKeeps ==
  ASSUME NEW s \in LockState, Sound(s), NEW c \in Client,
         NEW t, t = updateLocksWaiting(c, s)[1]
  PROVE  /\ t \in LockState /\ Sound(t) /\ Known(c, t)
         /\ \A d \in Client : /\ Known(d, s) => Known(d, t)
                              /\ d = s.holder => d = t.holder
<1>1. CASE s.holder \in {NoClient, c}
  <2>1. t = [s EXCEPT !.holder = c]
    BY Zenon, <1>1 DEF updateLocksWaiting
  <2>2. t \in LockState /\ t.holder = c /\ t.queue = s.queue
    BY Zenon, <2>1 DEF LockState
  <2> QED  BY Zenon, <1>1, <2>2, ClientAssumption DEF Sound, Known
<1>2. CASE s.holder \notin {NoClient, c}
  <2>1. t = [s EXCEPT !.queue = @ \cup {c}]
    BY Zenon, <1>2 DEF updateLocksWaiting
  <2>2. t \in LockState /\ t.holder = s.holder /\ t.queue = s.queue \cup {c}
    BY <2>1 DEF LockState
  <2> QED  BY Zenon, <1>2, <2>2 DEF Sound, Known
<1> QED  BY Zenon, <1>1, <1>2

LEMMA ReleaseKeeps ==
  ASSUME NEW s \in LockState, Sound(s), NEW c \in Client,
         NEW t, t = release(c, s)[1]
  PROVE  /\ t \in LockState /\ Sound(t)
         /\ \A d \in Client \ {c} : /\ Known(d, s) => Known(d, t)
                                    /\ d = s.holder => d = t.holder
<1> DEFINE q == s.queue \ {c}
<1>0. q \in SUBSET Client
  BY Zenon DEF LockState
<1>1. CASE s.holder # c
  <2>1. t = [s EXCEPT !.queue = q]
    BY Zenon, <1>1 DEF release
  <2>2. t \in LockState /\ t.holder = s.holder /\ t.queue = q
    BY Zenon, <1>0, <2>1 DEF LockState
  <2> QED  BY Zenon, <1>1, <2>2 DEF Sound, Known
<1>2. CASE s.holder = c /\ q = {}
  <2>1. t = [holder |-> NoClient, queue |-> {}]
    BY Zenon, <1>2 DEF release
  <2>2. t \in LockState /\ t.holder = NoClient /\ t.queue = {}
    BY <2>1 DEF LockState
  <2> QED  BY Zenon, <1>2, <2>2 DEF Sound, Known
<1>3. CASE s.holder = c /\ q # {}
  <2>1. t = [holder |-> urgent(q), queue |-> q \ {urgent(q)}]
    BY Zenon, <1>3 DEF release
  <2>2. urgent(q) \in q
    BY Zenon, <1>0, <1>3, UrgentWaits
  <2>3. t \in LockState /\ t.holder = urgent(q) /\ t.queue = q \ {urgent(q)}
    BY <1>0, <2>1, <2>2 DEF LockState
  <2>4. urgent(q) # NoClient
    BY Zenon, <1>0, <2>2, ClientAssumption
  <2> QED  BY Zenon, <1>3, <2>3, <2>4 DEF Sound, Known
<1> QED  BY Zenon, <1>1, <1>2, <1>3

-----------------------------------------------------------------------------
LEMMA InitIInv == Init => IInv
<1> SUFFICES ASSUME Init PROVE IInv  OBVIOUS
<1>1. Typed
  BY Zenon DEF Init, Typed, LockState, Place
<1>2. Sound(ds) /\ Sound(disk)
  BY Zenon DEF Init, Sound
<1>3. ASSUME NEW c \in Client
      PROVE  Served(c) /\ Entered(c) /\ Kept(c) /\ Believes(c)
  <2>1. pc[c] = "idle" /\ thread[c] = "none"
    BY Zenon DEF Init
  <2> QED  BY Zenon, <2>1 DEF Served, Entered, Kept, Believes, Claims
<1> QED  BY Zenon, <1>1, <1>2, <1>3 DEF IInv

\* A step leaves a client alone if it does nothing but keep it in the lock state.
LEMMA ClientKept ==
  ASSUME IInv, NEW d \in Client, pc'[d] = pc[d], thread'[d] = thread[d], op'[d] = op[d],
         count'.failures = count.failures, disk' = disk,
         Known(d, ds) => Known(d, ds)', d = ds.holder => d = ds'.holder,
         d \in lost => d \in lost'
  PROVE  Served(d)' /\ Entered(d)' /\ Kept(d)' /\ Believes(d)'
<1>1. Served(d) /\ Entered(d) /\ Kept(d) /\ Believes(d)
  BY Zenon DEF IInv
<1>2. Served(d)'
  BY Zenon, <1>1 DEF Served
<1>3. Entered(d)'
  BY Zenon, <1>1 DEF Entered
<1>4. Kept(d)'
  <2>1. Known(d, disk) <=> Known(d, disk)'
    BY Zenon DEF Known
  <2> QED  BY Zenon, <1>1, <2>1 DEF Kept
<1>5. Claims(d, ds) => Claims(d, ds)'
  <2>1. d \in ds.queue \cup {ds.holder} => d \in ds'.queue \cup {ds'.holder}
    BY Zenon DEF Known
  <2> QED  BY Zenon, <2>1 DEF Claims
<1>6. Believes(d)'
  BY Zenon, <1>1, <1>5 DEF Believes
<1> QED  BY Zenon, <1>2, <1>3, <1>4, <1>6

LEMMA HandleStep ==
  ASSUME IInv, NEW c \in Client, Handle(c)
  PROVE  IInv'
<1>1. /\ thread[c] = "sent" /\ thread' = [thread EXCEPT ![c] = "saving"]
      /\ disk' = disk /\ pc' = pc /\ op' = op /\ lost' = lost /\ count' = count
  BY Zenon DEF Handle, client
<1>2. Typed /\ Sound(ds) /\ Sound(disk) /\ Served(c)
  BY Zenon DEF IInv
<1>3. /\ ds' \in LockState /\ Sound(ds)'
      /\ op[c] = "request" => Known(c, ds)'
      /\ \A d \in Client \ {c} : /\ Known(d, ds) => Known(d, ds)'
                                 /\ d = ds.holder => d = ds'.holder
  <2>1. CASE op[c] = "request"
    <3>1. ds' = updateLocksWaiting(c, ds)[1]
      BY Zenon, <2>1 DEF Handle
    <3>2. ds \in LockState
      BY Zenon, <1>2 DEF Typed
    <3>3. /\ ds' \in LockState /\ Sound(ds') /\ Known(c, ds')
          /\ \A d \in Client : /\ Known(d, ds) => Known(d, ds')
                               /\ d = ds.holder => d = ds'.holder
      BY <1>2, <3>1, <3>2, UpdateKeeps
    <3> QED  BY Zenon, <3>3 DEF Sound, Known
  <2>2. CASE op[c] # "request"
    <3>1. ds' = release(c, ds)[1]
      BY Zenon, <2>2 DEF Handle
    <3>2. ds \in LockState
      BY Zenon, <1>2 DEF Typed
    <3>3. /\ ds' \in LockState /\ Sound(ds')
          /\ \A d \in Client \ {c} : /\ Known(d, ds) => Known(d, ds')
                                     /\ d = ds.holder => d = ds'.holder
      BY <1>2, <3>1, <3>2, ReleaseKeeps
    <3> QED  BY Zenon, <2>2, <3>3 DEF Sound, Known
  <2> QED  BY Zenon, <2>1, <2>2
<1>4. /\ thread' \in [Client -> {"none", "sent", "saving", "saved", "notified"}]
      /\ thread'[c] = "saving" /\ \A d \in Client \ {c} : thread'[d] = thread[d]
  BY Zenon, <1>1, <1>2 DEF Typed
<1>5. Typed' /\ Sound(disk)'
  BY Zenon, <1>1, <1>2, <1>3, <1>4 DEF Typed, Sound
<1>6. \A d \in Client \ {c} : Served(d)' /\ Entered(d)' /\ Kept(d)' /\ Believes(d)'
  BY Zenon, <1>1, <1>3, <1>4, ClientKept
<1>7. Served(c)' /\ Entered(c)' /\ Kept(c)' /\ Believes(c)'
  <2>1. pc[c] \in {"requesting", "freeing", "dead"}
    BY Zenon, <1>1, <1>2 DEF Served
  <2>2. pc[c] = "requesting" => op[c] = "request"
    BY Zenon, <1>2 DEF Served
  <2>3. Served(c)' /\ Entered(c)'
    BY Zenon, <1>1, <1>3, <1>4, <2>1, <2>2 DEF Served, Entered
  <2>4. Kept(c)' /\ Believes(c)'
    BY Zenon, <1>1, <1>4, <2>1 DEF Kept, Believes, Claims
  <2> QED  BY Zenon, <2>3, <2>4
<1> QED  BY Zenon, <1>3, <1>5, <1>6, <1>7 DEF IInv

\* The answers of the worker that saves, whether or not its write succeeded.
LEMMA AnswersKept ==
  ASSUME IInv, AnswerSaving, NEW c \in Client, count' \in [requests : Nat, crashes : Nat,
           failures : Nat, deaths : Nat], count'.failures = 0 => count.failures = 0
  PROVE  /\ thread'[c] \in {"none", "sent", "saved", "notified"}
         /\ Served(c)' /\ Entered(c)' /\ Believes(c)'
<1>1. /\ thread' = [d \in Client |-> IF thread[d] = "saving" THEN "saved" ELSE thread[d]]
      /\ ds' = ds /\ pc' = pc /\ op' = op /\ lost' = lost
  BY Zenon DEF AnswerSaving, client
<1>2. thread'[c] = IF thread[c] = "saving" THEN "saved" ELSE thread[c]
  BY Zenon, <1>1
<1>3. /\ thread[c] \in {"none", "sent", "saving", "saved", "notified"}
      /\ Served(c) /\ Entered(c) /\ Believes(c)
  BY Zenon DEF IInv, Typed
<1>4. /\ thread'[c] \in {"none", "sent", "saved", "notified"}
      /\ thread'[c] = "none" <=> thread[c] = "none"
      /\ thread'[c] \in {"saving", "saved", "notified"}
           => thread[c] \in {"saving", "saved", "notified"}
  BY Zenon, <1>2, <1>3
<1>5. Served(c)'
  BY Zenon, <1>1, <1>3, <1>4 DEF Served
<1>6. Entered(c)'
  BY Zenon, <1>1, <1>3, <1>4 DEF Entered, Known
<1>7. Believes(c)'
  BY Zenon, <1>1, <1>3 DEF Believes, Claims
<1> QED  BY Zenon, <1>4, <1>5, <1>6, <1>7

LEMMA SaveStep ==
  ASSUME IInv, Save
  PROVE  IInv'
<1>1. /\ AnswerSaving /\ disk' = ds /\ count' = count
      /\ ds' = ds /\ pc' = pc /\ op' = op /\ lost' = lost
  BY Zenon DEF Save, AnswerSaving, client
<1>2. Typed /\ Sound(ds)
  BY Zenon DEF IInv
<1>3. ASSUME NEW c \in Client
      PROVE  /\ thread'[c] \in {"none", "sent", "saved", "notified"}
             /\ Served(c)' /\ Entered(c)' /\ Believes(c)'
  <2>1. count' \in [requests : Nat, crashes : Nat, failures : Nat, deaths : Nat]
    BY Zenon, <1>1, <1>2 DEF Typed
  <2> QED  BY Zenon, <1>1, <2>1, AnswersKept
<1>4. thread' \in [Client -> {"none", "sent", "saving", "saved", "notified"}]
  <2>1. thread' = [d \in Client |-> IF thread[d] = "saving" THEN "saved" ELSE thread[d]]
    BY Zenon, <1>1 DEF AnswerSaving
  <2>2. \A d \in Client : thread[d] \in {"none", "sent", "saving", "saved", "notified"}
    BY Zenon, <1>2 DEF Typed
  <2> QED  BY Zenon, <2>1, <2>2
<1>5. Typed' /\ Sound(ds)' /\ Sound(disk)'
  BY Zenon, <1>1, <1>2, <1>4 DEF Typed, Sound
<1>6. ASSUME NEW c \in Client PROVE Kept(c)'
  <2>1. Entered(c)' /\ Believes(c)'
    BY Zenon, <1>3
  <2>2. ASSUME count'.failures = 0, pc'[c] \in {"check", "waiting"} PROVE Known(c, disk)'
    <3>1. Claims(c, ds)'
      BY Zenon, <2>1, <2>2 DEF Believes
    <3>2. c \in ds'.queue \cup {ds'.holder}
      BY Zenon, <2>2, <3>1 DEF Claims
    <3> QED  BY Zenon, <1>1, <3>2 DEF Known
  <2>3. ASSUME pc'[c] = "requesting", thread'[c] \in {"saved", "notified"}
        PROVE  Known(c, disk)'
    BY Zenon, <1>1, <2>1, <2>3 DEF Entered, Known
  <2> QED  BY Zenon, <2>2, <2>3 DEF Kept
<1> QED  BY Zenon, <1>3, <1>5, <1>6 DEF IInv

LEMMA SaveFailsStep ==
  ASSUME IInv, SaveFails
  PROVE  IInv'
<1>1. /\ AnswerSaving /\ disk' = disk /\ count' = [count EXCEPT !.failures = @ + 1]
      /\ ds' = ds /\ pc' = pc /\ op' = op /\ lost' = lost
  BY Zenon DEF SaveFails, AnswerSaving, client
<1>2. Typed /\ Sound(ds) /\ Sound(disk)
  BY Zenon DEF IInv
<1>3. /\ count' \in [requests : Nat, crashes : Nat, failures : Nat, deaths : Nat]
      /\ count'.failures # 0
  BY <1>1, <1>2 DEF Typed
<1>4. \A c \in Client : /\ thread'[c] \in {"none", "sent", "saved", "notified"}
                        /\ Served(c)' /\ Entered(c)' /\ Believes(c)'
  BY Zenon, <1>1, <1>3, AnswersKept
<1>5. thread' \in [Client -> {"none", "sent", "saving", "saved", "notified"}]
  <2>1. thread' = [d \in Client |-> IF thread[d] = "saving" THEN "saved" ELSE thread[d]]
    BY Zenon, <1>1 DEF AnswerSaving
  <2>2. \A d \in Client : thread[d] \in {"none", "sent", "saving", "saved", "notified"}
    BY Zenon, <1>2 DEF Typed
  <2> QED  BY Zenon, <2>1, <2>2
<1>6. Typed' /\ Sound(ds)' /\ Sound(disk)'
  BY Zenon, <1>1, <1>2, <1>3, <1>5 DEF Typed, Sound
<1>7. \A c \in Client : Kept(c)'
  BY Zenon, <1>3 DEF Kept
<1> QED  BY Zenon, <1>4, <1>6, <1>7 DEF IInv

LEMMA NotifyStep ==
  ASSUME IInv, NEW c \in Client, Notify(c)
  PROVE  IInv'
<1>1. /\ thread[c] = "saved" /\ thread' = [thread EXCEPT ![c] = "notified"]
      /\ ds' = ds /\ disk' = disk /\ pc' = pc /\ op' = op /\ lost' = lost /\ count' = count
  BY Zenon DEF Notify
<1>2. Typed /\ Sound(ds) /\ Sound(disk) /\ Served(c) /\ Entered(c) /\ Kept(c) /\ Believes(c)
  BY Zenon DEF IInv
<1>3. /\ thread' \in [Client -> {"none", "sent", "saving", "saved", "notified"}]
      /\ thread'[c] = "notified" /\ \A d \in Client \ {c} : thread'[d] = thread[d]
  BY Zenon, <1>1, <1>2 DEF Typed
<1>4. Typed' /\ Sound(ds)' /\ Sound(disk)'
  BY Zenon, <1>1, <1>2, <1>3 DEF Typed, Sound
<1>5. \A d \in Client \ {c} : Served(d)' /\ Entered(d)' /\ Kept(d)' /\ Believes(d)'
  BY Zenon, <1>1, <1>3, ClientKept DEF Known
<1>6. Served(c)' /\ Entered(c)' /\ Kept(c)' /\ Believes(c)'
  BY Zenon, <1>1, <1>2, <1>3 DEF Served, Entered, Kept, Known, Believes, Claims
<1> QED  BY Zenon, <1>4, <1>5, <1>6 DEF IInv

LEMMA ReplyStep ==
  ASSUME IInv, NEW c \in Client, Reply(c)
  PROVE  IInv'
<1>1. /\ thread[c] = "notified" /\ thread' = [thread EXCEPT ![c] = "none"]
      /\ pc' = [pc EXCEPT ![c] = CASE @ = "requesting" -> "check"
                                   [] @ = "freeing" -> "idle"
                                   [] OTHER -> @]
      /\ ds' = ds /\ disk' = disk /\ op' = op /\ lost' = lost /\ count' = count
  BY Zenon DEF Reply
<1>2. Typed /\ Sound(ds) /\ Sound(disk) /\ Served(c) /\ Entered(c) /\ Kept(c)
  BY Zenon DEF IInv
<1>3. /\ pc[c] \in {"requesting", "freeing", "dead"}
      /\ pc[c] = "requesting" => pc'[c] = "check"
      /\ pc[c] = "freeing" => pc'[c] = "idle"
      /\ pc[c] = "dead" => pc'[c] = "dead"
  BY Zenon, <1>1, <1>2 DEF Typed, Served, Place
<1>4. pc' \in [Client -> Place] /\ \A d \in Client \ {c} : pc'[d] = pc[d]
  BY Zenon, <1>1, <1>2, <1>3 DEF Typed, Place
<1>5. /\ thread' \in [Client -> {"none", "sent", "saving", "saved", "notified"}]
      /\ thread'[c] = "none" /\ \A d \in Client \ {c} : thread'[d] = thread[d]
  BY Zenon, <1>1, <1>2 DEF Typed
<1>6. Typed' /\ Sound(ds)' /\ Sound(disk)'
  BY Zenon, <1>1, <1>2, <1>4, <1>5 DEF Typed, Sound
<1>7. \A d \in Client \ {c} : Served(d)' /\ Entered(d)' /\ Kept(d)' /\ Believes(d)'
  BY Zenon, <1>1, <1>4, <1>5, ClientKept DEF Known
<1>8. Served(c)' /\ Entered(c)' /\ Kept(c)' /\ Believes(c)'
  <2>1. CASE pc[c] = "requesting"
    <3>1. Known(c, ds) /\ (count.failures = 0 => Known(c, disk)) /\ pc'[c] = "check"
      BY Zenon, <1>1, <1>2, <1>3, <2>1 DEF Entered, Kept
    <3> QED  BY Zenon, <1>1, <1>5, <3>1 DEF Served, Entered, Kept, Known, Believes, Claims
  <2>2. CASE pc[c] # "requesting"
    <3>1. pc'[c] \in {"idle", "dead"}
      BY Zenon, <1>3, <2>2
    <3> QED  BY Zenon, <1>5, <3>1 DEF Served, Entered, Kept, Believes, Claims
  <2> QED  BY Zenon, <2>1, <2>2
<1> QED  BY Zenon, <1>6, <1>7, <1>8 DEF IInv

\* A job that goes from one place to another, and perhaps sends an RPC.
LEMMA MoveStep ==
  ASSUME IInv, NEW c \in Client, NEW x \in Place, pc' = [pc EXCEPT ![c] = x],
         ds' = ds, disk' = disk,
         \/ thread' = thread /\ op' = op
         \/ \E o \in {"request", "free"} : /\ thread' = [thread EXCEPT ![c] = "sent"]
                                           /\ op' = [op EXCEPT ![c] = o],
         count' \in [requests : Nat, crashes : Nat, failures : Nat, deaths : Nat],
         count'.failures = count.failures,
         \A d \in Client \ {c} : d \in lost => d \in lost',
         Served(c)' /\ Entered(c)' /\ Kept(c)' /\ Believes(c)'
  PROVE  IInv'
<1>1. Typed /\ Sound(ds) /\ Sound(disk)
  BY Zenon DEF IInv
<1>2. pc' \in [Client -> Place] /\ \A d \in Client \ {c} : pc'[d] = pc[d]
  BY Zenon, <1>1 DEF Typed
<1>3. /\ thread' \in [Client -> {"none", "sent", "saving", "saved", "notified"}]
      /\ op' \in [Client -> {"request", "free"}]
      /\ \A d \in Client \ {c} : thread'[d] = thread[d] /\ op'[d] = op[d]
  BY ZenonT(60), <1>1 DEF Typed
<1>4. Typed' /\ Sound(ds)' /\ Sound(disk)'
  BY Zenon, <1>1, <1>2, <1>3 DEF Typed, Sound
<1>5. \A d \in Client \ {c} : Served(d)' /\ Entered(d)' /\ Kept(d)' /\ Believes(d)'
  BY Zenon, <1>2, <1>3, ClientKept DEF Known
<1> QED  BY Zenon, <1>4, <1>5 DEF IInv

\* A job that is not in an RPC is not served, and what it knows of the lock.
LEMMA Outside ==
  ASSUME IInv, NEW c \in Client, pc[c] \notin {"requesting", "freeing", "dead"}
  PROVE  /\ thread[c] = "none" /\ Kept(c) /\ Believes(c)
         /\ count \in [requests : Nat, crashes : Nat, failures : Nat, deaths : Nat]
         /\ pc \in [Client -> Place]
BY Zenon DEF IInv, Served, Typed

LEMMA RequestStep ==
  ASSUME IInv, NEW c \in Client, NEW m, Request(c, m)
  PROVE  IInv'
<1>1. /\ pc[c] = "idle" /\ pc' = [pc EXCEPT ![c] = "requesting"]
      /\ thread' = [thread EXCEPT ![c] = "sent"] /\ op' = [op EXCEPT ![c] = "request"]
      /\ ds' = ds /\ disk' = disk /\ lost' = lost
      /\ count' = [count EXCEPT !.requests = @ + 1]
  BY Zenon DEF Request, Send
<1>2. Typed
  BY Zenon DEF IInv
<1>3. /\ count' \in [requests : Nat, crashes : Nat, failures : Nat, deaths : Nat]
      /\ count'.failures = count.failures
  BY <1>1, <1>2 DEF Typed
<1>4. pc'[c] = "requesting" /\ thread'[c] = "sent" /\ op'[c] = "request"
  BY Zenon, <1>1, <1>2 DEF Typed
<1>5. Served(c)' /\ Entered(c)' /\ Kept(c)' /\ Believes(c)'
  BY Zenon, <1>4 DEF Served, Entered, Kept, Believes, Claims
<1>6. "requesting" \in Place
  BY Zenon DEF Place
<1> QED  BY Zenon, <1>1, <1>3, <1>5, <1>6, MoveStep

\* A job that finds no request pending, and goes to work.
LEMMA WorkStep ==
  ASSUME IInv, NEW c \in Client, pc[c] \in {"check", "waiting"}, c \notin ds.queue,
         pc' = [pc EXCEPT ![c] = "working"], UNCHANGED <<ds, disk, thread, op, lost, count>>
  PROVE  IInv'
<1>1. /\ thread[c] = "none" /\ Believes(c) /\ pc \in [Client -> Place]
      /\ count \in [requests : Nat, crashes : Nat, failures : Nat, deaths : Nat]
  BY Zenon, Outside
<1>2. pc'[c] = "working"
  BY Zenon, <1>1
<1>3. c = ds.holder \/ c \in lost
  BY Zenon, <1>1 DEF Believes, Claims
<1>4. Served(c)' /\ Entered(c)' /\ Kept(c)' /\ Believes(c)'
  BY Zenon, <1>1, <1>2, <1>3 DEF Served, Entered, Kept, Believes, Claims
<1>5. "working" \in Place
  BY Zenon DEF Place
<1> QED  BY Zenon, <1>1, <1>4, <1>5, MoveStep

\* A job that frees its locks.
LEMMA FreeStep ==
  ASSUME IInv, NEW c \in Client, pc' = [pc EXCEPT ![c] = "freeing"], Send(c, "free"),
         \A d \in Client \ {c} : d \in lost => d \in lost', UNCHANGED count
  PROVE  IInv'
<1>1. /\ thread' = [thread EXCEPT ![c] = "sent"] /\ op' = [op EXCEPT ![c] = "free"]
      /\ ds' = ds /\ disk' = disk
  BY Zenon DEF Send
<1>2. Typed
  BY Zenon DEF IInv
<1>3. pc'[c] = "freeing"
  BY Zenon, <1>2 DEF Typed
<1>4. Served(c)' /\ Entered(c)' /\ Kept(c)' /\ Believes(c)'
  BY Zenon, <1>3 DEF Served, Entered, Kept, Believes, Claims
<1>5. /\ "freeing" \in Place
      /\ count \in [requests : Nat, crashes : Nat, failures : Nat, deaths : Nat]
  BY Zenon, <1>2 DEF Place, Typed
<1> QED  BY Zenon, <1>1, <1>4, <1>5, MoveStep

LEMMA WaitStep ==
  ASSUME IInv, NEW c \in Client, Wait(c)
  PROVE  IInv'
<1>1. CASE CheckPending(c)
  <2>1. /\ pc[c] = "check" /\ UNCHANGED <<ds, disk, thread, op, lost, count>>
        /\ pc' = [pc EXCEPT ![c] = IF c \in ds.queue THEN "waiting" ELSE "working"]
    BY Zenon, <1>1 DEF CheckPending, hasPendingRequest, daemon
  <2>2. CASE c \in ds.queue
    <3>1. pc' = [pc EXCEPT ![c] = "waiting"]
      BY Zenon, <2>1, <2>2
    <3>2. /\ thread[c] = "none" /\ Kept(c) /\ pc \in [Client -> Place]
          /\ count \in [requests : Nat, crashes : Nat, failures : Nat, deaths : Nat]
      BY Zenon, <2>1, Outside
    <3>3. pc'[c] = "waiting" /\ (count.failures = 0 => Known(c, disk))
      BY Zenon, <2>1, <3>1, <3>2 DEF Kept
    <3>4. Served(c)' /\ Entered(c)' /\ Kept(c)' /\ Believes(c)'
      BY Zenon, <2>1, <2>2, <3>2, <3>3
         DEF Served, Entered, Kept, Known, Believes, Claims
    <3>5. "waiting" \in Place
      BY Zenon DEF Place
    <3> QED  BY Zenon, <2>1, <3>1, <3>2, <3>4, <3>5, MoveStep
  <2>3. CASE c \notin ds.queue
    <3>1. pc' = [pc EXCEPT ![c] = "working"]
      BY Zenon, <2>1, <2>3
    <3> QED  BY Zenon, <2>1, <2>3, <3>1, WorkStep
  <2> QED  BY Zenon, <2>2, <2>3
<1>2. CASE Poll(c)
  <2>1. /\ pc[c] = "waiting" /\ UNCHANGED <<ds, disk, thread, op, lost, count>>
        /\ pc' = [pc EXCEPT ![c] = "working"] /\ c \notin ds.queue
    BY Zenon, <1>2 DEF Poll, hasPendingRequest, daemon
  <2> QED  BY Zenon, <2>1, WorkStep
<1>3. CASE Timeout(c)
  <2>1. pc[c] = "waiting" /\ lost' = lost /\ count' = count
    BY Zenon, <1>3 DEF Timeout
  <2>2. CASE pc' = [pc EXCEPT ![c] = "freeing"] /\ Send(c, "free")
    BY Zenon, <2>1, <2>2, FreeStep
  <2>3. CASE /\ c \notin ds.queue /\ pc' = [pc EXCEPT ![c] = "working"]
             /\ UNCHANGED <<daemon, op>>
    <3>1. UNCHANGED <<ds, disk, thread, op, lost, count>>
      BY Zenon, <2>1, <2>3 DEF daemon
    <3> QED  BY Zenon, <2>1, <2>3, <3>1, WorkStep
  <2> QED  BY Zenon, <1>3, <2>2, <2>3 DEF Timeout, hasPendingRequest
<1> QED  BY Zenon, <1>1, <1>2, <1>3 DEF Wait

LEMMA DieStep ==
  ASSUME IInv, NEW c \in Client, Die(c)
  PROVE  IInv'
<1>1. /\ pc' = [pc EXCEPT ![c] = "dead"] /\ count' = [count EXCEPT !.deaths = @ + 1]
      /\ lost' = lost \ {c} /\ ds' = ds /\ disk' = disk /\ thread' = thread /\ op' = op
  BY Zenon DEF Die, daemon
<1>2. Typed
  BY Zenon DEF IInv
<1>3. /\ count' \in [requests : Nat, crashes : Nat, failures : Nat, deaths : Nat]
      /\ count'.failures = count.failures
  BY <1>1, <1>2 DEF Typed
<1>4. pc'[c] = "dead" /\ "dead" \in Place
  BY Zenon, <1>1, <1>2 DEF Typed, Place
<1>5. Served(c)' /\ Entered(c)' /\ Kept(c)' /\ Believes(c)'
  BY Zenon, <1>4 DEF Served, Entered, Kept, Believes, Claims
<1> QED  BY Zenon, <1>1, <1>3, <1>4, <1>5, MoveStep

LEMMA CleanupDeadStep ==
  ASSUME IInv, NEW c \in Client, CleanupDead(c)
  PROVE  IInv'
<1>1. /\ pc[c] = "dead" /\ ds' = release(c, ds)[1]
      /\ disk' = disk /\ thread' = thread /\ pc' = pc /\ op' = op
      /\ lost' = lost /\ count' = count
  BY Zenon DEF CleanupDead, client
<1>2. Typed /\ Sound(ds) /\ Sound(disk) /\ ds \in LockState
  BY Zenon DEF IInv, Typed
<1>3. /\ ds' \in LockState /\ Sound(ds')
      /\ \A d \in Client \ {c} : /\ Known(d, ds) => Known(d, ds')
                                 /\ d = ds.holder => d = ds'.holder
  BY <1>1, <1>2, ReleaseKeeps
<1>4. Typed' /\ Sound(ds)' /\ Sound(disk)'
  BY Zenon, <1>1, <1>2, <1>3 DEF Typed, Sound
<1>5. \A d \in Client \ {c} : Served(d)' /\ Entered(d)' /\ Kept(d)' /\ Believes(d)'
  BY Zenon, <1>1, <1>3, ClientKept DEF Known
<1>6. Served(c)' /\ Entered(c)' /\ Kept(c)' /\ Believes(c)'
  BY Zenon, <1>1 DEF Served, Entered, Kept, Believes, Claims
<1> QED  BY Zenon, <1>4, <1>5, <1>6 DEF IInv

LEMMA CrashStep ==
  ASSUME IInv, Crash
  PROVE  IInv'
<1>1. /\ ds' = disk /\ disk' = disk /\ pc' = pc /\ op' = op
      /\ thread' = [c \in Client |-> IF thread[c] # "none" /\ pc[c] # "dead"
                                       THEN "sent" ELSE "none"]
      /\ lost' = lost \cup {c \in Client : ~Claims(c, disk)}
      /\ count' = [count EXCEPT !.crashes = @ + 1]
  BY Zenon DEF Crash, client
<1>2. Typed /\ Sound(disk)
  BY Zenon DEF IInv
<1>3. /\ count' \in [requests : Nat, crashes : Nat, failures : Nat, deaths : Nat]
      /\ count'.failures = count.failures
  BY <1>1, <1>2 DEF Typed
<1>4. thread' \in [Client -> {"none", "sent", "saving", "saved", "notified"}]
  BY Zenon, <1>1
<1>5. Typed' /\ Sound(ds)' /\ Sound(disk)'
  BY Zenon, <1>1, <1>2, <1>3, <1>4 DEF Typed, Sound
<1>6. ASSUME NEW c \in Client
      PROVE  Served(c)' /\ Entered(c)' /\ Kept(c)' /\ Believes(c)'
  <2>1. Served(c) /\ Kept(c)
    BY Zenon DEF IInv
  <2>2. thread'[c] = IF thread[c] # "none" /\ pc[c] # "dead" THEN "sent" ELSE "none"
    BY Zenon, <1>1
  <2>3. /\ thread'[c] \in {"sent", "none"}
        /\ thread'[c] # "none" => thread[c] # "none"
        /\ pc[c] = "requesting" /\ thread[c] # "none" => thread'[c] # "none"
    BY Zenon, <2>2
  <2>4. Served(c)'
    BY Zenon, <1>1, <2>1, <2>3 DEF Served
  <2>5. Entered(c)' /\ Kept(c)'
    BY Zenon, <1>1, <1>3, <2>1, <2>3 DEF Entered, Kept, Known
  <2>6. Believes(c)'
    <3>1. Claims(c, disk) <=> Claims(c, ds)'
      BY Zenon, <1>1 DEF Claims
    <3>2. CASE Claims(c, disk)
      BY Zenon, <3>1, <3>2 DEF Believes
    <3>3. CASE ~Claims(c, disk)
      <4>1. c \in lost'
        BY Zenon, <1>1, <3>3
      <4>2. count.failures = 0 /\ pc[c] \in {"check", "waiting"} => Known(c, disk)
        BY Zenon, <2>1 DEF Kept
      <4>3. count.failures = 0 => pc[c] \notin {"check", "waiting"}
        BY Zenon, <3>3, <4>2 DEF Claims, Known
      <4> QED  BY Zenon, <1>1, <1>3, <4>1, <4>3 DEF Believes
    <3> QED  BY Zenon, <3>2, <3>3
  <2> QED  BY Zenon, <2>4, <2>5, <2>6
<1> QED  BY Zenon, <1>5, <1>6 DEF IInv

-----------------------------------------------------------------------------
LEMMA NextStep == IInv /\ [Next]_vars => IInv'
<1> SUFFICES ASSUME IInv, [Next]_vars PROVE IInv'  OBVIOUS
<1>1. ASSUME NEW c \in Client, Serve(c) PROVE IInv'
  BY Zenon, <1>1, HandleStep, NotifyStep, ReplyStep DEF Serve
<1>2. ASSUME NEW c \in Client, Finish(c) PROVE IInv'
  <2>1. /\ pc' = [pc EXCEPT ![c] = "freeing"] /\ Send(c, "free")
        /\ lost' = lost \ {c} /\ UNCHANGED count
    BY Zenon, <1>2 DEF Finish
  <2> QED  BY Zenon, <2>1, FreeStep
<1>3. CASE UNCHANGED <<ds, disk, thread, pc, op, lost, count>>
  BY ZenonT(60), <1>3 DEF IInv, Typed, Sound, Served, Entered, Kept, Known, Believes, Claims
<1>4. CASE CleanerNotify \/ UNCHANGED vars
  <2>1. UNCHANGED <<ds, disk, thread, pc, op, lost, count>>
    BY Zenon, <1>4 DEF CleanerNotify, vars, daemon, client
  <2> QED  BY Zenon, <1>3, <2>1
<1> QED
  BY Zenon, <1>1, <1>2, <1>4, SaveStep, SaveFailsStep, CrashStep, WaitStep,
     CleanupDeadStep, DieStep, RequestStep DEF Next

LEMMA Invariance == Spec => []IInv
<1>1. Init => IInv
  BY Zenon, InitIInv
<1>2. IInv /\ [Next]_vars => IInv'
  BY Zenon, NextStep
<1> QED  BY <1>1, <1>2, PTL DEF Spec

(***************************************************************************)
(* A job that works under the lock holds it, and a job that waits for it   *)
(* is queued or holds it, unless its claim was not on disk when WConfd     *)
(* crashed; and a request that WConfd has answered loses its place only if *)
(* a write of the lock state failed (modifyLockWaiting answers after the   *)
(* state is saved, prepMain restarts from it).                             *)
(***************************************************************************)
THEOREM BeliefsHold == Spec => []BeliefsTrue
<1>1. IInv => BeliefsTrue
  BY Zenon DEF IInv, Believes, BeliefsTrue
<1> QED  BY <1>1, Invariance, PTL

(***************************************************************************)
(* So the lock excludes: of two jobs that work under it at the same time   *)
(* one has lost it in a crash of WConfd.                                   *)
(***************************************************************************)
THEOREM ExclusionUnlessLost ==
  Spec => [](\A c, d \in Client :
               pc[c] = "working" /\ pc[d] = "working" /\ c # d => c \in lost \/ d \in lost)
<1>1. IInv => \A c, d \in Client :
                pc[c] = "working" /\ pc[d] = "working" /\ c # d => c \in lost \/ d \in lost
  <2> SUFFICES ASSUME IInv, NEW c \in Client, NEW d \in Client, pc[c] = "working",
                      pc[d] = "working", c # d
               PROVE  c \in lost \/ d \in lost
    BY Zenon
  <2>1. Believes(c) /\ Believes(d)
    BY Zenon DEF IInv
  <2> QED  BY Zenon, <2>1 DEF Believes, Claims
<1> QED  BY <1>1, Invariance, PTL

=============================================================================
