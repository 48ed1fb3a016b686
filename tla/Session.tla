------------------------------- MODULE Session -------------------------------
(***************************************************************************)
(* A stream of messages of several types that recovers from lost frames    *)
(* with residc_snapshot and residc_restore, as residc.h and                *)
(* test_roundtrip.c use them: both sides take a snapshot at the same       *)
(* messages, and after a gap, or an encode that failed for lack of         *)
(* capacity, both restore the last one the receiver has and the sender     *)
(* encodes the messages since then again.                                  *)
(*                                                                         *)
(* A frame says nothing about the state it was made from and a decoder     *)
(* cannot tell that it is the wrong one, so the applications number the    *)
(* frames, and count the recoveries to know frames of an earlier pass.     *)
(* Loss, repetition and exchange of frames are the transport's.            *)
(*                                                                         *)
(* Both sides select the Exp-Golomb coder and seed the MFU table at agreed *)
(* messages; the selection and the table are part of a snapshot.           *)
(***************************************************************************)
EXTENDS Multi

CONSTANTS
    Messages,           \* what the application sends: [type, msg]
    Capacities,         \* sizes of the buffers it passes
    CHECKPOINT,         \* messages between snapshots
    SWITCH,             \* message before which the coder is selected
    SEED,               \* message before which the MFU table is seeded
    SeedList,           \* with these instruments: [instrument_id, count]
    MAX_MESSAGES,       \* bound: messages
    LINK_SIZE,          \* bound: frames in transit
    MAX_FAULTS          \* bound: frames lost, repeated or exchanged, and failed encodes

ASSUME SessionAssumption ==
    /\ \A m \in Messages : m.type \in DOMAIN TypeIndex
    /\ \A m \in Messages : Accepted(m) =>
          \E schema \in {SchemaOf(TypeIndex[m.type])} :
              m.msg \in Message(schema) /\ Typed(schema, m.msg) /\ Representable(schema, m.msg)
    /\ \A capacity \in Capacities : capacity \in Nat /\ capacity >= 2
    /\ SeedList \in Seq(Entry)
    /\ CHECKPOINT \in Nat \ {0}
    /\ LINK_SIZE \in Nat \ {0}
    /\ MAX_MESSAGES \in Nat /\ MAX_FAULTS \in Nat

VARIABLES
    log,            \* messages the application has sent
    enc,            \* the sender's codec state
    next,           \* number of the message it encodes next
    saved,          \* its snapshots, by the number of messages before them
    refused,        \* an encode has failed since the last restore
    link,           \* frames in transit: [num, epoch, frame]
    dec,            \* the receiver's codec state
    got,            \* messages it has decoded in this pass
    snap,           \* its last snapshot: [num, st]
    gap,            \* a later frame than the next has come
    handed,         \* messages handed to its application
    epoch,          \* recoveries so far, known to both sides
    faults          \* frames lost, repeated or exchanged and encodes failed so far

sender   == <<log, enc, next, saved, refused>>
receiver == <<dec, got, snap, gap, handed>>
vars     == <<sender, link, receiver, epoch, faults>>

-----------------------------------------------------------------------------
\* What both sides do to their states before message n.
Prepared(st, n) ==
    LET seeded == IF n = SEED THEN [st EXCEPT !.codec.mfu = Seed(SeedList, Len(SeedList))]
                  ELSE st
    IN  IF n = SWITCH THEN [seeded EXCEPT !.codec = SetCoder(@, "expgolomb")] ELSE seeded

\* residc_restore: all of the state but the schemas, which stay the same.
Restore(st, s) == s

\* residc_snapshot
Snapshot(st) == st

Init ==
    /\ log = << >>
    /\ enc = InitMulti
    /\ next = 1
    /\ saved = [n \in {0} |-> InitMulti]
    /\ refused = FALSE
    /\ link = << >>
    /\ dec = InitMulti
    /\ got = 0
    /\ snap = [num |-> 0, st |-> InitMulti]
    /\ gap = FALSE
    /\ handed = << >>
    /\ epoch = 0
    /\ faults = 0

\* The next message is encoded; every CHECKPOINT messages the sender
\* keeps a snapshot.
Encoded(e) ==
    /\ ~e.error
    /\ enc' = e.st
    /\ link' = Append(link, [num |-> next, epoch |-> epoch, frame |-> e.frame])
    /\ saved' = IF next % CHECKPOINT = 0
                THEN [n \in DOMAIN saved \cup {next} |->
                          IF n = next THEN Snapshot(e.st) ELSE saved[n]]
                ELSE saved
    /\ next' = next + 1
    /\ UNCHANGED <<refused, receiver, epoch, faults>>

\* RESIDC_ERR_CAPACITY: nothing is sent, but the codec has moved.
Refused(e) ==
    /\ e.error
    /\ faults < MAX_FAULTS
    /\ faults' = faults + 1
    /\ enc' = e.st
    /\ refused' = TRUE
    /\ UNCHANGED <<log, next, saved, link, receiver, epoch>>

CanEncode == Len(link) < LINK_SIZE /\ ~refused

Send(m, capacity) ==
    /\ next = Len(log) + 1
    /\ next <= MAX_MESSAGES
    /\ CanEncode /\ Accepted(m)
    /\ \E e \in {EncodeMulti(st, m, capacity) : st \in {Prepared(enc, next)}} :
          \/ Encoded(e) /\ log' = Append(log, m)
          \/ Refused(e)

\* After a recovery: a message that has been sent before, with room enough.
Replay ==
    /\ next <= Len(log)
    /\ CanEncode
    /\ \E capacity \in {c \in Capacities : \A d \in Capacities : d <= c} :
          \E e \in {EncodeMulti(st, log[next], capacity) : st \in {Prepared(enc, next)}} :
              Encoded(e)
    /\ UNCHANGED log

-----------------------------------------------------------------------------
\* The frame is the next of the current pass.
IsNext(f) == f.epoch = epoch /\ f.num = got + 1

\* residc_decode_multi of the next frame.  Frames of an earlier pass and frames
\* seen before are dropped, a frame that comes too early shows a gap.
Receive ==
    /\ link # << >>
    /\ LET f == Head(link)
       IN  IF ~gap /\ IsNext(f)
           THEN \E d \in {DecodeMulti(st, f.frame) : st \in {Prepared(dec, got + 1)}} :
                   /\ dec' = d.st
                   /\ got' = got + 1
                   /\ handed' = IF got < Len(handed) THEN handed
                                ELSE Append(handed, d.msg)
                   /\ snap' = IF (got + 1) % CHECKPOINT = 0
                              THEN [num |-> got + 1, st |-> Snapshot(d.st)] ELSE snap
                   /\ UNCHANGED gap
           ELSE /\ gap' = (gap \/ (f.epoch = epoch /\ f.num > got + 1))
                /\ UNCHANGED <<dec, got, handed, snap>>
    /\ link' = Tail(link)
    /\ UNCHANGED <<sender, epoch, faults>>

\* Fault: the last frames of a pass are not missed.
MissesSomethingLater == gap

\* The receiver has seen a gap, or hears nothing though the sender has sent.
MissesSomething == gap \/ (link = << >> /\ got + 1 < next)

\* Both sides go back to the receiver's last snapshot.
Recover ==
    /\ MissesSomething \/ refused
    /\ enc' = Restore(enc, saved[snap.num])
    /\ next' = snap.num + 1
    /\ refused' = FALSE
    /\ dec' = Restore(dec, snap.st)
    /\ got' = snap.num
    /\ gap' = FALSE
    /\ epoch' = epoch + 1
    /\ UNCHANGED <<log, saved, link, snap, handed, faults>>

-----------------------------------------------------------------------------
(* The transport. *)

Faulty(frames) ==
    /\ faults < MAX_FAULTS
    /\ faults' = faults + 1
    /\ link' = frames
    /\ UNCHANGED <<sender, receiver, epoch>>

Lose(i)   == Faulty([k \in 1 .. Len(link) - 1 |-> IF k < i THEN link[k] ELSE link[k + 1]])
Repeat(i) == Len(link) < LINK_SIZE /\ Faulty(Append(link, link[i]))
Exchange(i) ==
    i < Len(link) /\ Faulty([link EXCEPT ![i] = link[i + 1], ![i + 1] = link[i]])

Next ==
    \/ \E m \in Messages, capacity \in Capacities : Send(m, capacity)
    \/ Replay
    \/ Receive
    \/ Recover
    \/ \E i \in 1 .. Len(link) : Lose(i) \/ Repeat(i) \/ Exchange(i)

\* The receiver takes what arrives, a gap is reported in the end, and the
\* sender replays.  The application need not send, the transport not fail.
Spec == Init /\ [][Next]_vars /\ WF_vars(Replay) /\ WF_vars(Receive) /\ WF_vars(Recover)

-----------------------------------------------------------------------------
\* States and numbers are of their types.
TypeOK ==
    /\ enc \in MultiState /\ dec \in MultiState /\ snap.st \in MultiState
    /\ next \in 1 .. Len(log) + 1
    /\ got \in snap.num .. next - 1
    /\ snap.num \in DOMAIN saved
    /\ Len(handed) <= Len(log)
    /\ epoch \in 0 .. faults

\* When the receiver has decoded all there is, both states are equal again:
\* coder, table, counters and the last type were restored to what they were,
\* not left as the abandoned pass or the failed encode had them.  At any time
\* the snapshot the receiver would go back to is the one the sender has for
\* the same message, whatever was lost before or after it was taken.
InStep ==
    /\ got = next - 1 /\ ~gap /\ ~refused => dec = enc
    /\ saved[snap.num] = snap.st

\* Messages reach the other application unchanged, as their own type, once
\* and in order, though frames are lost, repeated and exchanged and encodes
\* fail; and all of them do in the end.
Received(m) == [type |-> m.type, msg |-> Wire(SchemaOf(TypeIndex[m.type]), m.msg)]

Fifo == INSTANCE MessageFifo WITH sent <- log, received <- handed

ImplementsFifo == Fifo!Spec

\* A frame fits into the buffer that was passed for it ("capacity: size of
\* output buffer" of residc_encode, which residc_encode_multi shares).
WithinCapacity ==
    [][\A m \in Messages, capacity \in Capacities :
          Send(m, capacity) /\ link' # link => link'[Len(link')].frame.len <= capacity]_vars
=============================================================================
