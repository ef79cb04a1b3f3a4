----------------------------- MODULE SessionInbox -----------------------------
(***************************************************************************)
(* The control replies of a USB session (OizysCore/usb_session.c).  A      *)
(* reader thread fills a ring of INBOX replies, the thread that owns the   *)
(* driver takes them, waiting on a condition variable, and the thread that *)
(* closes the session joins the reader before it frees the ring.  The      *)
(* flags are atomics that are written without the lock.                    *)
(***************************************************************************)
EXTENDS Integers, Sequences

CONSTANTS
    INBOX,          \* replies in the ring
    MaxReplies      \* bound: replies the dock sends

ASSUME InboxAssumption == INBOX \in Nat \ {0} /\ MaxReplies \in Nat

VARIABLES
    inbox, inbox_r, inbox_w, inbox_n,
    closing, failed, lossy,
    reader,         \* where read_control is
    bytes,          \* the reply it has read off the pipe
    caller,         \* where oizys_session_recv is
    woken,          \* the condition variable has let the caller go
    owner,          \* where oizys_session_close is
    \* History.
    arrived,        \* replies the dock has sent
    taken           \* the last reply returned by recv, NoReply before it

ring == <<inbox, inbox_r, inbox_w, inbox_n>>
flags == <<closing, failed, lossy>>
history == <<arrived, taken>>
inboxVars == <<ring, flags, reader, bytes, caller, woken, owner, history>>

NoReply == -1
Numbers == 0 .. MaxReplies - 1      \* numbered in the order they are sent
Index == 0 .. INBOX - 1

InboxTypeOK ==
    /\ inbox \in [Index -> Numbers \cup {NoReply}]
    /\ inbox_r \in Index /\ inbox_w \in Index /\ inbox_n \in 0 .. INBOX
    /\ {closing, failed, lossy, woken} \subseteq BOOLEAN
    /\ reader \in {"unstarted", "top", "reading", "deliver", "overflow", "leaving", "ended"}
    /\ bytes \in Numbers \cup {NoReply}
    /\ caller \in {"out", "checking", "waiting"}
    /\ owner \in {"opening", "open", "closing", "joined", "freed"}
    /\ arrived \in 0 .. MaxReplies /\ taken \in Numbers \cup {NoReply}

InboxInit ==
    /\ inbox = [i \in Index |-> NoReply]
    /\ inbox_r = 0 /\ inbox_w = 0 /\ inbox_n = 0
    /\ closing = FALSE /\ failed = FALSE /\ lossy = FALSE
    /\ reader = "unstarted" /\ bytes = NoReply
    /\ caller = "out" /\ woken = FALSE /\ owner = "opening"
    /\ arrived = 0 /\ taken = NoReply

-----------------------------------------------------------------------------
(* The reader thread.                                                      *)

\* The head of the loop, and then ReadPipeTO: closing is looked at around it.
ReaderLoops ==
    /\ reader = "top"
    /\ reader' = IF closing THEN "leaving" ELSE "reading"
    /\ UNCHANGED <<ring, flags, bytes, caller, woken, owner, history>>

\* A timeout or an empty transfer, or the AbortPipe of close.
ReadsNothing ==
    /\ reader = "reading"
    /\ reader' = IF closing THEN "leaving" ELSE "top"
    /\ UNCHANGED <<ring, flags, bytes, caller, woken, owner, history>>

ReadFails ==
    /\ reader = "reading" /\ ~closing
    /\ failed' = TRUE /\ reader' = "leaving"
    /\ UNCHANGED <<ring, closing, lossy, bytes, caller, woken, owner, history>>

ReadsReply ==
    /\ reader = "reading" /\ ~closing /\ arrived < MaxReplies
    /\ bytes' = arrived /\ arrived' = arrived + 1
    /\ reader' = "deliver"
    /\ UNCHANGED <<ring, flags, caller, woken, owner, taken>>

Full == inbox_n = INBOX

\* Where the read index goes when the oldest reply makes room for the newest.
Oldest == (inbox_r + 1) % INBOX

\* Mutant: no signal.
WakeNobody == UNCHANGED woken

Wake == woken' = (woken \/ caller = "waiting")

\* Mutant: a full ring is written over without moving its read index.
DeliverOver ==
    /\ reader = "deliver"
    /\ Full => lossy
    /\ inbox' = [inbox EXCEPT ![inbox_w] = bytes]
    /\ inbox_w' = (inbox_w + 1) % INBOX
    /\ IF Full
       THEN UNCHANGED <<inbox_r, inbox_n>>
       ELSE inbox_n' = inbox_n + 1 /\ UNCHANGED inbox_r
    /\ bytes' = NoReply /\ Wake
    /\ reader' = IF failed THEN "leaving" ELSE "top"
    /\ UNCHANGED <<flags, caller, owner, arrived, taken>>

\* Under the lock: room is made if the session is lossy, and the reply is put
\* in the ring.  Neither happens when it is full and lossy was not set.
Deliver ==
    /\ reader = "deliver"
    /\ Full => lossy
    /\ inbox' = [inbox EXCEPT ![inbox_w] = bytes]
    /\ inbox_w' = (inbox_w + 1) % INBOX
    /\ IF Full
       THEN inbox_r' = Oldest /\ UNCHANGED inbox_n
       ELSE inbox_n' = inbox_n + 1 /\ UNCHANGED inbox_r
    /\ bytes' = NoReply /\ Wake
    /\ reader' = IF failed THEN "leaving" ELSE "top"
    /\ UNCHANGED <<flags, caller, owner, arrived, taken>>

\* Full and lossy not set: the session is going to fail...
FindsFull ==
    /\ reader = "deliver" /\ Full /\ ~lossy
    /\ reader' = "overflow"
    /\ UNCHANGED <<ring, flags, bytes, caller, woken, owner, history>>

\* ... still under the lock.
Overflow ==
    /\ reader = "overflow"
    /\ failed' = TRUE /\ bytes' = NoReply /\ Wake
    /\ reader' = "leaving"
    /\ UNCHANGED <<ring, closing, lossy, caller, owner, history>>

\* The broadcast on the way out.
ReaderLeaves ==
    /\ reader = "leaving"
    /\ reader' = "ended" /\ Wake
    /\ UNCHANGED <<ring, flags, bytes, caller, owner, history>>

-----------------------------------------------------------------------------
(* oizys_session_recv, on the thread that owns the driver.                 *)

LockFree == reader # "overflow"

\* A recv with nothing in the ring of a session that still runs has to wait.
MustWait == inbox_n = 0 /\ ~closing /\ ~failed

Recv ==
    /\ owner = "open" /\ caller = "out"
    /\ caller' = "checking"
    /\ UNCHANGED <<ring, flags, reader, bytes, woken, owner, history>>

\* The test of the loop and pthread_cond_timedwait are one step under the lock.
RecvWaits ==
    /\ caller = "checking" /\ LockFree /\ MustWait
    /\ caller' = "waiting" /\ woken' = FALSE
    /\ UNCHANGED <<ring, flags, reader, bytes, owner, history>>

\* A signal or a spurious wakeup.
RecvWakes ==
    /\ caller = "waiting" /\ LockFree /\ woken
    /\ caller' = "checking" /\ woken' = FALSE
    /\ UNCHANGED <<ring, flags, reader, bytes, owner, history>>

\* The oldest reply is taken, whatever the flags say.
Pop ==
    /\ inbox_n > 0
    /\ taken' = inbox[inbox_r]
    /\ inbox_r' = Oldest /\ inbox_n' = inbox_n - 1
    /\ UNCHANGED <<inbox, inbox_w>>

\* The loop is left: told to, or after the deadline.  A reply longer than the
\* caller's buffer stays where it is, which only the first recv of a session,
\* with its 2048 bytes, can meet: the others pass more than a ring entry.
RecvReturns ==
    /\ LockFree
    /\ \/ caller = "checking" /\ ~MustWait
       \/ caller = "waiting"                    \* timed out
    /\ caller' = "out" /\ woken' = FALSE
    /\ \/ Pop
       \/ (inbox_n = 0 \/ taken = NoReply) /\ UNCHANGED <<ring, taken>>
    /\ UNCHANGED <<flags, reader, bytes, owner, arrived>>

-----------------------------------------------------------------------------
(* Opening, streaming and closing.                                         *)

\* oizys_session_open ends with the start of its reader...
StartReader ==
    /\ owner = "opening"
    /\ owner' = "open" /\ reader' = "top"
    /\ UNCHANGED <<ring, flags, bytes, caller, woken, history>>

\* ... or closes what it had opened.
OpenFails ==
    /\ owner = "opening"
    /\ owner' = "closing" /\ closing' = TRUE
    /\ UNCHANGED <<ring, failed, lossy, reader, bytes, caller, woken, history>>

\* oizys_session_set_lossy(1): every head is trained.
SetLossy ==
    /\ owner = "open" /\ ~lossy /\ caller = "out"
    /\ lossy' = TRUE
    /\ UNCHANGED <<ring, closing, failed, reader, bytes, caller, woken, owner, history>>

\* oizys_session_close, called where no recv is on its way: by the thread that
\* starts the session, or after the capture queues were drained.
Close ==
    /\ owner = "open" /\ caller = "out"
    /\ owner' = "closing" /\ closing' = TRUE
    /\ UNCHANGED <<ring, failed, lossy, reader, bytes, caller, woken, history>>

\* Mutant: the reader is told, and not waited for.
Join_AtOnce ==
    /\ owner = "closing"
    /\ owner' = "joined"
    /\ UNCHANGED <<ring, flags, reader, bytes, caller, woken, history>>

\* pthread_join.
Join ==
    /\ owner = "closing" /\ reader \in {"unstarted", "ended"}
    /\ owner' = "joined"
    /\ UNCHANGED <<ring, flags, reader, bytes, caller, woken, history>>

Free ==
    /\ owner = "joined"
    /\ owner' = "freed"
    /\ UNCHANGED <<ring, flags, reader, bytes, caller, woken, history>>

ReaderStep ==
    \/ ReaderLoops \/ ReadsNothing \/ ReadFails \/ ReadsReply
    \/ Deliver \/ FindsFull \/ Overflow \/ ReaderLeaves

InboxNext ==
    \/ ReaderStep
    \/ Recv \/ RecvWaits \/ RecvWakes \/ RecvReturns
    \/ StartReader \/ OpenFails \/ SetLossy \/ Close \/ Join \/ Free

InboxSpec == InboxInit /\ [][InboxNext]_inboxVars

\* The threads run: the reader, a recv once it is let go, and a close.  Nothing
\* makes the dock send, and the deadline of a recv is not counted on.
FairInboxSpec ==
    /\ InboxSpec
    /\ WF_inboxVars(ReaderStep)
    /\ WF_inboxVars(RecvWaits) /\ WF_inboxVars(RecvWakes)
    /\ WF_inboxVars(caller = "checking" /\ RecvReturns)
    /\ WF_inboxVars(Join) /\ WF_inboxVars(Free)

-----------------------------------------------------------------------------
(* Properties.                                                             *)

\* The replies not taken yet, read from the ring in the order they came.
Held == [i \in 1 .. inbox_n |-> inbox[(inbox_r + i - 1) % INBOX]]

\* The reader decides to leave, or finds the ring full, before it says so.
Broken == failed \/ reader \in {"overflow", "leaving", "ended"}

\* The ring is the queue of ReplyChannel, which loses no reply of a strict
\* session silently, keeps the newest of a lossy one and hands them out in the
\* order they came.
Channel == INSTANCE ReplyChannel WITH
    Capacity <- INBOX, Replies <- Numbers, None <- NoReply,
    held <- Held, strict <- ~lossy, broken <- Broken

ImplementsChannel == Channel!Spec

\* A reply in the ring reaches a recv that waits for one, and a session that
\* fails or closes lets it go, without counting on its deadline.
NoLostWakeup ==
    caller = "waiting" /\ (inbox_n > 0 \/ failed) ~> caller # "waiting"

\* What close frees -- the ring, its lock and its condition -- nobody uses any more: neither the
\* reader, which may be between two updates of the ring when closing is set, nor a recv.
ClosedAlone ==
    owner \in {"joined", "freed"} => reader \in {"unstarted", "ended"} /\ caller = "out"

\* A close ends: the reader notices within one read.  And from the moment it begins it is waited
\* for before anything is freed.
CloseEnds == (owner = "closing" ~> owner = "freed") /\ [](closing => []ClosedAlone)

\* What NoLostWakeup rests on: a recv never sleeps on a reply, or on a failure, of which
\* nobody has told it or is about to (the signals of read_control, and its broadcast on the
\* way out), although the flags are written without the lock.
WaiterIsLetGo ==
    caller = "waiting" /\ (inbox_n > 0 \/ failed) => woken \/ reader = "leaving"

\* How far the reader is from its end, once the session closes.
Distance(at) ==
    CASE at = "deliver" -> 3 [] at \in {"top", "reading", "overflow"} -> 2
      [] at = "leaving" -> 1 [] OTHER -> 0

\* What CloseEnds rests on: once closing is set, every step of the reader brings it nearer to
\* its end, nothing takes it back, and nobody is left in recv to use the ring.
ClosingRunsDown ==
    [][closing => /\ closing' /\ Distance(reader') <= Distance(reader)
                  /\ ReaderStep => Distance(reader') < Distance(reader)
                  /\ caller = "out"]_inboxVars

\* "From here every control reply is drained and discarded by the control
\* clock, so a backlog must not end the session", says main.c where it calls
\* oizys_session_set_lossy.
BacklogNeverEndsStreaming ==
    [][~failed /\ failed' /\ reader = "overflow" => ~lossy]_inboxVars
===============================================================================
