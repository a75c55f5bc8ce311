---------------------------- MODULE StreamPlayer ----------------------------
(***************************************************************************)
(* The stream player (test/streamplayer.cpp) and its jitter buffer         *)
(* (test/jitter.cpp): the application that receives an RTP stream through  *)
(* CORS and plays it at the pace of a clock.                               *)
(*                                                                         *)
(* Three threads.  The main thread listens: it writes every frame that     *)
(* comes from the sender into the buffer, starts the two others with the   *)
(* first one, and stops and joins them when nothing came for five seconds  *)
(* or nothing but control packets.  The timer thread counts slots and      *)
(* hands each to the play thread through timer and a condition variable,   *)
(* overwriting one that was not taken.  The play thread catches up from    *)
(* slot to slot and takes from the buffer what is due.  A step is what a   *)
(* thread does in one locked section or between two of them.               *)
(*                                                                         *)
(* The stream has NFrames packets.  They are lost, reordered and           *)
(* duplicated on the way.  A frame is known by its index in the stream,    *)
(* which the program does not see; the buffer goes by the sequence number  *)
(* of the frame, which wraps at SeqWidth, 2^16 in the code.                *)
(***************************************************************************)
EXTENDS Integers, Sequences, FiniteSets, SequencesExt

CONSTANTS
  NFrames,    \* frames in the stream: bound of the model
  FirstSeq,   \* sequence number of the first of them
  SeqWidth,   \* sequence numbers there are
  StopLimit,  \* control packets in a row that end the listening: 20
  MaxSlot,    \* the slots from this one on are one slot: bound of the model
  MaxDups     \* frames the network may duplicate: bound of the model

ASSUME PlayerAssumption ==
  /\ NFrames \in Nat \ {0}
  /\ SeqWidth \in Nat \ {0}
  /\ FirstSeq \in 0 .. SeqWidth - 1
  /\ StopLimit \in Nat \ {0}
  /\ MaxSlot \in Nat
  /\ MaxDups \in Nat

VARIABLES
  buffer,             \* buffer_: indexes of the frames, in the order of the list
  begun,              \* recv_packets_ > 0, and first of ListenStream
  sequence_deadline,  \* sequence_deadline_
  timer,              \* timer_: a slot, None or Terminate
  running,            \* running_
  listen, stop,       \* main thread: where it is, control packets in a row
  tick, slot,         \* timer thread: where it is, i
  play, ts_played, ts_to_play,  \* play thread: where it is and its locals
  net, dups,          \* frames on the way, duplicates made
  played              \* history variable: the frames played

jitter  == <<buffer, begun, sequence_deadline>>
clock   == <<tick, slot>>
player  == <<play, ts_played, ts_to_play, played>>
network == <<net, dups>>
vars    == <<jitter, timer, running, listen, stop, clock, player, network>>

-----------------------------------------------------------------------------
(* Frames *)

Frames == 0 .. NFrames - 1
Seqs   == 0 .. SeqWidth - 1

Seq16(f) == (FirstSeq + f) % SeqWidth

\* Time stamps of a stream of pictures I P B B P B B, which is sent in the
\* order of decoding and stamped in the order of display.
Timestamp(f) ==
  LET group == (f - 1) \div 3
  IN  IF f = 0 THEN 0
      ELSE CASE (f - 1) % 3 = 0 -> 3000 * (group + 1)
             [] (f - 1) % 3 = 1 -> 3000 * group + 1000
             [] (f - 1) % 3 = 2 -> 3000 * group + 2000

\* The slot a frame is to be played in.
ConvertTimestamp(t) ==
  IF t = 0 THEN 0 ELSE IF t % 3000 = 0 THEN t \div 1000 - 2 ELSE t \div 1000 + 1

SlotOf(f) == ConvertTimestamp(Timestamp(f))

None == -1        \* timer_ = -1: nothing to be played yet
Terminate == -2   \* timer_ = -2: the timer thread has ended

-----------------------------------------------------------------------------
(* The jitter buffer *)

TooLateNever(f) == FALSE
TooLate(f) == Seq16(f) < sequence_deadline

\* How many entries stay in front of f: those with a number not above its own.
Before(f) == Cardinality({i \in DOMAIN buffer : Seq16(buffer[i]) <= Seq16(f)})

RepeatedNever(f) == FALSE
Repeated(f) == \E i \in DOMAIN buffer : Seq16(buffer[i]) = Seq16(f)

Refused(f) == begun /\ (TooLate(f) \/ Repeated(f))

Write(f) ==
  /\ begun' = TRUE
  /\ buffer' = IF Refused(f) THEN buffer ELSE InsertAt(buffer, Before(f) + 1, f)
  /\ sequence_deadline' = IF begun THEN sequence_deadline ELSE Seq16(f)

\* sequence_deadline_ = seq + 1 in 16 bits.
After(seq) == (seq + 1) % SeqWidth

DueEarly(f, ts) == SlotOf(f) <= ts + 1
Due(f, ts) == SlotOf(f) <= ts

\* Read(ts, finished): the front, if it is due.
ReadsFrame(ts) == buffer # <<>> /\ Due(Head(buffer), ts)

Read ==
  /\ buffer' = Tail(buffer)
  /\ sequence_deadline' = After(Seq16(Head(buffer)))
  /\ UNCHANGED begun

\* finished, when Read(ts) leaves the list rest.
Finished(rest, ts) == rest = <<>> \/ ~ Due(Head(rest), ts)

-----------------------------------------------------------------------------
(* Main thread: ListenStream, StartPlay, StopPlay *)

Init ==
  /\ buffer = <<>>
  /\ begun = FALSE
  /\ sequence_deadline = 0
  /\ timer = None
  /\ running = FALSE
  /\ listen = "listening"
  /\ stop = 0
  /\ tick = "none" /\ slot = 0
  /\ play = "none" /\ ts_played = 0 /\ ts_to_play = 0
  /\ net = Frames
  /\ dups = 0
  /\ played = {}

\* What the network keeps of a frame it delivers: perhaps a duplicate.
Delivered(f) ==
  \/ net' = net \ {f} /\ UNCHANGED dups
  \/ dups < MaxDups /\ dups' = dups + 1 /\ UNCHANGED net

\* A frame of the sender, which is written; the first one starts the threads.
FrameArrives(f) ==
  /\ listen = "listening"
  /\ f \in net
  /\ Delivered(f)
  /\ stop' = 0
  /\ Write(f)
  /\ running' = (running \/ ~ begun)
  /\ play' = IF begun THEN play ELSE "open"
  /\ tick' = IF begun THEN tick ELSE "check"
  /\ UNCHANGED <<timer, listen, slot, ts_played, ts_to_play, played>>

\* A control packet: recvfrom of the socket returns no data.
ControlArrives ==
  /\ listen = "listening"
  /\ stop' = stop + 1
  /\ listen' = IF stop' = StopLimit THEN "stopping" ELSE listen
  /\ UNCHANGED <<jitter, timer, running, clock, player, network>>

\* select returns 0 after five seconds without a packet.
Silence ==
  /\ listen = "listening"
  /\ listen' = "stopping"
  /\ UNCHANGED <<jitter, timer, running, stop, clock, player, network>>

StopPlay ==
  /\ listen = "stopping"
  /\ running' = FALSE
  /\ listen' = IF running THEN "joining" ELSE "closed"
  /\ UNCHANGED <<jitter, timer, stop, clock, player, network>>

JoinThreads ==
  /\ listen = "joining"
  /\ play = "done" /\ tick = "done"
  /\ listen' = "closed"
  /\ UNCHANGED <<jitter, timer, running, stop, clock, player, network>>

MainThread ==
  \/ \E f \in Frames : FrameArrives(f)
  \/ ControlArrives
  \/ Silence
  \/ StopPlay
  \/ JoinThreads

-----------------------------------------------------------------------------
(* TimerThread *)

NextSlot(i) == IF i < MaxSlot THEN i + 1 ELSE i

\* while (running_) of the timer; the variant does not look.
GoesOnAlways == TRUE
GoesOn == running

TimerSets ==
  /\ tick = "check" /\ GoesOn
  /\ timer' = slot
  /\ tick' = "sleep"
  /\ UNCHANGED <<jitter, running, listen, stop, slot, player, network>>

TimerWakes ==
  /\ tick = "sleep"
  /\ slot' = NextSlot(slot)
  /\ tick' = "check"
  /\ UNCHANGED <<jitter, timer, running, listen, stop, player, network>>

TimerEnds ==
  /\ tick = "check" /\ ~ GoesOn
  /\ timer' = Terminate
  /\ tick' = "done"
  /\ UNCHANGED <<jitter, running, listen, stop, slot, player, network>>

TimerThread == TimerSets \/ TimerWakes \/ TimerEnds

-----------------------------------------------------------------------------
(* PlayThread *)

\* The dump file is opened, or the thread returns.
PlayOpens ==
  /\ play = "open"
  /\ play' \in {"check", "done"}
  /\ UNCHANGED <<jitter, timer, running, listen, stop, clock,
                 ts_played, ts_to_play, played, network>>

PlayChecks ==
  /\ play = "check"
  /\ play' = IF running THEN "wait" ELSE "done"
  /\ UNCHANGED <<jitter, timer, running, listen, stop, clock,
                 ts_played, ts_to_play, played, network>>

\* Whether the play thread takes what is in timer_, which ends its wait; the
\* variant expects every slot to be handed to it.
TakesExact == timer \in {ts_played, Terminate}
Takes == timer # None

PlayTakes ==
  /\ play = "wait"
  /\ Takes
  /\ ts_to_play' = timer
  /\ timer' = None
  /\ play' = IF ts_played <= timer THEN "play" ELSE "check"
  /\ UNCHANGED <<jitter, running, listen, stop, clock, ts_played, played, network>>

\* Read at slot ts_played, and the next slot, up to ts_to_play, once it is
\* finished.
PlayReads ==
  /\ play = "play"
  /\ \/ /\ ReadsFrame(ts_played)
        /\ Read
        /\ played' = played \cup {Head(buffer)}
     \/ /\ ~ ReadsFrame(ts_played)
        /\ UNCHANGED <<jitter, played>>
  /\ IF Finished(buffer', ts_played)
     THEN /\ ts_played' = NextSlot(ts_played)
          /\ play' = IF ts_played < ts_to_play THEN "play" ELSE "check"
     ELSE UNCHANGED <<ts_played, play>>
  /\ UNCHANGED <<timer, running, listen, stop, clock, ts_to_play, network>>

PlayThread == PlayOpens \/ PlayChecks \/ PlayTakes \/ PlayReads

-----------------------------------------------------------------------------

Closed == listen = "closed" /\ UNCHANGED vars

Next == MainThread \/ TimerThread \/ PlayThread \/ Closed

Spec == Init /\ [][Next]_vars

\* Threads are scheduled, and the locks are held for one operation on the buffer
\* or on timer_.  Nothing is assumed of packets or of their end.
FairSpec ==
  /\ Spec
  /\ WF_vars(StopPlay) /\ WF_vars(JoinThreads)
  /\ WF_vars(TimerThread)
  /\ WF_vars(PlayThread)

-----------------------------------------------------------------------------
(* Properties *)

\* Sequence numbers and deadline stay in their width, slots within the clock,
\* and the threads where their code can be.
TypeOK ==
  /\ buffer \in Seq(Frames)
  /\ begun \in BOOLEAN /\ running \in BOOLEAN
  /\ sequence_deadline \in Seqs
  /\ timer \in 0 .. MaxSlot \cup {None, Terminate}
  /\ listen \in {"listening", "stopping", "joining", "closed"}
  /\ stop \in 0 .. StopLimit
  /\ tick \in {"none", "check", "sleep", "done"}
  /\ slot \in 0 .. MaxSlot
  /\ play \in {"none", "open", "check", "wait", "play", "done"}
  /\ ts_played \in 0 .. MaxSlot
  /\ ts_to_play \in 0 .. MaxSlot \cup {None, Terminate}
  /\ net \subseteq Frames /\ dups \in 0 .. MaxDups
  /\ played \subseteq Frames

\* The list is what Read takes it for: numbers strictly ascending, so that no
\* number is there twice, and none below the deadline of what was played
\* (jitter.cpp:75-92, 115).
BufferOrdered ==
  /\ \A i, j \in DOMAIN buffer : i < j => Seq16(buffer[i]) < Seq16(buffer[j])
  /\ \A i \in DOMAIN buffer : Seq16(buffer[i]) >= sequence_deadline

\* The buffer is ordered and all variables have their types.
Inv == TypeOK /\ BufferOrdered

Plays(f) == buffer # <<>> /\ f = Head(buffer) /\ buffer' = Tail(buffer)

\* Frames between which the numbers do not wrap.
SameRound(f, g) == (FirstSeq + f) \div SeqWidth = (FirstSeq + g) \div SeqWidth

\* Whatever was reordered, duplicated or late: within a round of the numbers,
\* what is played follows in the stream what was played before; nothing is
\* played twice or backwards.  This ends with the frame of the last number: the
\* deadline is 0 after it, and what comes late from before the wrap is taken
\* for new (jitter.cpp:76-78, 115).
PlaysForward ==
  [][(\A g \in played : Seq16(g) # SeqWidth - 1)
       => \A f \in Frames : Plays(f) => \A g \in played : SameRound(f, g) => g < f]_vars

\* No frame is played before its slot has come, however late the play thread
\* catches up with the slots it was not awake for (streamplayer.cpp:197-228).
NeverEarly ==
  [][\A f \in Frames : Plays(f) => SlotOf(f) <= slot]_vars

\* A player that stops is closed in the end: StopPlay joins both threads, so
\* that neither may be left waiting for the condition variable
\* (streamplayer.cpp:110-116, 187-189, 261-264).
StopEnds == (listen = "stopping") ~> (listen = "closed")

\* What was accepted is played: no frame is left in the buffer for ever while
\* the play thread runs, though slots are overwritten before it takes them.
Drains ==
  \A f \in Frames :
    (f \in ToSet(buffer))
      ~> (f \notin ToSet(buffer) \/ listen # "listening" \/ play = "done")
=============================================================================
