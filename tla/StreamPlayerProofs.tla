------------------------- MODULE StreamPlayerProofs -------------------------
(***************************************************************************)
(* Proofs about the stream player, for any stream, any width of sequence   *)
(* numbers and any bounds: the jitter buffer stays ordered, nothing is     *)
(* played before its slot, and within a round of the numbers nothing is    *)
(* played twice or backwards.                                              *)
(*                                                                         *)
(* The invariant has three parts: the types, the numbers in the buffer     *)
(* with what was played, and the slots the two threads hand on.            *)
(* A fourth, for the end of the player, says that the timer thread leaves  *)
(* Terminate behind its last slot: no wake-up is lost, and every step of a *)
(* player that stops brings it nearer to being closed.                     *)
(***************************************************************************)
EXTENDS StreamPlayer, Lemmas

USE PlayerAssumption DEF PlayerAssumption

-----------------------------------------------------------------------------
(* Numbers and slots of frames *)

\* A sequence number has its sixteen bits.
LEMMA Seq16Type ==
  \A f \in Frames : Seq16(f) \in 0 .. SeqWidth - 1
BY DEF Frames, Seq16

\* The number after a number, with the wrap.
LEMMA AfterType ==
  \A n \in Seqs : /\ After(n) \in Seqs
                  /\ n # SeqWidth - 1 => After(n) = n + 1
                  /\ n = SeqWidth - 1 => After(n) = 0
BY DEF After, Seqs

\* Between two frames of a round the numbers are in the order of the stream.
LEMMA RoundOrder ==
  ASSUME NEW f \in Frames, NEW g \in Frames, SameRound(f, g), Seq16(g) < Seq16(f)
  PROVE  g < f
<1> DEFINE x == FirstSeq + f
           y == FirstSeq + g
<1>1. /\ x \in Nat /\ y \in Nat
      /\ (x \div SeqWidth) = (y \div SeqWidth)
      /\ (y % SeqWidth) < (x % SeqWidth)
  BY DEF Frames, SameRound, Seq16
<1>2. /\ x = SeqWidth * (x \div SeqWidth) + (x % SeqWidth)
      /\ y = SeqWidth * (y \div SeqWidth) + (y % SeqWidth)
  <2> HIDE DEF x, y
  <2> QED
    BY ONLY <1>1, SeqWidth \in Nat \ {0}, DivisionWithRemainder
<1>3. y < x
  <2> HIDE DEF x, y
  <2> QED
    BY ONLY <1>1, <1>2, SeqWidth \in Nat \ {0}
<1> QED
  BY <1>3 DEF Frames

\* The slot of a frame is a number.
LEMMA SlotType ==
  \A f \in Frames : SlotOf(f) \in Int
<1> SUFFICES ASSUME NEW f \in Frames
             PROVE  SlotOf(f) \in Int
  OBVIOUS
<1>1. Timestamp(f) \in Int
  <2>1. CASE f = 0
    BY <2>1 DEF Timestamp
  <2>2. CASE f # 0
    <3>1. (f - 1) % 3 \in 0 .. 2 /\ (f - 1) \div 3 \in Int
      BY <2>2 DEF Frames
    <3> QED
      BY <2>2, <3>1 DEF Timestamp
  <2> QED
    BY <2>1, <2>2
<1> QED
  BY <1>1 DEF SlotOf, ConvertTimestamp

\* The next slot is the same or the one after.
LEMMA NextSlotType ==
  \A i \in 0 .. MaxSlot : NextSlot(i) \in 0 .. MaxSlot /\ i <= NextSlot(i) /\ NextSlot(i) <= i + 1
BY DEF NextSlot

-----------------------------------------------------------------------------
(* The jitter buffer *)

Ordered(list) ==
  \A i, j \in DOMAIN list : i < j => Seq16(list[i]) < Seq16(list[j])

\* The numbers in the buffer are numbers.
LEMMA NumbersType ==
  ASSUME NEW list \in Seq(Frames), NEW i \in 1 .. Len(list)
  PROVE  list[i] \in Frames /\ Seq16(list[i]) \in 0 .. SeqWidth - 1
<1>1. list[i] \in Frames
  BY ElementOfSeq
<1> QED
  BY <1>1, Seq16Type

\* Write puts a frame behind those with a smaller number, before the others.
LEMMA PlaceFits ==
  ASSUME buffer \in Seq(Frames), Ordered(buffer), NEW f \in Frames
  PROVE  /\ Before(f) \in 0 .. Len(buffer)
         /\ \A i \in 1 .. Len(buffer) : i <= Before(f) <=> Seq16(buffer[i]) <= Seq16(f)
<1> DEFINE n == Len(buffer)
           smaller == {i \in DOMAIN buffer : Seq16(buffer[i]) <= Seq16(f)}
<1>1. /\ n \in Nat /\ DOMAIN buffer = 1 .. n
      /\ Seq16(f) \in Int
      /\ \A i \in 1 .. n : Seq16(buffer[i]) \in Int
  BY NumbersType, Seq16Type
<1>2. smaller \in SUBSET (1 .. n)
  BY <1>1
<1>3. ASSUME NEW i \in smaller, NEW j \in 1 .. n, j < i
      PROVE  j \in smaller
  <2>1. i \in 1 .. n /\ Seq16(buffer[i]) <= Seq16(f)
    BY <1>1, <1>3
  <2>2. Seq16(buffer[j]) < Seq16(buffer[i])
    BY <1>1, <1>3, <2>1 DEF Ordered
  <2>3. Seq16(buffer[j]) <= Seq16(f)
    BY <1>1, <2>1, <2>2
  <2> QED
    BY <1>1, <2>3
<1>4. Cardinality(smaller) \in 0 .. n /\ smaller = 1 .. Cardinality(smaller)
  <2> HIDE DEF smaller, n
  <2> QED
    BY <1>1, <1>2, <1>3, FirstPositions
<1>5. Before(f) = Cardinality(smaller)
  BY DEF Before
<1>6. \A i \in 1 .. n : i \in smaller <=> Seq16(buffer[i]) <= Seq16(f)
  BY <1>1
<1> HIDE DEF smaller
<1>7. \A i \in 1 .. n : i \in smaller <=> i <= Cardinality(smaller)
  BY <1>1, <1>4
<1> QED
  BY <1>4, <1>5, <1>6, <1>7

\* A frame whose number is not there leaves the buffer ordered.
LEMMA InsertedOrdered ==
  ASSUME buffer \in Seq(Frames), Ordered(buffer), NEW f \in Frames, ~ Repeated(f)
  PROVE  LET longer == InsertAt(buffer, Before(f) + 1, f)
         IN  /\ longer \in Seq(Frames)
             /\ Len(longer) = Len(buffer) + 1
             /\ Ordered(longer)
             /\ \A i \in DOMAIN longer :
                  longer[i] = f \/ \E k \in DOMAIN buffer : longer[i] = buffer[k]
<1> DEFINE n == Len(buffer)
           p == Before(f) + 1
           longer == InsertAt(buffer, p, f)
<1>1. /\ n \in Nat /\ DOMAIN buffer = 1 .. n
      /\ Seq16(f) \in Int
      /\ \A i \in 1 .. n : Seq16(buffer[i]) \in Int
  BY NumbersType, Seq16Type
<1>2. /\ p \in 1 .. n + 1
      /\ \A i \in 1 .. n : IF i < p THEN Seq16(buffer[i]) < Seq16(f)
                                    ELSE Seq16(buffer[i]) > Seq16(f)
  <2>1. /\ Before(f) \in 0 .. n
        /\ \A i \in 1 .. n : i <= Before(f) <=> Seq16(buffer[i]) <= Seq16(f)
    BY PlaceFits
  <2>2. \A i \in 1 .. n : Seq16(buffer[i]) # Seq16(f)
    BY <1>1 DEF Repeated
  <2> QED
    BY <1>1, <2>1, <2>2
<1> HIDE DEF p
<1>3. /\ longer \in Seq(Frames)
      /\ Len(longer) = n + 1
      /\ \A i \in 1 .. n + 1 :
           longer[i] = IF i < p THEN buffer[i] ELSE IF i = p THEN f ELSE buffer[i - 1]
  <2>1. p \in 1 .. Len(buffer) + 1
    BY <1>2
  <2> HIDE DEF n
  <2>2. /\ InsertAt(buffer, p, f) \in Seq(Frames)
        /\ Len(InsertAt(buffer, p, f)) = Len(buffer) + 1
        /\ \A i \in 1 .. Len(buffer) + 1 :
             InsertAt(buffer, p, f)[i] =
               IF i < p THEN buffer[i] ELSE IF i = p THEN f ELSE buffer[i - 1]
    BY <2>1, InsertAtEntries
  <2> QED
    BY <2>2 DEF n
<1> HIDE DEF longer
<1>4. ASSUME NEW i \in 1 .. n + 1, NEW j \in 1 .. n + 1, i < j
      PROVE  Seq16(longer[i]) < Seq16(longer[j])
  <2>1. CASE j < p
    <3>1. /\ longer[i] = buffer[i] /\ longer[j] = buffer[j]
          /\ i \in 1 .. n /\ j \in 1 .. n
      BY <1>1, <1>2, <1>3, <1>4, <2>1
    <3> QED
      BY <1>1, <1>4, <3>1 DEF Ordered
  <2>2. CASE j = p
    BY <1>1, <1>2, <1>3, <1>4, <2>2
  <2>3. CASE i = p
    <3>1. longer[i] = f /\ longer[j] = buffer[j - 1] /\ j - 1 \in 1 .. n /\ ~(j - 1 < p)
      BY <1>1, <1>2, <1>3, <1>4, <2>3
    <3> QED
      BY <1>1, <1>2, <3>1
  <2>4. CASE i < p /\ j > p
    <3>1. /\ longer[i] = buffer[i] /\ longer[j] = buffer[j - 1]
          /\ i \in 1 .. n /\ j - 1 \in 1 .. n /\ i < j - 1
      BY <1>1, <1>2, <1>3, <1>4, <2>4
    <3> QED
      BY <1>1, <3>1 DEF Ordered
  <2>5. CASE i > p
    <3>1. /\ longer[i] = buffer[i - 1] /\ longer[j] = buffer[j - 1]
          /\ i - 1 \in 1 .. n /\ j - 1 \in 1 .. n /\ i - 1 < j - 1
      BY <1>1, <1>2, <1>3, <1>4, <2>5
    <3> QED
      BY <1>1, <3>1 DEF Ordered
  <2> QED
    BY <1>2, <2>1, <2>2, <2>3, <2>4, <2>5
<1>5. DOMAIN longer = 1 .. n + 1
  BY <1>1, <1>3
<1>6. ASSUME NEW i \in 1 .. n + 1, longer[i] # f
      PROVE  \E k \in 1 .. n : longer[i] = buffer[k]
  <2>1. CASE i < p
    BY <1>2, <1>3, <2>1
  <2>2. CASE i > p
    <3>1. i - 1 \in 1 .. n /\ longer[i] = buffer[i - 1]
      BY <1>1, <1>2, <1>3, <2>2
    <3> QED
      BY <3>1
  <2> QED
    BY <1>2, <1>3, <1>6, <2>1, <2>2
<1>7. Ordered(longer)
  BY <1>4, <1>5 DEF Ordered
<1>8. \A i \in DOMAIN longer :
        longer[i] = f \/ \E k \in DOMAIN buffer : longer[i] = buffer[k]
  BY <1>1, <1>5, <1>6
<1>9. longer \in Seq(Frames) /\ Len(longer) = Len(buffer) + 1
  BY <1>3
<1> QED
  BY ONLY <1>7, <1>8, <1>9 DEF longer, p

-----------------------------------------------------------------------------
(* The inductive invariant *)

\* The listener has not had too many control packets while it listens.
TypeInv == TypeOK /\ (listen = "listening" => stop < StopLimit)

\* Unless the frame of the last number was played, the deadline is above all
\* numbers played; and before the first frame there is nothing.
PlayedInv ==
  /\ ~ begun => buffer = <<>> /\ played = {}
  /\ (\A g \in played : Seq16(g) # SeqWidth - 1)
       => \A g \in played : Seq16(g) < sequence_deadline

\* The slot the play thread works towards was reached by the clock.
SlotInv ==
  /\ timer <= slot
  /\ ts_to_play <= slot
  /\ play = "play" => ts_played <= ts_to_play

IInv == TypeInv /\ BufferOrdered /\ PlayedInv /\ SlotInv

\* The invariant holds initially.
LEMMA InitInv == Init => IInv
<1> SUFFICES ASSUME Init PROVE IInv
  OBVIOUS
<1>1. buffer \in Seq(Frames) /\ DOMAIN buffer = {}
  BY DEF Init
<1>2. TypeInv
  <2>1. begun \in BOOLEAN /\ running \in BOOLEAN
    BY DEF Init
  <2>2. /\ sequence_deadline \in Seqs
        /\ timer \in 0 .. MaxSlot \cup {None, Terminate}
        /\ stop \in 0 .. StopLimit /\ stop < StopLimit
        /\ slot \in 0 .. MaxSlot /\ ts_played \in 0 .. MaxSlot
        /\ ts_to_play \in 0 .. MaxSlot \cup {None, Terminate}
        /\ dups \in 0 .. MaxDups
    BY DEF Init, Seqs
  <2>3. /\ listen \in {"listening", "stopping", "joining", "closed"}
        /\ tick \in {"none", "check", "sleep", "done"}
        /\ play \in {"none", "open", "check", "wait", "play", "done"}
        /\ net \subseteq Frames /\ played \subseteq Frames
    BY DEF Init
  <2> QED
    BY <1>1, <2>1, <2>2, <2>3 DEF TypeInv, TypeOK
<1>3. BufferOrdered
  BY <1>1 DEF BufferOrdered
<1>4. PlayedInv
  BY DEF Init, PlayedInv
<1>5. SlotInv
  BY DEF Init, SlotInv, None
<1> QED
  BY <1>2, <1>3, <1>4, <1>5 DEF IInv

\* The buffer, its deadline and what was played are left alone.
LEMMA JitterUnchanged ==
  ASSUME BufferOrdered, PlayedInv, UNCHANGED <<jitter, played>>
  PROVE  BufferOrdered' /\ PlayedInv'
BY DEF BufferOrdered, PlayedInv, jitter

\* The buffer is ordered by sequence number.
LEMMA BufferIsOrdered ==
  TypeOK /\ BufferOrdered => buffer \in Seq(Frames) /\ Ordered(buffer)
BY DEF TypeOK, BufferOrdered, Ordered

\* Write keeps the order, and nothing below the deadline gets in.
LEMMA WriteKeeps ==
  ASSUME TypeOK, BufferOrdered, PlayedInv, NEW f \in Frames, Write(f), UNCHANGED played
  PROVE  /\ buffer' \in Seq(Frames) /\ begun' \in BOOLEAN /\ sequence_deadline' \in Seqs
         /\ BufferOrdered' /\ PlayedInv'
         /\ \A g \in Frames : ~ Plays(g)
<1>1. buffer \in Seq(Frames) /\ Ordered(buffer) /\ sequence_deadline \in Seqs
  BY BufferIsOrdered DEF TypeOK
<1>2. Seq16(f) \in Seqs
  BY Seq16Type DEF Seqs
<1>3. CASE Refused(f)
  <2>1. UNCHANGED <<jitter, played>>
    BY <1>3 DEF Write, Refused, jitter, TypeOK
  <2>2. \A g \in Frames : ~ Plays(g)
    BY <1>1, <2>1, TailEntries DEF Plays, jitter
  <2> QED
    BY <1>1, <2>1, <2>2, JitterUnchanged DEF TypeOK, jitter
<1>4. CASE ~ Refused(f)
  <2>1. ~ Repeated(f)
    BY <1>1, <1>4 DEF Refused, Repeated, PlayedInv
  <2> DEFINE longer == InsertAt(buffer, Before(f) + 1, f)
  <2>2. /\ longer \in Seq(Frames)
        /\ Len(longer) = Len(buffer) + 1
        /\ Ordered(longer)
        /\ \A i \in DOMAIN longer :
             longer[i] = f \/ \E k \in DOMAIN buffer : longer[i] = buffer[k]
    BY <1>1, <2>1, InsertedOrdered
  <2>3. buffer' = longer
    BY <1>4 DEF Write
  <2> HIDE DEF longer
  <2>4. /\ sequence_deadline' \in Seqs
        /\ sequence_deadline' <= Seq16(f)
        /\ \A k \in DOMAIN buffer : Seq16(buffer[k]) >= sequence_deadline'
    <3>1. CASE begun
      BY <1>1, <1>2, <1>4, <3>1 DEF Write, Refused, TooLate, BufferOrdered, Seqs
    <3>2. CASE ~ begun
      BY <1>2, <3>2 DEF Write, PlayedInv, Seqs
    <3> QED
      BY <3>1, <3>2
  <2>5. BufferOrdered'
    <3>1. \A i, j \in DOMAIN longer : i < j => Seq16(longer[i]) < Seq16(longer[j])
      BY <2>2 DEF Ordered
    <3>2. \A i \in DOMAIN longer : Seq16(longer[i]) >= sequence_deadline'
      BY <1>2, <2>2, <2>4 DEF Seqs
    <3> QED
      BY <2>3, <3>1, <3>2 DEF BufferOrdered
  <2>6. PlayedInv'
    BY DEF PlayedInv, Write
  <2>7. \A g \in Frames : ~ Plays(g)
    BY <1>1, <2>2, <2>3, TailEntries DEF Plays
  <2> QED
    BY <2>2, <2>3, <2>4, <2>5, <2>6, <2>7 DEF Write
<1> QED
  BY <1>3, <1>4

\* Read takes the front, and its deadline is not above what is left.
LEMMA ReadKeeps ==
  ASSUME TypeOK, BufferOrdered, PlayedInv, buffer # <<>>, Read,
         played' = played \cup {Head(buffer)}
  PROVE  /\ buffer' \in Seq(Frames) /\ begun' \in BOOLEAN /\ sequence_deadline' \in Seqs
         /\ played' \subseteq Frames
         /\ BufferOrdered' /\ PlayedInv'
<1> DEFINE h == Head(buffer)
           n == Len(buffer)
<1>1. /\ h \in Frames /\ h = buffer[1]
      /\ n \in Nat \ {0} /\ DOMAIN buffer = 1 .. n
      /\ Tail(buffer) \in Seq(Frames) /\ DOMAIN Tail(buffer) = 1 .. n - 1
      /\ \A i \in 1 .. n - 1 : Tail(buffer)[i] = buffer[i + 1]
  BY TailEntries DEF TypeOK
<1>2. /\ Seq16(h) \in Seqs /\ Seq16(h) >= sequence_deadline
      /\ \A i \in 1 .. n : Seq16(buffer[i]) \in Seqs
      /\ \A i \in 1 .. n - 1 : Seq16(Tail(buffer)[i]) > Seq16(h)
  BY <1>1, NumbersType DEF BufferOrdered, TypeOK, Seqs
<1>3. /\ sequence_deadline' \in Seqs
      /\ Seq16(h) # SeqWidth - 1 => sequence_deadline' = Seq16(h) + 1
      /\ Seq16(h) = SeqWidth - 1 => sequence_deadline' = 0
  BY <1>2, AfterType DEF Read
<1>4. BufferOrdered'
  <2>1. ASSUME NEW i \in 1 .. n - 1
        PROVE  Seq16(Tail(buffer)[i]) >= sequence_deadline'
    <3>1. Seq16(Tail(buffer)[i]) \in Seqs /\ Seq16(Tail(buffer)[i]) > Seq16(h)
      BY <1>1, <1>2
    <3> QED
      BY <1>2, <1>3, <3>1 DEF Seqs
  <2>2. ASSUME NEW i \in 1 .. n - 1, NEW j \in 1 .. n - 1, i < j
        PROVE  Seq16(Tail(buffer)[i]) < Seq16(Tail(buffer)[j])
    <3>1. i + 1 \in 1 .. n /\ j + 1 \in 1 .. n /\ i + 1 < j + 1
      BY <1>1, <2>2
    <3> QED
      BY <1>1, <3>1 DEF BufferOrdered
  <2> QED
    BY <1>1, <2>1, <2>2 DEF BufferOrdered, Read
<1>5. PlayedInv'
  <2>1. begun
    BY DEF PlayedInv
  <2>2. ASSUME \A g \in played' : Seq16(g) # SeqWidth - 1, NEW g \in played'
        PROVE  Seq16(g) < sequence_deadline'
    <3>1. sequence_deadline' = Seq16(h) + 1
      BY <1>3, <2>2
    <3>2. CASE g = h
      BY <1>2, <3>1, <3>2 DEF Seqs
    <3>3. CASE g \in played
      <4>1. Seq16(g) < sequence_deadline
        BY <2>2, <3>3 DEF PlayedInv
      <4>2. Seq16(g) \in Seqs /\ sequence_deadline \in Seqs
        BY <3>3, Seq16Type DEF TypeOK, Seqs
      <4> QED
        BY <1>2, <3>1, <4>1, <4>2 DEF Seqs
    <3> QED
      BY <3>2, <3>3
  <2> QED
    BY <2>1, <2>2 DEF PlayedInv, Read
<1> QED
  BY <1>1, <1>3, <1>4, <1>5 DEF Read, TypeOK

-----------------------------------------------------------------------------
(* Every step keeps the invariant *)

\* Types, where the buffer, the deadline and what was played keep theirs.
LEMMA TypesButJitter ==
  ASSUME TypeInv, UNCHANGED <<jitter, played>>
  PROVE  /\ buffer' \in Seq(Frames) /\ begun' \in BOOLEAN /\ sequence_deadline' \in Seqs
         /\ played' \subseteq Frames
BY DEF TypeInv, TypeOK, jitter

\* The main thread keeps the invariant.
LEMMA MainKeeps == IInv /\ MainThread => IInv'
<1> SUFFICES ASSUME IInv, MainThread PROVE IInv'
  OBVIOUS
<1>1. ASSUME NEW f \in Frames, FrameArrives(f)
      PROVE  IInv'
  <2>1. Write(f) /\ UNCHANGED played
    BY <1>1 DEF FrameArrives
  <2>2. /\ buffer' \in Seq(Frames) /\ begun' \in BOOLEAN /\ sequence_deadline' \in Seqs
        /\ BufferOrdered' /\ PlayedInv'
    BY <2>1, WriteKeeps DEF IInv, TypeInv
  <2>3. net' \subseteq Frames /\ dups' \in 0 .. MaxDups
    BY <1>1 DEF FrameArrives, Delivered, IInv, TypeInv, TypeOK
  <2>4. TypeInv'
    BY <1>1, <2>1, <2>2, <2>3 DEF FrameArrives, IInv, TypeInv, TypeOK
  <2>5. SlotInv'
    BY <1>1 DEF FrameArrives, IInv, SlotInv
  <2> QED
    BY <2>2, <2>4, <2>5 DEF IInv
<1>2. CASE ControlArrives \/ Silence \/ StopPlay \/ JoinThreads
  <2>1. UNCHANGED <<jitter, timer, clock, player, network>>
    BY <1>2 DEF ControlArrives, Silence, StopPlay, JoinThreads
  <2>2. BufferOrdered' /\ PlayedInv'
    BY <2>1, JitterUnchanged DEF IInv, player
  <2>3. SlotInv'
    BY <2>1 DEF IInv, SlotInv, clock, player
  <2>4. TypeInv'
    <3>1. /\ running' \in BOOLEAN /\ stop' \in 0 .. StopLimit
          /\ listen' \in {"listening", "stopping", "joining", "closed"}
          /\ listen' = "listening" => stop' < StopLimit
      <4>1. CASE ControlArrives
        <5>1. stop \in 0 .. StopLimit /\ stop < StopLimit /\ running \in BOOLEAN
          BY <4>1 DEF ControlArrives, IInv, TypeInv, TypeOK
        <5>2. stop' \in 0 .. StopLimit
          BY <4>1, <5>1 DEF ControlArrives
        <5>3. /\ listen' \in {"listening", "stopping", "joining", "closed"}
              /\ listen' = "listening" => stop' < StopLimit
          BY <4>1, <5>1 DEF ControlArrives
        <5> QED
          BY <4>1, <5>1, <5>2, <5>3 DEF ControlArrives
      <4>2. CASE Silence
        BY <4>2 DEF Silence, IInv, TypeInv, TypeOK
      <4>3. CASE StopPlay
        BY <4>3 DEF StopPlay, IInv, TypeInv, TypeOK
      <4>4. CASE JoinThreads
        BY <4>4 DEF JoinThreads, IInv, TypeInv, TypeOK
      <4> QED
        BY <1>2, <4>1, <4>2, <4>3, <4>4
    <3> QED
      BY <2>1, <3>1 DEF IInv, TypeInv, TypeOK, jitter, clock, player, network
  <2> QED
    BY <2>2, <2>3, <2>4 DEF IInv
<1> QED
  BY <1>1, <1>2 DEF MainThread

\* The timer keeps it.
LEMMA TimerKeeps == IInv /\ TimerThread => IInv'
<1> SUFFICES ASSUME IInv, TimerThread PROVE IInv'
  OBVIOUS
<1>1. UNCHANGED <<jitter, running, listen, stop, player, network>>
  BY DEF TimerThread, TimerSets, TimerWakes, TimerEnds
<1>2. BufferOrdered' /\ PlayedInv'
  BY <1>1, JitterUnchanged DEF IInv, player
<1>3. slot \in 0 .. MaxSlot /\ timer \in Int /\ ts_to_play \in Int
  BY DEF IInv, TypeInv, TypeOK, None, Terminate
<1>4. /\ slot' \in 0 .. MaxSlot /\ slot' >= slot
      /\ tick' \in {"none", "check", "sleep", "done"}
      /\ timer' \in 0 .. MaxSlot \cup {None, Terminate}
      /\ timer' <= slot'
  <2>1. CASE TimerSets
    BY <1>3, <2>1 DEF TimerSets
  <2>2. CASE TimerWakes
    <3>1. slot' \in 0 .. MaxSlot /\ slot' >= slot
      BY <1>3, <2>2, NextSlotType DEF TimerWakes
    <3> QED
      BY <1>3, <2>2, <3>1 DEF TimerWakes, IInv, TypeInv, TypeOK, SlotInv
  <2>3. CASE TimerEnds
    BY <1>3, <2>3 DEF TimerEnds, Terminate
  <2> QED
    BY <2>1, <2>2, <2>3 DEF TimerThread
<1>5. SlotInv'
  BY <1>1, <1>3, <1>4 DEF IInv, SlotInv, player
<1>6. TypeInv'
  BY <1>1, <1>4 DEF IInv, TypeInv, TypeOK, jitter, player, network
<1> QED
  BY <1>2, <1>5, <1>6 DEF IInv

\* The thread that plays keeps it.
LEMMA PlayKeeps == IInv /\ PlayThread => IInv'
<1> SUFFICES ASSUME IInv, PlayThread PROVE IInv'
  OBVIOUS
<1>1. UNCHANGED <<running, listen, stop, clock, network>>
  BY DEF PlayThread, PlayOpens, PlayChecks, PlayTakes, PlayReads
<1>2. /\ slot \in 0 .. MaxSlot /\ ts_played \in 0 .. MaxSlot
      /\ timer \in Int /\ ts_to_play \in Int
  BY DEF IInv, TypeInv, TypeOK, None, Terminate
<1>3. CASE PlayOpens \/ PlayChecks
  <2>1. /\ UNCHANGED <<jitter, played, timer, ts_played, ts_to_play>>
        /\ play' \in {"check", "wait", "done"}
    BY <1>3 DEF PlayOpens, PlayChecks
  <2>2. BufferOrdered' /\ PlayedInv'
    BY <2>1, JitterUnchanged DEF IInv
  <2>3. SlotInv'
    BY <1>1, <2>1 DEF IInv, SlotInv, clock
  <2>4. TypeInv'
    BY <1>1, <2>1 DEF IInv, TypeInv, TypeOK, jitter, clock, network
  <2> QED
    BY <2>2, <2>3, <2>4 DEF IInv
<1>4. CASE PlayTakes
  <2>1. /\ UNCHANGED <<jitter, played, ts_played>>
        /\ ts_to_play' = timer /\ timer' = None
        /\ play' = IF ts_played <= timer THEN "play" ELSE "check"
    BY <1>4 DEF PlayTakes
  <2>2. BufferOrdered' /\ PlayedInv'
    BY <2>1, JitterUnchanged DEF IInv
  <2>3. SlotInv'
    BY <1>1, <1>2, <2>1 DEF IInv, SlotInv, clock, None
  <2>4. TypeInv'
    BY <1>1, <2>1 DEF IInv, TypeInv, TypeOK, jitter, clock, network
  <2> QED
    BY <2>2, <2>3, <2>4 DEF IInv
<1>5. CASE PlayReads
  <2>1. /\ buffer' \in Seq(Frames) /\ begun' \in BOOLEAN /\ sequence_deadline' \in Seqs
        /\ played' \subseteq Frames
        /\ BufferOrdered' /\ PlayedInv'
    <3>1. CASE ReadsFrame(ts_played) /\ Read /\ played' = played \cup {Head(buffer)}
      BY <3>1, ReadKeeps DEF IInv, TypeInv, ReadsFrame
    <3>2. CASE UNCHANGED <<jitter, played>>
      BY <3>2, JitterUnchanged, TypesButJitter DEF IInv
    <3> QED
      BY <1>5, <3>1, <3>2 DEF PlayReads
  <2>2. /\ UNCHANGED <<timer, ts_to_play>>
        /\ play = "play"
        /\ \/ ts_played' = NextSlot(ts_played)
              /\ play' = IF ts_played < ts_to_play THEN "play" ELSE "check"
           \/ UNCHANGED <<ts_played, play>>
    BY <1>5 DEF PlayReads
  <2>3. /\ ts_played' \in 0 .. MaxSlot
        /\ play' \in {"check", "play"}
        /\ play' = "play" => ts_played' <= ts_to_play
    BY <1>2, <2>2, NextSlotType DEF IInv, SlotInv
  <2>4. SlotInv'
    BY <1>1, <2>2, <2>3 DEF IInv, SlotInv, clock
  <2>5. TypeInv'
    BY <1>1, <2>1, <2>2, <2>3 DEF IInv, TypeInv, TypeOK, clock, network
  <2> QED
    BY <2>1, <2>4, <2>5 DEF IInv
<1> QED
  BY <1>3, <1>4, <1>5 DEF PlayThread

\* So every step does.
LEMMA NextInv == IInv /\ [Next]_vars => IInv'
<1>1. IInv /\ UNCHANGED vars => IInv'
  BY DEF vars, jitter, clock, player, network, IInv, TypeInv, TypeOK, BufferOrdered,
         PlayedInv, SlotInv
<1> QED
  BY <1>1, MainKeeps, TimerKeeps, PlayKeeps DEF Next, Closed

\* It holds always.
LEMMA AlwaysIInv == Spec => []IInv
  BY InitInv, NextInv, PTL DEF Spec

\* Whatever is lost, reordered, duplicated or late, the jitter buffer holds the
\* frames in the order of their numbers, each once and none below the deadline
\* (jitter.cpp:75-92, 115), and the sequence numbers keep their width.
THEOREM BufferStaysOrdered == Spec => []Inv
<1>1. IInv => Inv
  BY DEF IInv, TypeInv, Inv
<1> QED
  BY <1>1, AlwaysIInv, PTL

-----------------------------------------------------------------------------
(* What is played *)

\* A frame is played by PlayReads, and is the front of the buffer then.
LEMMA WhoPlays ==
  ASSUME IInv, [Next]_vars, NEW f \in Frames, Plays(f)
  PROVE  /\ play = "play" /\ ReadsFrame(ts_played)
         /\ f = buffer[1] /\ Len(buffer) \in Nat \ {0}
<1>1. /\ buffer \in Seq(Frames) /\ buffer # <<>> /\ f = Head(buffer)
      /\ buffer' = Tail(buffer)
  BY DEF IInv, TypeInv, TypeOK, Plays
<1>2. /\ f = buffer[1] /\ Len(buffer) \in Nat \ {0}
      /\ buffer' # buffer
  BY <1>1, TailEntries
<1>3. ASSUME NEW g \in Frames, FrameArrives(g)
      PROVE  FALSE
  BY <1>3, WriteKeeps DEF IInv, TypeInv, FrameArrives
<1>4. PlayReads
  BY <1>2, <1>3 DEF Next, vars, MainThread, ControlArrives, Silence, StopPlay, JoinThreads,
     TimerThread, TimerSets, TimerWakes, TimerEnds, PlayThread, PlayOpens, PlayChecks,
     PlayTakes, Closed, jitter
<1>5. play = "play" /\ ReadsFrame(ts_played)
  BY <1>2, <1>4 DEF PlayReads, jitter
<1> QED
  BY <1>2, <1>5

\* No frame is played before its slot has come, however late the play thread
\* catches up with the clock (streamplayer.cpp:197-228).
THEOREM NeverPlaysEarly == Spec => NeverEarly
<1>1. IInv /\ [Next]_vars => \A f \in Frames : Plays(f) => SlotOf(f) <= slot
  <2> SUFFICES ASSUME IInv, [Next]_vars, NEW f \in Frames, Plays(f)
               PROVE  SlotOf(f) <= slot
    OBVIOUS
  <2>1. play = "play" /\ SlotOf(f) <= ts_played
    BY WhoPlays DEF ReadsFrame, Due, Plays
  <2>2. /\ ts_played <= ts_to_play /\ ts_to_play <= slot
        /\ ts_played \in Int /\ ts_to_play \in Int /\ slot \in Int
    BY <2>1 DEF IInv, SlotInv, TypeInv, TypeOK, None, Terminate
  <2> QED
    BY <2>1, <2>2, SlotType
<1> QED
  BY <1>1, AlwaysIInv, PTL DEF Spec, NeverEarly

\* Within a round of the sequence numbers nothing is played twice or backwards,
\* whatever the network does, up to the frame of the last number
\* (jitter.cpp:76-78, 115).
THEOREM PlaysInOrder == Spec => PlaysForward
<1>1. IInv /\ [Next]_vars =>
        ((\A g \in played : Seq16(g) # SeqWidth - 1)
           => \A f \in Frames : Plays(f) => \A g \in played : SameRound(f, g) => g < f)
  <2> SUFFICES ASSUME IInv, [Next]_vars,
                      \A g \in played : Seq16(g) # SeqWidth - 1,
                      NEW f \in Frames, Plays(f),
                      NEW g \in played, SameRound(f, g)
               PROVE  g < f
    OBVIOUS
  <2>1. g \in Frames /\ sequence_deadline \in Seqs
    BY DEF IInv, TypeInv, TypeOK
  <2>2. Seq16(g) < sequence_deadline
    BY DEF IInv, PlayedInv
  <2>3. sequence_deadline <= Seq16(f)
    <3>1. f = buffer[1] /\ 1 \in DOMAIN buffer
      BY WhoPlays DEF IInv, TypeInv, TypeOK
    <3> QED
      BY <3>1 DEF IInv, BufferOrdered
  <2>4. Seq16(g) < Seq16(f)
    BY <2>1, <2>2, <2>3, Seq16Type DEF Seqs
  <2> QED
    BY <2>1, <2>4, RoundOrder
<1> QED
  BY <1>1, AlwaysIInv, PTL DEF Spec, PlaysForward

-----------------------------------------------------------------------------
(* Stopping the player *)

\* Before the first frame there is neither thread, and nothing runs once the
\* player stops.  Behind its last slot the timer thread leaves Terminate, and
\* whoever waits from then on finds it.
HandoverInv ==
  /\ ~ begun => ~ running /\ tick = "none" /\ play = "none"
  /\ begun => tick # "none" /\ play # "none"
  /\ running => listen \in {"listening", "stopping"}
  /\ listen = "joining" => begun
  /\ tick = "done" => ~ running
  /\ tick = "done" /\ play = "wait" => timer = Terminate

\* Every step of the main thread keeps it.
LEMMA MainHandsOver == IInv /\ HandoverInv /\ MainThread => HandoverInv'
<1> SUFFICES ASSUME IInv, HandoverInv, MainThread PROVE HandoverInv'
  OBVIOUS
<1>1. ASSUME NEW f \in Frames, FrameArrives(f) PROVE HandoverInv'
  <2>1. begun' = TRUE /\ UNCHANGED <<timer, listen>> /\ listen = "listening"
    BY <1>1 DEF FrameArrives, Write
  <2>2. CASE begun
    <3>1. /\ running' = (running \/ FALSE)
          /\ play' = play /\ tick' = tick
      BY <1>1, <2>2 DEF FrameArrives
    <3> QED
      BY <2>1, <2>2, <3>1 DEF HandoverInv
  <2>3. CASE ~ begun
    <3>1. play' = "open" /\ tick' = "check"
      BY <1>1, <2>3 DEF FrameArrives
    <3> QED
      BY <2>1, <3>1 DEF HandoverInv
  <2> QED
    BY <2>2, <2>3
<1>2. CASE ControlArrives \/ Silence \/ JoinThreads
  <2>1. UNCHANGED <<begun, timer, running, tick, play>>
    BY <1>2 DEF ControlArrives, Silence, JoinThreads, jitter, clock, player
  <2>2. /\ listen' = "joining" => listen = "joining"
        /\ listen \in {"listening", "stopping"} => listen' \in {"listening", "stopping"}
        /\ listen = "joining" => ~ running
    BY <1>2 DEF ControlArrives, Silence, JoinThreads, HandoverInv
  <2>3. running => listen' \in {"listening", "stopping"}
    BY <2>2 DEF HandoverInv
  <2> QED
    BY <2>1, <2>2, <2>3 DEF HandoverInv
<1>3. CASE StopPlay
  <2>1. /\ UNCHANGED <<begun, timer, tick, play>> /\ running' = FALSE
        /\ listen' = "joining" => running
    BY <1>3 DEF StopPlay, jitter, clock, player
  <2> QED
    BY <2>1 DEF HandoverInv
<1> QED
  BY <1>1, <1>2, <1>3 DEF MainThread

\* So does every step of the other two.
LEMMA HandsOver == IInv /\ HandoverInv /\ [Next]_vars => HandoverInv'
<1> SUFFICES ASSUME IInv, HandoverInv, [Next]_vars PROVE HandoverInv'
  OBVIOUS
<1>1. CASE TimerThread
  <2>1. UNCHANGED <<begun, running, listen, play>>
    BY <1>1 DEF TimerThread, TimerSets, TimerWakes, TimerEnds, jitter, player
  <2>2. /\ tick \in {"check", "sleep"} /\ tick' \in {"check", "sleep", "done"}
        /\ tick' = "done" => (~ running /\ timer' = Terminate)
    BY <1>1 DEF TimerThread, TimerSets, TimerWakes, TimerEnds, GoesOn
  <2> QED
    BY <2>1, <2>2 DEF HandoverInv
<1>2. CASE PlayThread
  <2>1. UNCHANGED <<begun, running, listen, tick>>
    BY <1>2 DEF PlayThread, PlayOpens, PlayChecks, PlayTakes, PlayReads, Read, jitter, clock
  <2>2. /\ play # "none" /\ play' # "none"
        /\ play' = "wait" => running
    BY <1>2 DEF PlayThread, PlayOpens, PlayChecks, PlayTakes, PlayReads
  <2> QED
    BY <2>1, <2>2 DEF HandoverInv
<1>3. CASE UNCHANGED vars
  BY <1>3 DEF HandoverInv, vars, jitter, clock, player
<1> QED
  BY <1>1, <1>2, <1>3, MainHandsOver DEF Next, Closed

\* Both invariants hold always.
LEMMA AlwaysHandover == Spec => [](IInv /\ HandoverInv)
<1>1. Init => HandoverInv
  BY DEF Init, HandoverInv
<1> QED
  BY <1>1, InitInv, NextInv, HandsOver, PTL DEF Spec

\* While StopPlay waits for the two threads, one of them can go on or both have
\* ended: the play thread is never left waiting for a slot that nobody is going to
\* hand to it (streamplayer.cpp:110-116, 187-189, 261-264).
SomebodyGoesOn ==
  listen = "joining" =>
    \/ play = "done" /\ tick = "done"
    \/ tick \in {"check", "sleep"}
    \/ play \in {"open", "check", "play"}
    \/ play = "wait" /\ timer # None

\* No wake-up is lost: the two joins of StopPlay are no deadlock.
THEOREM NobodyLeftWaiting == Spec => []SomebodyGoesOn
<1>1. IInv /\ HandoverInv => SomebodyGoesOn
  <2> SUFFICES ASSUME IInv, HandoverInv, listen = "joining", tick \notin {"check", "sleep"},
                      play \notin {"open", "check", "play"}
               PROVE  (play = "done" /\ tick = "done") \/ (play = "wait" /\ timer # None)
    BY DEF SomebodyGoesOn
  <2>1. tick = "done" /\ play \in {"wait", "done"}
    BY DEF HandoverInv, IInv, TypeInv, TypeOK
  <2>2. play = "wait" => timer = Terminate
    BY <2>1 DEF HandoverInv
  <2>3. Terminate # None
    BY DEF None, Terminate
  <2> QED
    BY ONLY <2>1, <2>2, <2>3
<1> QED
  BY <1>1, AlwaysHandover, PTL

\* What each thread has before it when the flag is down: the steps of the timer,
\* the stages of the play thread, and within one of them the frames and slots.
TimerLeft == [none |-> 0, sleep |-> 2, check |-> 1, done |-> 0][tick]
PlayLeft  == [none |-> 0, wait |-> 3, open |-> 2, play |-> 2, check |-> 1, done |-> 0][play]
Unplayed  == Len(buffer) + (MaxSlot - ts_played)

\* Why StopPlay ends: each step of a thread brings it nearer to its end, whatever
\* it has still to play, and no step of the other sets it back.
StopGoesOn ==
  [][listen = "joining" =>
       /\ \/ listen' = "joining"
          \/ listen' = "closed" /\ TimerLeft = 0 /\ PlayLeft = 0
       /\ UNCHANGED tick \/ TimerLeft' = TimerLeft - 1
       /\ \/ UNCHANGED <<play, ts_played, buffer>>
          \/ PlayLeft' < PlayLeft
          \/ PlayLeft' = PlayLeft /\ 0 <= Unplayed' /\ Unplayed' < Unplayed]_vars

\* What the play thread does while the player stops.
LEMMA PlayComesNearer ==
  ASSUME IInv, IInv', ~ running, PlayThread
  PROVE  \/ PlayLeft' < PlayLeft
         \/ PlayLeft' = PlayLeft /\ 0 <= Unplayed' /\ Unplayed' < Unplayed
<1>1. /\ buffer \in Seq(Frames) /\ buffer' \in Seq(Frames)
      /\ ts_played \in 0 .. MaxSlot /\ ts_played' \in 0 .. MaxSlot
      /\ ts_to_play \in Int /\ ts_to_play <= MaxSlot
  BY DEF IInv, TypeInv, TypeOK, None, Terminate
<1>2. CASE PlayOpens \/ PlayChecks
  <2>1. PlayOpens => play = "open" /\ play' \in {"check", "done"}
    BY DEF PlayOpens
  <2>2. PlayChecks => play = "check" /\ play' = "done"
    BY DEF PlayChecks
  <2>3. (play = "open" /\ play' \in {"check", "done"}) \/ (play = "check" /\ play' = "done")
    BY <1>2, <2>1, <2>2
  <2> QED
    BY ONLY <2>3 DEF PlayLeft
<1>3. CASE PlayTakes
  <2>1. play = "wait" /\ play' \in {"play", "check"}
    BY <1>3 DEF PlayTakes
  <2> QED
    BY ONLY <2>1 DEF PlayLeft
<1>4. CASE PlayReads
  <2>1. play = "play" /\ play' \in {"play", "check"}
    BY <1>4 DEF PlayReads
  <2>2. CASE play' = "check"
    BY ONLY <2>1, <2>2 DEF PlayLeft
  <2>3. CASE play' = "play"
    <3>1. PlayLeft' = PlayLeft
      BY ONLY <2>1, <2>3 DEF PlayLeft
    <3>2. Len(buffer) \in Nat /\ Len(buffer') \in Nat
      BY <1>1
    <3>3. ts_played' = ts_played \/ ts_played' = ts_played + 1
      BY <1>1, <1>4 DEF PlayReads, NextSlot
    <3>4. CASE ReadsFrame(ts_played) /\ Read
      <4>1. buffer # <<>> /\ buffer' = Tail(buffer)
        BY <3>4 DEF ReadsFrame, Read
      <4>2. Len(buffer') = Len(buffer) - 1
        BY <1>1, <4>1, TailEntries
      <4> QED
        BY <1>1, <3>1, <3>2, <3>3, <4>2 DEF Unplayed
    <3>5. CASE ~ ReadsFrame(ts_played) /\ buffer' = buffer
      <4>1. Finished(buffer', ts_played)
        BY <3>5 DEF ReadsFrame, Finished
      <4>2. ts_played' = NextSlot(ts_played) /\ ts_played < ts_to_play
        BY <1>4, <2>3, <4>1 DEF PlayReads
      <4>3. ts_played' = ts_played + 1
        BY <1>1, <4>2 DEF NextSlot
      <4> QED
        BY <1>1, <3>1, <3>2, <3>5, <4>3 DEF Unplayed
    <3> QED
      BY <1>4, <3>4, <3>5 DEF PlayReads, jitter
  <2> QED
    BY <2>1, <2>2, <2>3
<1> QED
  BY <1>2, <1>3, <1>4 DEF PlayThread

\* A player that stops comes nearer to being closed with every step of its
\* threads: the safety half of StopEnds.
THEOREM StopComesNearer == Spec => StopGoesOn
<1> DEFINE Nearer ==
             /\ \/ listen' = "joining"
                \/ listen' = "closed" /\ TimerLeft = 0 /\ PlayLeft = 0
             /\ UNCHANGED tick \/ TimerLeft' = TimerLeft - 1
             /\ \/ UNCHANGED <<play, ts_played, buffer>>
                \/ PlayLeft' < PlayLeft
                \/ PlayLeft' = PlayLeft /\ 0 <= Unplayed' /\ Unplayed' < Unplayed
<1>1. ASSUME IInv, IInv', HandoverInv, [Next]_vars, listen = "joining"
      PROVE  Nearer
  <2>1. ~ running
    BY <1>1 DEF HandoverInv
  <2>2. CASE MainThread
    <3>1. JoinThreads
      BY <1>1, <2>2 DEF MainThread, FrameArrives, ControlArrives, Silence, StopPlay
    <3>2. listen' = "closed" /\ play = "done" /\ tick = "done"
      BY <3>1 DEF JoinThreads
    <3>3. TimerLeft = 0 /\ PlayLeft = 0
      BY ONLY <3>2 DEF TimerLeft, PlayLeft
    <3>4. UNCHANGED <<tick, play, ts_played, buffer>>
      BY <3>1 DEF JoinThreads, clock, player, jitter
    <3> QED
      BY <3>2, <3>3, <3>4
  <2>3. CASE TimerThread
    <3>1. /\ (tick = "sleep" /\ tick' = "check") \/ (tick = "check" /\ tick' = "done")
          /\ UNCHANGED <<listen, play, ts_played, buffer>>
      <4>1. TimerWakes => /\ tick = "sleep" /\ tick' = "check"
                          /\ UNCHANGED <<listen, play, ts_played, buffer>>
        BY DEF TimerWakes, jitter, player
      <4>2. TimerEnds => /\ tick = "check" /\ tick' = "done"
                         /\ UNCHANGED <<listen, play, ts_played, buffer>>
        BY DEF TimerEnds, jitter, player
      <4>3. ~ TimerSets
        BY <2>1 DEF TimerSets, GoesOn
      <4> QED
        BY <2>3, <4>1, <4>2, <4>3 DEF TimerThread
    <3>2. TimerLeft' = TimerLeft - 1
      BY ONLY <3>1 DEF TimerLeft
    <3> QED
      BY <1>1, <3>1, <3>2
  <2>4. CASE PlayThread
    <3>1. UNCHANGED <<listen, tick>>
      BY <2>4 DEF PlayThread, PlayOpens, PlayChecks, PlayTakes, PlayReads, clock
    <3> QED
      BY <1>1, <2>1, <2>4, <3>1, PlayComesNearer
  <2>5. CASE UNCHANGED vars
    BY <1>1, <2>5 DEF vars, clock, player, jitter
  <2> QED
    BY <1>1, <2>2, <2>3, <2>4, <2>5 DEF Next, Closed
<1>2. IInv /\ HandoverInv /\ IInv' /\ [Next]_vars => [listen = "joining" => Nearer]_vars
  BY <1>1
<1> QED
  BY <1>2, AlwaysHandover, PTL DEF Spec, StopGoesOn

=============================================================================
