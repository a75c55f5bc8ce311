--------------------------- MODULE SimpleFwdProofs ---------------------------
(***************************************************************************)
(* Proofs about the packet forwarder, for every set of keys, width,        *)
(* bandwidth, number of flows and timing.                                  *)
(***************************************************************************)
EXTENDS SimpleFwd, Lemmas

USE FwdAssumption DEF FwdAssumption

-----------------------------------------------------------------------------
(* Type correctness *)

\* What is granted fits into the field of the reply.
LEMMA GrantType ==
  ASSUME NEW rq \in Nat, NEW used \in UInt16
  PROVE  Grant(rq, used) \in UInt16
<1>1. used \in Int /\ used < Width
  BY DEF UInt16
<1>2. (IF MaxFwdBw - used >= rq THEN rq ELSE MaxFwdBw - used) \in Int
  BY <1>1
<1> QED
  BY <1>2, DivisionWithRemainder DEF Grant, UInt16

\* A counter of sixteen bits stays one.
LEMMA WrapType ==
  ASSUME NEW a \in Int
  PROVE  a % Width \in UInt16
  BY DivisionWithRemainder DEF UInt16

\* The Wire of any integer is the Wire of a uint16_t.
LEMMA WireType ==
  ASSUME NEW a \in Int
  PROVE  Wire(a) \in {Wire(v) : v \in UInt16}
<1>1. a % Width \in UInt16
  BY WrapType
<1>2. (a % Width) % Width = a % Width
  BY <1>1, ModSmall DEF UInt16
<1>3. Wire(a % Width) = Wire(a)
  BY <1>2 DEF Wire
<1> QED
  BY <1>1, <1>3

\* An idle time stays within its bound.
LEMMA OlderType ==
  ASSUME NEW age \in 0 .. MaxIdle + 1
  PROVE  Older(age) \in 0 .. MaxIdle + 1
  BY DEF Older, MaxIdle

\* What a handler in progress holds.
LEMMA HandlerCases ==
  ASSUME main \in Handlers
  PROVE  /\ main # Idle =>
              main.key \in Keys /\ main.lag \in 0 .. MaxLag
         /\ main.op = "reserve" =>
              /\ main \in [op : {"reserve"}, key : Keys, rq_bw : Requests,
                           lag : 0 .. MaxLag]
              /\ main # Idle
              /\ main.rq_bw \in Nat
         /\ main.op = "data" =>
              /\ main \in [op : {"data"}, key : Keys, lag : 0 .. MaxLag]
              /\ main # Idle
<1>1. CASE main = Idle
  BY <1>1 DEF Idle
<1>2. CASE main \in [op : {"reserve"}, key : Keys, rq_bw : Requests,
                     lag : 0 .. MaxLag]
  <2>1. main.op = "reserve" /\ Idle.op = "none"
    BY <1>2 DEF Idle
  <2> QED
    BY <1>2, <2>1
<1>3. CASE main \in [op : {"data"}, key : Keys, lag : 0 .. MaxLag]
  <2>1. main.op = "data" /\ Idle.op = "none"
    BY <1>3 DEF Idle
  <2> QED
    BY <1>3, <2>1
<1> QED
  BY <1>1, <1>2, <1>3 DEF Handlers

\* The part of the invariant a cardinality needs: the table is finite, and it
\* holds at most _max_flow sessions.
TableInv == IsFiniteSet(DOMAIN hmap) /\ FlowLimit

\* The table is finite and within its capacity.
LEMMA SizeType ==
  ASSUME TableInv
  PROVE  Size \in 0 .. MaxFlow
  BY FS_CardinalityType DEF TableInv, FlowLimit, Size

\* One record written, or some erased: the table stays a table.
LEMMA RecordWritten ==
  ASSUME TypeOK, TableInv, NEW k \in DOMAIN hmap, NEW s \in Session,
         hmap' = [hmap EXCEPT ![k] = s]
  PROVE  /\ DOMAIN hmap' = DOMAIN hmap
         /\ hmap' \in [DOMAIN hmap' -> Session]
         /\ TableInv'
<1>1. DOMAIN hmap' = DOMAIN hmap /\ hmap' \in [DOMAIN hmap -> Session]
  BY DEF TypeOK
<1> QED
  BY <1>1 DEF TableInv, FlowLimit, Size

\* The table with a record inserted.
LEMMA RecordInserted ==
  ASSUME TypeOK, TableInv, HasRoom,
         NEW k \in Keys \ DOMAIN hmap, NEW s \in Session, hmap' = With(k, s)
  PROVE  /\ DOMAIN hmap' = DOMAIN hmap \cup {k}
         /\ DOMAIN hmap' \subseteq Keys
         /\ hmap' \in [DOMAIN hmap' -> Session]
         /\ TableInv'
         /\ Size' = Size + 1
<1>1. /\ DOMAIN hmap' = DOMAIN hmap \cup {k}
      /\ hmap' \in [DOMAIN hmap' -> Session]
  BY DEF With, TypeOK
<1>2. /\ IsFiniteSet(DOMAIN hmap')
      /\ Cardinality(DOMAIN hmap') = Cardinality(DOMAIN hmap) + 1
  BY <1>1, FS_AddElement DEF TableInv
<1>3. Size \in 0 .. MaxFlow
  BY SizeType
<1>4. TableInv' /\ Size' = Size + 1
  BY <1>2, <1>3 DEF TableInv, FlowLimit, Size, HasRoom
<1> QED
  BY <1>1, <1>4 DEF TypeOK

\* The table with records erased.
LEMMA RecordsErased ==
  ASSUME TypeOK, TableInv, NEW S, hmap' = Without(S)
  PROVE  /\ DOMAIN hmap' = DOMAIN hmap \ S
         /\ DOMAIN hmap' \subseteq Keys
         /\ hmap' \in [DOMAIN hmap' -> Session]
         /\ TableInv'
<1>1. /\ DOMAIN hmap' = DOMAIN hmap \ S
      /\ hmap' \in [DOMAIN hmap' -> Session]
  BY DEF Without, Restrict, TypeOK
<1>2. /\ IsFiniteSet(DOMAIN hmap')
      /\ Cardinality(DOMAIN hmap') <= Cardinality(DOMAIN hmap)
      /\ Cardinality(DOMAIN hmap') \in Nat
  BY <1>1, FS_Subset, FS_CardinalityType DEF TableInv
<1>3. Size \in 0 .. MaxFlow
  BY SizeType
<1>4. TableInv'
  BY <1>2, <1>3 DEF TableInv, FlowLimit, Size
<1> QED
  BY <1>1, <1>4 DEF TypeOK

-----------------------------------------------------------------------------
(* Bandwidth as a set of units *)

\* The units of one session.
LEMMA BlockSize ==
  ASSUME NEW k, NEW n \in Nat
  PROVE  /\ IsFiniteSet({k} \X (1 .. n))
         /\ Cardinality({k} \X (1 .. n)) = n
<1>1. IsFiniteSet({k}) /\ Cardinality({k}) = 1
  BY FS_Singleton
<1>2. IsFiniteSet(1 .. n) /\ Cardinality(1 .. n) = n
  BY FS_Interval
<1>3. /\ IsFiniteSet({k} \X (1 .. n))
      /\ Cardinality({k} \X (1 .. n)) = Cardinality({k}) * Cardinality(1 .. n)
  BY <1>1, <1>2, FS_Product
<1> QED
  BY <1>1, <1>2, <1>3

\* The units of some sessions are finitely many: a uint16_t bounds each session.
LEMMA UnitsFinite ==
  ASSUME TypeOK, TableInv, NEW S \in SUBSET DOMAIN hmap
  PROVE  IsFiniteSet(UnitsOf(S))
<1>1. IsFiniteSet(S) /\ IsFiniteSet(0 .. Width)
  BY FS_Subset, FS_Interval DEF TableInv
<1>2. IsFiniteSet(S \X (0 .. Width))
  BY <1>1, FS_Product
<1>3. UnitsOf(S) \subseteq S \X (0 .. Width)
  <2>1. \A k \in S : hmap[k].rq_bw \in 0 .. Width
    BY DEF TypeOK, Session, UInt16
  <2> QED
    BY <2>1 DEF UnitsOf
<1> QED
  BY <1>2, <1>3, FS_Subset

-----------------------------------------------------------------------------
(* Type correctness and the flow limit *)

TypeInv == TypeOK /\ TableInv

\* The types hold initially.
LEMMA InitTypeInv == Init => TypeInv
<1> SUFFICES ASSUME Init PROVE TypeInv
  OBVIOUS
<1>1. DOMAIN hmap = {} /\ hmap \in [DOMAIN hmap -> Session]
  BY DEF Init
<1>2. IsFiniteSet(DOMAIN hmap) /\ Size = 0
  BY <1>1, FS_EmptySet DEF Size
<1>3. main \in Handlers /\ sent \in Packets /\ daemon \in Sleeping
  BY DEF Init, Handlers, Packets, Sleeping
<1>4. cur_rq_bw \in UInt16 /\ lost \in UInt16
  BY DEF Init, UInt16
<1> QED
  BY <1>1, <1>2, <1>3, <1>4 DEF TypeInv, TypeOK, TableInv, FlowLimit

\* A forwarded reservation is a packet.
LEMMA BwForwardType ==
  ASSUME NEW k \in Keys, NEW b \in Int, NEW n \in 0 .. MaxFlow
  PROVE  BwForward(k, b, n) \in Packets
  BY WireType DEF BwForward, Packets

\* Every step keeps the types.
LEMMA NextTypeInv == TypeInv /\ [Next]_vars => TypeInv'
<1> SUFFICES ASSUME TypeInv, [Next]_vars
             PROVE  TypeInv'
  OBVIOUS
<1> USE DEF TypeInv
<1> cur_rq_bw \in Int /\ main \in Handlers
  BY DEF TypeOK, UInt16
<1>1. ASSUME NEW k \in Keys, ProcessProbe(k)
      PROVE  TypeInv'
  <2>1. sent' \in Packets
    <3>1. Wire(MaxFwdBw - cur_rq_bw) \in {Wire(v) : v \in UInt16}
      BY WireType
    <3> QED
      BY <1>1, <3>1, SizeType DEF ProcessProbe, Packets
  <2> QED
    BY <1>1, <2>1 DEF ProcessProbe, TypeOK, TableInv, FlowLimit, Size
<1>2. ASSUME NEW k \in Keys, NEW rq \in Requests, ReserveArrives(k, rq)
      PROVE  TypeInv'
  <2>1. main' \in Handlers
    BY <1>2 DEF ReserveArrives, Handlers
  <2> QED
    BY <1>2, <2>1 DEF ReserveArrives, TypeOK, TableInv, FlowLimit, Size
<1>3. ASSUME NEW k \in Keys, ProcessBwRelease(k)
      PROVE  TypeInv'
  <2>1. cur_rq_bw' \in UInt16
    <3>1. hmap[k].rq_bw \in Int
      <4>1. hmap[k] \in Session
        BY <1>3 DEF ProcessBwRelease, TypeOK
      <4> QED
        BY <4>1 DEF Session, UInt16
    <3>2. cur_rq_bw - hmap[k].rq_bw \in Int
      BY <3>1
    <3>3. cur_rq_bw' = (cur_rq_bw - hmap[k].rq_bw) % Width
      BY <1>3 DEF ProcessBwRelease
    <3> QED
      BY <3>2, <3>3, WrapType
  <2> QED
    BY <1>3, <2>1, RecordsErased DEF ProcessBwRelease, TypeOK
<1>4. ASSUME NEW k \in Keys, DataArrives(k)
      PROVE  TypeInv'
  <2>1. main' \in Handlers
    BY <1>4 DEF DataArrives, Handlers
  <2> QED
    BY <1>4, <2>1 DEF DataArrives, TypeOK, TableInv, FlowLimit, Size
<1>5. CASE ReserveKnown
  <2> DEFINE old     == hmap[main.key].rq_bw
             freed   == (cur_rq_bw - old) % Width
             granted == IF main.rq_bw = old THEN old ELSE Grant(main.rq_bw, freed)
             s       == [rq_bw |-> granted, idle |-> main.lag]
  <2>1. /\ main.key \in DOMAIN hmap
        /\ main.lag \in 0 .. MaxLag
        /\ main.rq_bw \in Nat
        /\ main.key \in Keys
    BY <1>5, HandlerCases DEF ReserveKnown
  <2>2. old \in UInt16 /\ freed \in UInt16
    <3>1. old \in UInt16
      BY <2>1 DEF TypeOK, Session
    <3>2. cur_rq_bw - old \in Int
      BY <3>1 DEF UInt16
    <3> QED
      BY <3>1, <3>2, WrapType
  <2>3. granted \in UInt16
    <3> HIDE DEF old, freed
    <3> QED
      BY <2>1, <2>2, GrantType
  <2>4. s \in Session
    BY <2>1, <2>3 DEF Session, MaxIdle
  <2>5. hmap' = [hmap EXCEPT ![main.key] = s]
    BY <1>5 DEF ReserveKnown
  <2>6. /\ DOMAIN hmap' = DOMAIN hmap
        /\ hmap' \in [DOMAIN hmap' -> Session]
        /\ TableInv'
    <3> HIDE DEF s
    <3> QED
      BY <2>1, <2>4, <2>5, RecordWritten
  <2>7. cur_rq_bw' \in UInt16
    <3>1. freed + granted \in Int
      BY <2>2, <2>3 DEF UInt16
    <3>2. (freed + granted) % Width \in UInt16
      BY <3>1, WrapType
    <3>3. cur_rq_bw' = IF main.rq_bw = old THEN cur_rq_bw
                       ELSE (freed + granted) % Width
      BY <1>5 DEF ReserveKnown
    <3> HIDE DEF freed, granted, old
    <3> QED
      BY <3>2, <3>3 DEF TypeOK
  <2>8. sent' \in Packets
    <3>1. sent' = BwForward(main.key, granted, Size)
      BY <1>5 DEF ReserveKnown
    <3>2. granted \in Int
      BY <2>3 DEF UInt16
    <3> HIDE DEF granted
    <3> QED
      BY <2>1, <3>1, <3>2, SizeType, BwForwardType
  <2>9. main' \in Handlers /\ daemon' = daemon /\ lost' = lost
    BY <1>5 DEF ReserveKnown, Handlers
  <2> QED
    BY <2>6, <2>7, <2>8, <2>9 DEF TypeOK
<1>6. CASE ReserveAdmitted
  <2> DEFINE granted == Grant(main.rq_bw, cur_rq_bw)
             s       == [rq_bw |-> granted, idle |-> main.lag]
  <2>1. /\ main.key \in Keys \ DOMAIN hmap
        /\ main.lag \in 0 .. MaxLag
        /\ main.rq_bw \in Nat
        /\ HasRoom
    BY <1>6, HandlerCases DEF ReserveAdmitted
  <2>2. granted \in UInt16
    BY <2>1, GrantType DEF TypeOK
  <2>3. s \in Session
    BY <2>1, <2>2 DEF Session, MaxIdle
  <2>4. hmap' = With(main.key, s)
    BY <1>6 DEF ReserveAdmitted
  <2>5. /\ DOMAIN hmap' \subseteq Keys
        /\ hmap' \in [DOMAIN hmap' -> Session]
        /\ TableInv'
        /\ Size' = Size + 1
    <3> HIDE DEF s
    <3> QED
      BY <2>1, <2>3, <2>4, RecordInserted
  <2>6. cur_rq_bw' \in UInt16
    <3>1. cur_rq_bw + granted \in Int
      BY <2>2 DEF UInt16
    <3> QED
      BY <1>6, <3>1, WrapType DEF ReserveAdmitted
  <2>7. sent' \in Packets
    <3>1. sent' = BwForward(main.key, granted, Size + 1)
      BY <1>6 DEF ReserveAdmitted
    <3>2. granted \in Int
      BY <2>2 DEF UInt16
    <3>3. Size + 1 \in 0 .. MaxFlow
      BY <2>1, SizeType DEF HasRoom
    <3> HIDE DEF granted
    <3> QED
      BY <2>1, <3>1, <3>2, <3>3, BwForwardType
  <2>8. main' \in Handlers /\ daemon' = daemon /\ lost' = lost
    BY <1>6 DEF ReserveAdmitted, Handlers
  <2> QED
    BY <2>5, <2>6, <2>7, <2>8 DEF TypeOK
<1>7. CASE ReserveRefused
  <2> DEFINE granted == Grant(main.rq_bw, cur_rq_bw)
  <2>1. main.key \in Keys /\ main.rq_bw \in Nat
    BY <1>7, HandlerCases DEF ReserveRefused
  <2>2. granted \in UInt16
    BY <2>1, GrantType DEF TypeOK
  <2>3. cur_rq_bw' \in UInt16 /\ lost' \in UInt16
    <3>1. cur_rq_bw + granted \in Int /\ lost + granted \in Int
      BY <2>2 DEF UInt16, TypeOK
    <3> QED
      BY <1>7, <3>1, WrapType DEF ReserveRefused
  <2>4. sent' \in Packets
    <3>1. sent' = BwForward(main.key, granted, Size)
      BY <1>7 DEF ReserveRefused
    <3>2. granted \in Int
      BY <2>2 DEF UInt16
    <3> HIDE DEF granted
    <3> QED
      BY <2>1, <3>1, <3>2, SizeType, BwForwardType
  <2>5. main' \in Handlers /\ daemon' = daemon /\ hmap' = hmap
    BY <1>7 DEF ReserveRefused, Handlers
  <2> QED
    BY <2>3, <2>4, <2>5 DEF TypeOK, TableInv, FlowLimit, Size
<1>8. CASE DataForwarded
  <2> DEFINE s == [hmap[main.key] EXCEPT !.idle = main.lag]
  <2>1. /\ main.key \in DOMAIN hmap
        /\ main.lag \in 0 .. MaxLag
        /\ main.key \in Keys
    BY <1>8, HandlerCases DEF DataForwarded
  <2>2. s \in Session
    BY <2>1 DEF Session, MaxIdle, TypeOK
  <2>3. hmap' = [hmap EXCEPT ![main.key] = s]
    BY <1>8 DEF DataForwarded
  <2>4. /\ DOMAIN hmap' = DOMAIN hmap
        /\ hmap' \in [DOMAIN hmap' -> Session]
        /\ TableInv'
    <3> HIDE DEF s
    <3> QED
      BY <2>1, <2>2, <2>3, RecordWritten
  <2>5. sent' \in Packets /\ main' \in Handlers
    BY <1>8, <2>1 DEF DataForwarded, Packets, Handlers
  <2> QED
    BY <1>8, <2>4, <2>5 DEF DataForwarded, TypeOK
<1>9. CASE DataDropped
  <2>1. main' \in Handlers
    BY <1>9 DEF DataDropped, Handlers
  <2> QED
    BY <1>9, <2>1 DEF DataDropped, TypeOK, TableInv, FlowLimit, Size
<1>10. CASE DaemonWakes
  <2>1. daemon' \in Locking
    BY <1>10 DEF DaemonWakes, Locking
  <2> QED
    BY <1>10, <2>1 DEF DaemonWakes, TypeOK, TableInv, FlowLimit, Size
<1>11. CASE UpdateFwdHmap
  <2>1. daemon' \in Sleeping
    BY <1>11 DEF UpdateFwdHmap, Sleeping
  <2>2. cur_rq_bw' \in UInt16
    <3>1. Reclaimed \in Int
      <4>1. IsFiniteSet(UnitsOf(TimedOut))
        BY UnitsFinite DEF TimedOut
      <4> QED
        BY <4>1, FS_CardinalityType DEF Reclaimed
    <3> QED
      BY <1>11, <3>1, WrapType DEF UpdateFwdHmap
  <2> QED
    BY <1>11, <2>1, <2>2, RecordsErased DEF UpdateFwdHmap, TypeOK
<1>12. CASE Tick
  <2>1. /\ DOMAIN hmap' = DOMAIN hmap
        /\ hmap' \in [DOMAIN hmap' -> Session]
    <3>1. \A k \in DOMAIN hmap : [hmap[k] EXCEPT !.idle = Older(@)] \in Session
      BY OlderType DEF TypeOK, Session
    <3>2. hmap' = [k \in DOMAIN hmap |-> [hmap[k] EXCEPT !.idle = Older(@)]]
      BY <1>12 DEF Tick
    <3> QED
      BY <3>1, <3>2
  <2>2. TableInv'
    BY <2>1 DEF TableInv, FlowLimit, Size
  <2>3. main' \in Handlers
    BY <1>12, HandlerCases DEF Tick, Handlers, Idle
  <2>4. daemon' \in Sleeping \cup Locking
    BY <1>12 DEF Tick, Sleeping, Locking, TypeOK
  <2> QED
    BY <1>12, <2>1, <2>2, <2>3, <2>4 DEF Tick, TypeOK
<1>13. CASE UNCHANGED vars
  BY <1>13 DEF vars, TypeOK, TableInv, FlowLimit, Size
<1> QED
  BY <1>1, <1>2, <1>3, <1>4, <1>5, <1>6, <1>7, <1>8, <1>9, <1>10, <1>11,
     <1>12, <1>13 DEF Next, MainLocked

\* Every variable keeps its type in every reachable state: the counters stay
\* uint16_t values, the ages below the bound of the clock, and what is sent is a
\* well-formed packet whose session count respects _max_flow.
THEOREM TypeCorrect == Spec => []TypeOK
<1>1. Init => TypeInv
  BY InitTypeInv
<1>2. TypeInv /\ [Next]_vars => TypeInv'
  BY NextTypeInv
<1>3. TypeInv => TypeOK
  BY DEF TypeInv
<1> QED
  BY <1>1, <1>2, <1>3, PTL DEF Spec

\* So they hold always.
LEMMA AlwaysTypeInv == Spec => []TypeInv
  BY InitTypeInv, NextTypeInv, PTL DEF Spec

\* The table never holds more than _max_flow sessions, for every number of
\* keys: the size test and the insertion are under one lock.
THEOREM NeverTooManyFlows == Spec => []FlowLimit
<1>1. TypeInv => FlowLimit
  BY DEF TypeInv, TableInv
<1> QED
  BY <1>1, AlwaysTypeInv, PTL

-----------------------------------------------------------------------------
(* Accounting of the bandwidth *)

\* A grant and its deduction, with the history of refused reservations.
AccountInv == TypeInv /\ Accounting

\* Removing the units of some sessions from the set of units.
LEMMA UnitsErased ==
  ASSUME TypeInv, NEW S \in SUBSET DOMAIN hmap, hmap' = Without(S)
  PROVE  Cardinality(Units)' = Cardinality(Units) - Cardinality(UnitsOf(S))
<1>1. DOMAIN hmap' = DOMAIN hmap \ S
      /\ \A k \in DOMAIN hmap' : hmap'[k] = hmap[k]
  BY DEF Without, Restrict
<1>2. Units' = Units \ UnitsOf(S)
  BY <1>1 DEF Units, UnitsOf
<1>3. Units \cap UnitsOf(S) = UnitsOf(S)
  BY DEF Units, UnitsOf
<1>4. IsFiniteSet(Units)
  BY UnitsFinite DEF Units, TypeInv
<1> QED
  BY <1>2, <1>3, <1>4, FS_Difference

\* Inserting a session adds as many units as it was granted.
LEMMA UnitsInserted ==
  ASSUME TypeInv, NEW k \in Keys \ DOMAIN hmap, NEW s \in Session,
         hmap' = With(k, s)
  PROVE  Cardinality(Units)' = Cardinality(Units) + s.rq_bw
<1> DEFINE New == {k} \X (1 .. s.rq_bw)
<1>1. /\ DOMAIN hmap' = DOMAIN hmap \cup {k}
      /\ \A j \in DOMAIN hmap : hmap'[j] = hmap[j]
      /\ hmap'[k] = s
  BY DEF With
<1>2. Units' = Units \cup New
  BY <1>1 DEF Units, UnitsOf
<1>3. Units \cap New = {}
  BY DEF Units, UnitsOf
<1>4. IsFiniteSet(Units)
  BY UnitsFinite DEF Units, TypeInv
<1>5. s.rq_bw \in Nat
  BY DEF Session, UInt16
<1>6. IsFiniteSet(New) /\ Cardinality(New) = s.rq_bw
  BY <1>5, BlockSize
<1> HIDE DEF New
<1>7. Cardinality(Units \cup New) = Cardinality(Units) + Cardinality(New) - Cardinality({})
  BY <1>3, <1>4, <1>6, FS_Union
<1>8. Cardinality(Units) \in Nat
  BY <1>4, FS_CardinalityType
<1> QED
  BY <1>2, <1>5, <1>6, <1>7, <1>8, FS_EmptySet

\* Resizing a session replaces its units.
LEMMA UnitsResized ==
  ASSUME TypeInv, NEW k \in DOMAIN hmap, NEW s \in Session,
         hmap' = [hmap EXCEPT ![k] = s]
  PROVE  Cardinality(Units)' = Cardinality(Units) - hmap[k].rq_bw + s.rq_bw
<1> DEFINE New == {k} \X (1 .. s.rq_bw)
           Old == {k} \X (1 .. hmap[k].rq_bw)
           Rest == Units \ Old
<1>1. /\ DOMAIN hmap' = DOMAIN hmap
      /\ \A j \in DOMAIN hmap \ {k} : hmap'[j] = hmap[j]
      /\ hmap'[k] = s
  BY DEF TypeInv, TypeOK
<1>2. Units' = Rest \cup New
  BY <1>1 DEF Units, UnitsOf
<1>3. Rest \cap New = {} /\ Units \cap Old = Old
  BY DEF Units, UnitsOf
<1>4. IsFiniteSet(Units) /\ Cardinality(Units) \in Nat
  BY UnitsFinite, FS_CardinalityType DEF Units, TypeInv
<1>5. hmap[k].rq_bw \in Nat /\ s.rq_bw \in Nat
  BY DEF Session, UInt16, TypeInv, TypeOK
<1>6. /\ IsFiniteSet(New) /\ Cardinality(New) = s.rq_bw
      /\ IsFiniteSet(Old) /\ Cardinality(Old) = hmap[k].rq_bw
  BY <1>5, BlockSize
<1>7. IsFiniteSet(Rest) /\ Cardinality(Rest) = Cardinality(Units) - hmap[k].rq_bw
  <2> HIDE DEF Old
  <2>1. /\ IsFiniteSet(Units \ Old)
        /\ Cardinality(Units \ Old) = Cardinality(Units) - Cardinality(Units \cap Old)
    BY <1>4, FS_Difference
  <2> QED
    BY <1>3, <1>6, <2>1
<1>8. Cardinality(Rest \cup New) = Cardinality(Rest) + Cardinality(New) - Cardinality({})
  <2> HIDE DEF Rest, New
  <2> QED
    BY <1>3, <1>6, <1>7, FS_Union
<1> QED
  BY <1>2, <1>4, <1>5, <1>6, <1>7, <1>8, FS_EmptySet

\* The counter follows: adding or subtracting after the wrap is adding or
\* subtracting before it.
LEMMA CounterAdds ==
  ASSUME NEW n \in Int, NEW d \in Int, NEW c \in Int, c = n % Width
  PROVE  (c + d) % Width = (n + d) % Width
  BY ModAdd

\* Subtracting from a wrapped counter wraps the difference.
LEMMA CounterSubtracts ==
  ASSUME NEW n \in Int, NEW d \in Int, NEW c \in Int, c = n % Width
  PROVE  (c - d) % Width = (n - d) % Width
  BY ModSubtract

\* The reserved units are those of the records, whatever else they hold.
LEMMA UnitsUnchanged ==
  ASSUME DOMAIN hmap' = DOMAIN hmap,
         \A k \in DOMAIN hmap : hmap'[k].rq_bw = hmap[k].rq_bw
  PROVE  Units' = Units
  BY DEF Units, UnitsOf

\* The accounting holds initially.
LEMMA InitAccounting == Init => Accounting
<1> SUFFICES ASSUME Init PROVE Accounting
  OBVIOUS
<1>1. Units = {}
  BY DEF Init, Units, UnitsOf
<1>2. 0 % Width = 0
  BY ModSmall
<1> QED
  BY <1>1, <1>2, FS_EmptySet DEF Init, Accounting

\* Every step keeps it.
LEMMA NextAccounting == AccountInv /\ [Next]_vars => Accounting'
<1> SUFFICES ASSUME AccountInv, [Next]_vars
             PROVE  Accounting'
  OBVIOUS
<1> USE DEF AccountInv
<1> DEFINE n == Cardinality(Units) + lost
<1>0. /\ IsFiniteSet(Units)
      /\ Cardinality(Units) \in Nat
      /\ n \in Int
      /\ cur_rq_bw \in Int
      /\ lost \in Int
      /\ main \in Handlers
      /\ cur_rq_bw = n % Width
  BY UnitsFinite, FS_CardinalityType
  DEF Units, TypeInv, TypeOK, UInt16, Accounting
<1>1. ASSUME NEW k \in Keys, ProcessBwRelease(k)
      PROVE  Accounting'
  <2>1. k \in DOMAIN hmap /\ hmap[k].rq_bw \in Nat
    BY <1>1 DEF ProcessBwRelease, TypeInv, TypeOK, Session, UInt16
  <2>2. Cardinality(Units)' = Cardinality(Units) - Cardinality(UnitsOf({k}))
    BY <1>1, <2>1, UnitsErased DEF ProcessBwRelease
  <2>3. Cardinality(UnitsOf({k})) = hmap[k].rq_bw
    <3>1. UnitsOf({k}) = {k} \X (1 .. hmap[k].rq_bw)
      BY DEF UnitsOf
    <3> QED
      BY <2>1, <3>1, BlockSize
  <2>4. cur_rq_bw' = (n - hmap[k].rq_bw) % Width
    <3> DEFINE b == hmap[k].rq_bw
    <3>1. (cur_rq_bw - b) % Width = (n - b) % Width
      <4>1. b \in Int
        BY <2>1
      <4> HIDE DEF n, b
      <4> QED
        BY <1>0, <4>1, CounterSubtracts
    <3> QED
      BY <1>1, <3>1 DEF ProcessBwRelease
  <2>5. lost' = lost
    BY <1>1 DEF ProcessBwRelease
  <2>6. n - hmap[k].rq_bw = Cardinality(Units)' + lost'
    BY <1>0, <2>1, <2>2, <2>3, <2>5
  <2> QED
    BY <2>4, <2>6 DEF Accounting
<1>2. CASE ReserveKnown
  <2> DEFINE old     == hmap[main.key].rq_bw
             freed   == (cur_rq_bw - old) % Width
             granted == IF main.rq_bw = old THEN old ELSE Grant(main.rq_bw, freed)
             s       == [rq_bw |-> granted, idle |-> main.lag]
  <2>1. /\ main.key \in DOMAIN hmap
        /\ main.lag \in 0 .. MaxLag
        /\ main.rq_bw \in Nat
    BY <1>2, <1>0, HandlerCases DEF ReserveKnown
  <2>2. old \in UInt16 /\ old \in Int
    BY <2>1 DEF TypeInv, TypeOK, Session, UInt16
  <2>3. freed \in UInt16
    BY <1>0, <2>2, WrapType
  <2>4. granted \in UInt16 /\ granted \in Int
    <3>1. granted \in UInt16
      <4> HIDE DEF old, freed
      <4> QED
        BY <2>1, <2>2, <2>3, GrantType
    <3> QED
      BY <3>1 DEF UInt16
  <2>5. s \in Session /\ s.rq_bw = granted
    BY <2>1, <2>4 DEF Session, MaxIdle
  <2>6. /\ hmap' = [hmap EXCEPT ![main.key] = s]
        /\ cur_rq_bw' = IF main.rq_bw = old THEN cur_rq_bw
                         ELSE (freed + granted) % Width
        /\ lost' = lost
    BY <1>2 DEF ReserveKnown
  <2>7. Cardinality(Units)' = Cardinality(Units) - old + granted
    <3>1. Cardinality(Units)' = Cardinality(Units) - old + s.rq_bw
      <4> HIDE DEF s
      <4> QED
        BY <2>1, <2>5, <2>6, UnitsResized
    <3> QED
      BY <3>1, <2>5
  <2>8. Cardinality(Units)' + lost' = n - old + granted
    <3> HIDE DEF old, granted
    <3> QED
      BY <1>0, <2>2, <2>4, <2>6, <2>7
  <2>9. cur_rq_bw' = (n - old + granted) % Width
    <3>1. CASE main.rq_bw = old
      <4>1. n - old + granted = n
        BY <1>0, <2>2, <3>1
      <4> QED
        BY <1>0, <2>6, <3>1, <4>1
    <3>2. CASE main.rq_bw # old
      <4>1. freed = (n - old) % Width
        <5> HIDE DEF n, old
        <5> QED
          BY <1>0, <2>2, CounterSubtracts
      <4>2. n - old \in Int /\ freed \in Int
        <5> HIDE DEF n, old, freed
        <5> QED
          BY <1>0, <2>2, <2>3 DEF UInt16
      <4>3. (freed + granted) % Width = ((n - old) + granted) % Width
        <5> HIDE DEF n, old, freed, granted
        <5> QED
          BY <2>4, <4>1, <4>2, CounterAdds
      <4> QED
        BY <2>6, <3>2, <4>3
    <3> QED
      BY <3>1, <3>2
  <2> QED
    BY <2>8, <2>9 DEF Accounting
<1>3. CASE ReserveAdmitted
  <2> DEFINE granted == Grant(main.rq_bw, cur_rq_bw)
             s       == [rq_bw |-> granted, idle |-> main.lag]
  <2>1. /\ main.key \in Keys \ DOMAIN hmap
        /\ main.lag \in 0 .. MaxLag
        /\ main.rq_bw \in Nat
    BY <1>0, <1>3, HandlerCases DEF ReserveAdmitted
  <2>2. granted \in UInt16 /\ granted \in Int
    BY <2>1, GrantType DEF TypeInv, TypeOK, UInt16
  <2>3. s \in Session /\ s.rq_bw = granted
    BY <2>1, <2>2 DEF Session, MaxIdle
  <2>4. /\ hmap' = With(main.key, s)
        /\ cur_rq_bw' = (cur_rq_bw + granted) % Width
        /\ lost' = lost
    BY <1>3 DEF ReserveAdmitted
  <2>5. Cardinality(Units)' = Cardinality(Units) + granted
    <3>1. Cardinality(Units)' = Cardinality(Units) + s.rq_bw
      <4> HIDE DEF s
      <4> QED
        BY <2>1, <2>3, <2>4, UnitsInserted
    <3> QED
      BY <3>1, <2>3
  <2>6. Cardinality(Units)' + lost' = n + granted
    BY <1>0, <2>2, <2>4, <2>5
  <2>7. (cur_rq_bw + granted) % Width = (n + granted) % Width
    <3> HIDE DEF n, granted
    <3> QED
      BY <1>0, <2>2, CounterAdds
  <2> QED
    BY <2>4, <2>6, <2>7 DEF Accounting
<1>4. CASE ReserveRefused
  <2> DEFINE granted == Grant(main.rq_bw, cur_rq_bw)
  <2>1. main.rq_bw \in Nat
    BY <1>0, <1>4, HandlerCases DEF ReserveRefused
  <2>2. granted \in Int
    BY <2>1, GrantType DEF TypeInv, TypeOK, UInt16
  <2>3. /\ hmap' = hmap
        /\ cur_rq_bw' = (cur_rq_bw + granted) % Width
        /\ lost' = (lost + granted) % Width
    BY <1>4 DEF ReserveRefused
  <2>4. Units' = Units
    BY <2>3 DEF Units, UnitsOf
  <2>5. (cur_rq_bw + granted) % Width = (n + granted) % Width
    <3> HIDE DEF n, granted
    <3> QED
      BY <1>0, <2>2, CounterAdds
  <2>6. (Cardinality(Units) + lost') % Width
          = (Cardinality(Units) + (lost + granted)) % Width
    <3> DEFINE c == Cardinality(Units)
               d == lost + granted
    <3>1. c \in Int /\ d \in Int
      BY <1>0, <2>2
    <3>2. (c + (d % Width)) % Width = (c + d) % Width
      <4> HIDE DEF c, d
      <4> QED
        BY <3>1, ModAddRight
    <3> QED
      BY <2>3, <3>2
  <2>7. n + granted = Cardinality(Units) + (lost + granted)
    BY <1>0, <2>2
  <2> QED
    BY <2>3, <2>4, <2>5, <2>6, <2>7 DEF Accounting
<1>5. CASE UpdateFwdHmap
  <2>1. TimedOut \in SUBSET DOMAIN hmap
    BY DEF TimedOut
  <2>2. Cardinality(Units)' = Cardinality(Units) - Reclaimed
    BY <1>5, <2>1, UnitsErased DEF UpdateFwdHmap, Reclaimed
  <2>3. Reclaimed \in Int
    BY <2>1, UnitsFinite, FS_CardinalityType DEF Reclaimed, TypeInv
  <2>4. (cur_rq_bw - Reclaimed) % Width = (n - Reclaimed) % Width
    <3> HIDE DEF n
    <3> QED
      BY <1>0, <2>3, CounterSubtracts
  <2>5. /\ cur_rq_bw' = (cur_rq_bw - Reclaimed) % Width
        /\ lost' = lost
    BY <1>5 DEF UpdateFwdHmap
  <2>6. Cardinality(Units)' + lost' = n - Reclaimed
    BY <1>0, <2>2, <2>3, <2>5
  <2> QED
    BY <2>4, <2>5, <2>6 DEF Accounting
<1>6. CASE DataForwarded
  <2>1. DOMAIN hmap' = DOMAIN hmap
        /\ \A k \in DOMAIN hmap : hmap'[k].rq_bw = hmap[k].rq_bw
    BY <1>6 DEF DataForwarded, TypeInv, TypeOK, Session
  <2>2. cur_rq_bw' = cur_rq_bw /\ lost' = lost
    BY <1>6 DEF DataForwarded
  <2> QED
    BY <2>1, <2>2, UnitsUnchanged DEF Accounting
<1>7. CASE Tick
  <2>1. DOMAIN hmap' = DOMAIN hmap
        /\ \A k \in DOMAIN hmap : hmap'[k].rq_bw = hmap[k].rq_bw
    BY <1>7 DEF Tick, TypeInv, TypeOK, Session
  <2>2. cur_rq_bw' = cur_rq_bw /\ lost' = lost
    BY <1>7 DEF Tick
  <2> QED
    BY <2>1, <2>2, UnitsUnchanged DEF Accounting
<1>8. ASSUME hmap' = hmap, cur_rq_bw' = cur_rq_bw, lost' = lost
      PROVE  Accounting'
  BY <1>8 DEF Accounting, Units, UnitsOf
<1> QED
  BY <1>1, <1>2, <1>3, <1>4, <1>5, <1>6, <1>7, <1>8
  DEF Next, MainLocked, vars, ProcessProbe, ReserveArrives, DataArrives,
      DataDropped, DaemonWakes

\* The counter of the code is the bandwidth of the sessions plus what refused
\* reservations were charged, modulo 2^16, after every sequence of handlers and
\* sweeps: resizes, releases and expiries return exactly what was granted, and
\* the only way to lose bandwidth is a reservation that a full table refuses.
THEOREM BandwidthAccounted == Spec => []Accounting
<1>1. Init => AccountInv
  BY InitTypeInv, InitAccounting DEF AccountInv
<1>2. AccountInv /\ [Next]_vars => AccountInv'
  BY NextTypeInv, NextAccounting DEF AccountInv
<1>3. AccountInv => Accounting
  BY DEF AccountInv
<1> QED
  BY <1>1, <1>2, <1>3, PTL DEF Spec

-----------------------------------------------------------------------------
(* Time: how long an idle session stays, and which sessions a sweep takes *)

\* Why IdleBound holds.  A sweep leaves no session that was idle for more than
\* TimeoutSec when it read the clock, MaxLag before at the most; the next sweep
\* comes UpdateInterval and two delays later.
IdleInv ==
  \A k \in DOMAIN hmap :
    /\ daemon.at = "select" =>
         hmap[k].idle <= TimeoutSec + MaxLag + daemon.elapsed
    /\ daemon.at = "lock" =>
         hmap[k].idle <= TimeoutSec + UpdateInterval + 2 * MaxLag + daemon.elapsed

\* Where the sweep is, and how long it has been there.
LEMMA DaemonCases ==
  ASSUME daemon \in Sleeping \cup Locking
  PROVE  /\ daemon.elapsed \in Nat
         /\ \/ daemon.at = "select" /\ daemon.elapsed <= UpdateInterval + MaxLag
            \/ daemon.at = "lock" /\ daemon.elapsed <= MaxLag
  BY DEF Sleeping, Locking

\* Idle times are numbers.
LEMMA IdleType ==
  ASSUME TypeOK, NEW k \in DOMAIN hmap
  PROVE  hmap[k].idle \in Nat
  BY DEF TypeOK, Session, MaxIdle

\* The bound on idle times holds initially.
LEMMA InitIdleInv == Init => IdleInv
  BY DEF Init, IdleInv

\* Every step keeps it.
LEMMA NextIdleInv == TypeInv /\ IdleInv /\ [Next]_vars => IdleInv'
<1> SUFFICES ASSUME TypeInv, IdleInv, [Next]_vars
             PROVE  IdleInv'
  OBVIOUS
<1>0. /\ TypeOK
      /\ main \in Handlers
      /\ daemon.elapsed \in Nat
      /\ \/ daemon.at = "select" /\ daemon.elapsed <= UpdateInterval + MaxLag
         \/ daemon.at = "lock" /\ daemon.elapsed <= MaxLag
  BY DaemonCases DEF TypeInv, TypeOK
<1>1. ASSUME daemon' = daemon,
             \A k \in DOMAIN hmap' :
               \/ k \in DOMAIN hmap /\ hmap'[k].idle = hmap[k].idle
               \/ hmap'[k].idle \in 0 .. MaxLag
      PROVE  IdleInv'
  BY <1>0, <1>1 DEF IdleInv
<1>2. ASSUME NEW k \in Keys, ProcessBwRelease(k)
      PROVE  IdleInv'
  BY <1>1, <1>2 DEF ProcessBwRelease, Without, Restrict
<1>3. CASE ReserveKnown
  <2>1. main.key \in DOMAIN hmap /\ main.lag \in 0 .. MaxLag
    BY <1>0, <1>3, HandlerCases DEF ReserveKnown
  <2>2. \A k \in DOMAIN hmap' :
          k \in DOMAIN hmap /\ (k # main.key => hmap'[k] = hmap[k])
    BY <1>0, <1>3 DEF ReserveKnown, TypeOK
  <2>3. hmap'[main.key].idle = main.lag
    BY <1>0, <1>3, <2>1 DEF ReserveKnown, TypeOK
  <2>4. daemon' = daemon
    BY <1>3 DEF ReserveKnown
  <2> QED
    BY <1>1, <2>1, <2>2, <2>3, <2>4
<1>4. CASE ReserveAdmitted
  <2>1. main.lag \in 0 .. MaxLag
    BY <1>0, <1>4, HandlerCases DEF ReserveAdmitted
  <2>2. \A k \in DOMAIN hmap' :
          \/ k \in DOMAIN hmap /\ hmap'[k] = hmap[k]
          \/ hmap'[k].idle = main.lag
    BY <1>4 DEF ReserveAdmitted, With
  <2>3. daemon' = daemon
    BY <1>4 DEF ReserveAdmitted
  <2> QED
    BY <1>1, <2>1, <2>2, <2>3
<1>5. CASE DataForwarded
  <2>1. main.key \in DOMAIN hmap /\ main.lag \in 0 .. MaxLag
    BY <1>0, <1>5, HandlerCases DEF DataForwarded
  <2>2. \A k \in DOMAIN hmap' :
          /\ k \in DOMAIN hmap
          /\ k # main.key => hmap'[k] = hmap[k]
          /\ k = main.key => hmap'[k].idle = main.lag
    BY <1>0, <1>5 DEF DataForwarded, TypeOK, Session
  <2>3. daemon' = daemon
    BY <1>5 DEF DataForwarded
  <2> QED
    BY <1>1, <2>1, <2>2, <2>3
<1>6. CASE DaemonWakes
  <2>1. /\ daemon.at = "select"
        /\ daemon.elapsed <= UpdateInterval + MaxLag
        /\ daemon' = [at |-> "lock", elapsed |-> 0]
        /\ hmap' = hmap
    BY <1>0, <1>6 DEF DaemonWakes
  <2>2. \A k \in DOMAIN hmap :
          hmap[k].idle <= TimeoutSec + UpdateInterval + 2 * MaxLag
    BY <1>0, <2>1, IdleType DEF IdleInv
  <2> QED
    BY <2>1, <2>2 DEF IdleInv
<1>7. CASE UpdateFwdHmap
  <2>1. /\ daemon' = [at |-> "select", elapsed |-> 0]
        /\ daemon.elapsed <= MaxLag
    BY <1>0, <1>7 DEF UpdateFwdHmap
  <2>2. \A k \in DOMAIN hmap' :
          /\ k \in DOMAIN hmap
          /\ hmap'[k] = hmap[k]
          /\ ~(hmap[k].idle - daemon.elapsed > TimeoutSec)
    BY <1>7 DEF UpdateFwdHmap, Without, Restrict, TimedOut
  <2>3. \A k \in DOMAIN hmap' : hmap'[k].idle <= TimeoutSec + MaxLag
    BY <1>0, <2>1, <2>2, IdleType
  <2> QED
    BY <2>1, <2>3 DEF IdleInv
<1>8. CASE Tick
  <2>1. /\ DOMAIN hmap' = DOMAIN hmap
        /\ \A k \in DOMAIN hmap : hmap'[k].idle = Older(hmap[k].idle)
    BY <1>0, <1>8 DEF Tick, TypeOK, Session
  <2>2. \A k \in DOMAIN hmap : hmap'[k].idle <= hmap[k].idle + 1
                               /\ hmap'[k].idle \in Nat
    BY <1>0, <2>1, IdleType DEF Older
  <2>3. daemon'.at = daemon.at /\ daemon'.elapsed = daemon.elapsed + 1
    BY <1>0, <1>8 DEF Tick, TypeOK, Sleeping, Locking
  <2> QED
    BY <1>0, <2>1, <2>2, <2>3, IdleType DEF IdleInv
<1>9. CASE hmap' = hmap /\ daemon' = daemon
  BY <1>1, <1>9
<1> QED
  BY <1>2, <1>3, <1>4, <1>5, <1>6, <1>7, <1>8, <1>9
  DEF Next, MainLocked, vars, ProcessProbe, ReserveArrives, DataArrives,
      DataDropped, ReserveRefused

\* The resource of a client that vanished comes back: no session stays idle for
\* longer than timeout + update interval + three scheduling delays.
THEOREM IdleBounded == Spec => []IdleBound
<1>1. TypeInv /\ IdleInv => IdleBound
  <2> SUFFICES ASSUME TypeInv, IdleInv, NEW k \in DOMAIN hmap
               PROVE  hmap[k].idle <= MaxIdle
    BY DEF IdleBound
  <2>1. /\ hmap[k].idle \in Nat
        /\ daemon.elapsed \in Nat
        /\ \/ daemon.at = "select" /\ daemon.elapsed <= UpdateInterval + MaxLag
           \/ daemon.at = "lock" /\ daemon.elapsed <= MaxLag
    BY DaemonCases, IdleType DEF TypeInv, TypeOK
  <2> QED
    BY <2>1 DEF IdleInv, MaxIdle
<1> QED
  BY <1>1, InitIdleInv, NextIdleInv, AlwaysTypeInv, PTL DEF Spec

-----------------------------------------------------------------------------
\* How the domain of the table shrinks: by a release, or by a sweep, which takes
\* timed-out sessions only.
LEMMA WhoErases ==
  ASSUME TypeInv, [Next]_vars, NEW k \in DOMAIN hmap \ DOMAIN hmap'
  PROVE  ProcessBwRelease(k) \/ (UpdateFwdHmap /\ k \in TimedOut)
<1>1. ASSUME NEW j \in Keys, ProcessBwRelease(j)
      PROVE  ProcessBwRelease(k)
  <2>1. j = k
    BY <1>1 DEF ProcessBwRelease, Without, Restrict
  <2> QED
    BY <1>1, <2>1
<1>2. CASE UpdateFwdHmap
  BY <1>2 DEF UpdateFwdHmap, Without, Restrict
<1>3. ASSUME DOMAIN hmap \subseteq DOMAIN hmap'
      PROVE  FALSE
  BY <1>3
<1> QED
  BY <1>1, <1>2, <1>3
  DEF Next, MainLocked, vars, ProcessProbe, ReserveArrives, DataArrives,
      DataDropped, DaemonWakes, ReserveKnown, ReserveAdmitted, ReserveRefused,
      DataForwarded, Tick, With, TypeInv, TypeOK

\* A session contacted within the timeout ends by its release only, although
\* the daemon compares with a clock reading it made before it had the lock.
THEOREM FreshStay == Spec => FreshSessionsStay
<1>1. TypeInv /\ [Next]_vars =>
        [\A k \in DOMAIN hmap : hmap[k].idle <= TimeoutSec =>
           (k \in DOMAIN hmap' \/ ProcessBwRelease(k))]_vars
  <2> SUFFICES ASSUME TypeInv, [Next]_vars, NEW k \in DOMAIN hmap,
                      hmap[k].idle <= TimeoutSec, k \notin DOMAIN hmap'
               PROVE  ProcessBwRelease(k)
    OBVIOUS
  <2>1. hmap[k].idle \in Nat /\ daemon.elapsed \in Nat
    BY IdleType, DaemonCases DEF TypeInv, TypeOK
  <2>2. k \notin TimedOut
    BY <2>1 DEF TimedOut
  <2> QED
    BY <2>2, WhoErases
<1> QED
  BY <1>1, AlwaysTypeInv, PTL DEF Spec, FreshSessionsStay

\* A packet that waits for the lock loses its session to the sweep only if it
\* came in the last MaxLag seconds before the timeout.
THEOREM RaceWindowBounded == Spec => RaceWindow
<1>1. TypeInv /\ [Next]_vars =>
        [\A k \in DOMAIN hmap \ DOMAIN hmap' :
           (main # Idle /\ main.key = k) =>
              hmap[k].idle - main.lag > TimeoutSec - MaxLag]_vars
  <2> SUFFICES ASSUME TypeInv, [Next]_vars,
                      NEW k \in DOMAIN hmap \ DOMAIN hmap',
                      main # Idle, main.key = k
               PROVE  hmap[k].idle - main.lag > TimeoutSec - MaxLag
    OBVIOUS
  <2>1. k \in TimedOut
    BY WhoErases DEF ProcessBwRelease
  <2>2. /\ hmap[k].idle \in Nat
        /\ daemon.elapsed \in Nat
        /\ main.lag \in 0 .. MaxLag
    BY IdleType, DaemonCases, HandlerCases DEF TypeInv, TypeOK
  <2> QED
    BY <2>1, <2>2 DEF TimedOut
<1> QED
  BY <1>1, AlwaysTypeInv, PTL DEF Spec, RaceWindow

-----------------------------------------------------------------------------
(* Refinement *)

\* An empty table is a relay without leases.
LEMMA InitLease == Init => Lease!Init
  BY DEF Init, Lease!Init, LeaseOf, RelayedKey, NoPacket

\* What a step means for the lease of each key.
LEMMA HeldKeys ==
  ASSUME TypeOK
  PROVE  Lease!Held = DOMAIN hmap
  BY DEF Lease!Held, LeaseOf, TypeOK

\* RelayLease counts as this module does.
LEMMA SameCount == \A S : Lease!Cardinality(S) = Cardinality(S)
  BY DEF Lease!Cardinality, Cardinality

\* Every step of the forwarder is a step of the leases, or none.
LEMMA NextLease == TypeInv /\ [Next]_vars => [Lease!Next]_Lease!vars
<1> SUFFICES ASSUME TypeInv, [Next]_vars
             PROVE  [Lease!Next]_Lease!vars
  OBVIOUS
<1> DEFINE L == [k \in Keys |-> LeaseOf(k)]
<1>0. /\ TypeOK
      /\ main \in Handlers
      /\ Lease!Held = DOMAIN hmap
      /\ DOMAIN hmap \subseteq Keys
  BY HeldKeys DEF TypeInv, TypeOK
<1>1. ASSUME hmap' = hmap, sent' = sent
      PROVE  UNCHANGED Lease!vars
  <2>1. L' = L /\ RelayedKey' = RelayedKey
    BY <1>1 DEF LeaseOf, RelayedKey
  <2> QED
    BY <2>1 DEF Lease!vars
<1>2. ASSUME hmap' = hmap, sent'.type \in {"FW_FORWARD", "BW_FORWARD"}
      PROVE  Lease!Answered
  <2>1. L' = L /\ RelayedKey' = {}
    BY <1>2 DEF LeaseOf, RelayedKey
  <2> QED
    BY <2>1 DEF Lease!Answered
<1>3. ASSUME NEW k \in Keys, ProcessBwRelease(k)
      PROVE  Lease!Released(k)
  <2>1. /\ DOMAIN hmap' = DOMAIN hmap \ {k}
        /\ \A j \in DOMAIN hmap' : hmap'[j] = hmap[j]
        /\ sent' = sent
    BY <1>3 DEF ProcessBwRelease, Without, Restrict
  <2>2. L' = [L EXCEPT ![k] = "none"]
    BY <2>1 DEF LeaseOf
  <2>3. RelayedKey' = RelayedKey
    BY <2>1 DEF RelayedKey
  <2> QED
    BY <2>2, <2>3 DEF Lease!Released
<1>4. ASSUME NEW k \in Keys,
             DOMAIN hmap' = DOMAIN hmap \cup {k},
             hmap'[k].idle \in 0 .. MaxLag,
             \A j \in DOMAIN hmap \ {k} : hmap'[j] = hmap[j]
      PROVE  L' = [L EXCEPT ![k] = "live"]
  <2>1. LeaseOf(k)' = "live"
    BY <1>4 DEF LeaseOf
  <2>2. \A j \in Keys \ {k} : LeaseOf(j)' = LeaseOf(j)
    BY <1>4 DEF LeaseOf
  <2> HIDE DEF L
  <2> QED
    BY <2>1, <2>2 DEF L
<1>5. CASE ReserveKnown
  <2>1. /\ main.key \in DOMAIN hmap
        /\ main.key \in Keys
        /\ main.lag \in 0 .. MaxLag
    BY <1>0, <1>5, HandlerCases DEF ReserveKnown
  <2>2. /\ DOMAIN hmap' = DOMAIN hmap \cup {main.key}
        /\ hmap'[main.key].idle = main.lag
        /\ \A j \in DOMAIN hmap \ {main.key} : hmap'[j] = hmap[j]
    BY <1>0, <1>5, <2>1 DEF ReserveKnown, TypeOK
  <2>3. RelayedKey' = {}
    BY <1>5 DEF ReserveKnown, RelayedKey, BwForward
  <2>4. L' = [L EXCEPT ![main.key] = "live"]
    BY <1>4, <2>1, <2>2
  <2>5. Lease!Granted(main.key)
    BY <1>0, <2>1, <2>3, <2>4 DEF Lease!Granted
  <2> QED
    BY <2>1, <2>5 DEF Lease!Next
<1>6. CASE ReserveAdmitted
  <2>1. main.key \in Keys /\ main.lag \in 0 .. MaxLag /\ HasRoom
    BY <1>0, <1>6, HandlerCases DEF ReserveAdmitted
  <2>2. /\ DOMAIN hmap' = DOMAIN hmap \cup {main.key}
        /\ hmap'[main.key].idle = main.lag
        /\ \A j \in DOMAIN hmap \ {main.key} : hmap'[j] = hmap[j]
    BY <1>6, <2>1 DEF ReserveAdmitted, With
  <2>3. RelayedKey' = {}
    BY <1>6 DEF ReserveAdmitted, RelayedKey, BwForward
  <2>4. L' = [L EXCEPT ![main.key] = "live"]
    BY <1>4, <2>1, <2>2
  <2>5. Lease!Cardinality(Lease!Held) < MaxFlow
    BY <1>0, <2>1, SameCount DEF HasRoom, Size
  <2>6. Lease!Granted(main.key)
    BY <2>3, <2>4, <2>5 DEF Lease!Granted
  <2> QED
    BY <2>1, <2>6 DEF Lease!Next
<1>7. CASE DataForwarded
  <2>1. /\ main.key \in DOMAIN hmap
        /\ main.key \in Keys
        /\ main.lag \in 0 .. MaxLag
    BY <1>0, <1>7, HandlerCases DEF DataForwarded
  <2>2. /\ DOMAIN hmap' = DOMAIN hmap \cup {main.key}
        /\ hmap'[main.key].idle = main.lag
        /\ \A j \in DOMAIN hmap \ {main.key} : hmap'[j] = hmap[j]
    BY <1>0, <1>7, <2>1 DEF DataForwarded, TypeOK, Session
  <2>3. RelayedKey' = {main.key}
    BY <1>7 DEF DataForwarded, RelayedKey
  <2>4. L' = [L EXCEPT ![main.key] = "live"]
    BY <1>4, <2>1, <2>2
  <2>5. Lease!Relayed(main.key)
    BY <1>0, <2>1, <2>3, <2>4 DEF Lease!Relayed
  <2> QED
    BY <2>1, <2>5 DEF Lease!Next
<1>8. CASE UpdateFwdHmap
  <2>1. /\ DOMAIN hmap' = DOMAIN hmap \ TimedOut
        /\ \A k \in DOMAIN hmap' : hmap'[k] = hmap[k]
        /\ sent' = sent
    BY <1>8 DEF UpdateFwdHmap, Without, Restrict
  <2>2. \A k \in TimedOut : k \in Keys /\ LeaseOf(k) = "stale"
    <3>1. daemon.elapsed \in Nat
      BY <1>0, DaemonCases DEF TypeOK
    <3> QED
      BY <1>0, <3>1, IdleType DEF TimedOut, LeaseOf
  <2>3. L' = [k \in Keys |-> IF k \in TimedOut THEN "none" ELSE L[k]]
    BY <2>1, <2>2 DEF LeaseOf
  <2>4. TimedOut \in SUBSET {k \in Keys : L[k] = "stale"}
    BY <2>2
  <2>5. RelayedKey' = RelayedKey
    BY <2>1 DEF RelayedKey
  <2>6. Lease!Expires
    <3> HIDE DEF L
    <3> QED
      BY <2>3, <2>4, <2>5 DEF Lease!Expires, L
  <2> QED
    BY <2>6 DEF Lease!Next
<1>9. CASE Tick
  <2> DEFINE S == {k \in Keys : L[k] = "live" /\ L'[k] = "stale"}
  <2>1. /\ DOMAIN hmap' = DOMAIN hmap
        /\ \A k \in DOMAIN hmap : hmap'[k].idle = Older(hmap[k].idle)
        /\ sent' = sent
    BY <1>0, <1>9 DEF Tick, TypeOK, Session
  <2>2. \A k \in DOMAIN hmap : /\ hmap[k].idle \in Nat
                               /\ hmap'[k].idle \in Nat
                               /\ hmap'[k].idle >= hmap[k].idle
    BY <1>0, <2>1, IdleType DEF Older
  <2>3. \A k \in Keys : \/ L'[k] = L[k]
                        \/ L[k] = "live" /\ L'[k] = "stale"
    BY <2>1, <2>2 DEF LeaseOf
  <2>4. L' = [k \in Keys |-> IF k \in S THEN "stale" ELSE L[k]]
    BY <2>3
  <2>5. S \in SUBSET {k \in Keys : L[k] = "live"}
    OBVIOUS
  <2>6. RelayedKey' = RelayedKey
    BY <2>1 DEF RelayedKey
  <2>7. Lease!Ages
    <3> HIDE DEF L, S
    <3> QED
      BY <2>4, <2>5, <2>6 DEF Lease!Ages, L
  <2> QED
    BY <2>7 DEF Lease!Next
<1>10. ASSUME NEW k \in Keys, ProcessProbe(k)
       PROVE  Lease!Answered
  BY <1>2, <1>10 DEF ProcessProbe
<1>11. CASE ReserveRefused
  BY <1>2, <1>11 DEF ReserveRefused, BwForward, Lease!Next
<1> QED
  BY <1>1, <1>3, <1>5, <1>6, <1>7, <1>8, <1>9, <1>10, <1>11
  DEF Next, MainLocked, vars, ReserveArrives, DataArrives, DataDropped,
      DaemonWakes, Lease!Next

\* The two-threaded forwarder implements the lease specification: for every
\* number of keys and every timing, only a released or a stale session loses its
\* lease, only packets of leaseholders are relayed, and at most _max_flow leases
\* are held.
THEOREM ForwarderKeepsLeases == Spec => KeepsLeases
<1>1. TypeInv /\ [Next]_vars => [Lease!Next]_Lease!vars
  BY NextLease
<1> QED
  BY <1>1, InitLease, AlwaysTypeInv, PTL DEF Spec, KeepsLeases, Lease!Spec

=============================================================================
