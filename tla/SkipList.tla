------------------------------ MODULE SkipList ------------------------------
(***************************************************************************)
(* The skip list of proxy/skiplist.h, which keeps the entries of the event *)
(* queue in the order of their keys.                                       *)
(*                                                                         *)
(* An element is named by its key: the list never holds two of one key.    *)
(* Level 0 links all the elements, level i those whose height is above i.  *)
(* The height of an element is drawn at random when it is inserted, and    *)
(* head is always as high as the list.                                    *)
(***************************************************************************)
EXTENDS Integers, FiniteSets, FiniteSetsExt

CONSTANTS
  Keys,      \* the keys there are: a set of natural numbers
  MaxLevs    \* SKLIST_MAX_LEVS

ASSUME SkipListAssumption ==
  /\ Keys \subseteq Nat /\ IsFiniteSet(Keys)
  /\ MaxLevs \in Nat \ {0}

VARIABLES head, tail, sz, lvl, forward, previous

skiplist == <<head, tail, sz, lvl, forward, previous>>

NULL   == -1
Levels == 0 .. MaxLevs - 1

\* rndlvl: the heights an element can be given.
RndLvl == 1 .. MaxLevs

NoLinks == [i \in Levels |-> NULL]

SkipListInit ==
  /\ head = NULL
  /\ tail = NULL
  /\ sz = 0
  /\ lvl = 1
  /\ forward = [k \in Keys |-> NoLinks]
  /\ previous = [k \in Keys |-> NULL]

-----------------------------------------------------------------------------
(* Finding a key *)

\* The last element from x on, along level i, whose key is below k.
Along(i, k) ==
  LET last[x \in Keys] ==
        LET n == forward[x][i]
        IN  IF n # NULL /\ n < k THEN last[n] ELSE x
  IN  last

\* update: where k would be linked in on each level of the list.
UpdateTop(k) == [i \in 0 .. lvl - 1 |-> Along(lvl - 1, k)[head]]
Update(k) ==
  LET update[i \in 0 .. lvl - 1] ==
        Along(i, k)[IF i = lvl - 1 THEN head ELSE update[i + 1]]
  IN  update

ClosestPred(k) ==
  IF head = NULL THEN NULL
  ELSE IF k <= head THEN tail
  ELSE Update(k)[0]

Search(k) ==
  /\ head # NULL
  /\ head <= k
  /\ k = head \/ forward[ClosestPred(k)][0] = k

-----------------------------------------------------------------------------
(* Insertion of k with the height n drawn by rndlvl *)

\* The new head is as high as the list, and the old one is cut or grown to n.
InsertHead(k, n) ==
  LET high == IF n < lvl THEN lvl ELSE n
  IN  /\ forward' = [e \in Keys |->
            IF e = k
            THEN [i \in Levels |-> IF i < n THEN head
                                   ELSE IF i < lvl THEN forward[head][i] ELSE NULL]
            ELSE IF e = head
            THEN [i \in Levels |-> IF i \in (n .. lvl - 1) \cup (lvl .. n - 1)
                                   THEN NULL ELSE forward[e][i]]
            ELSE forward[e]]
      /\ previous' = [e \in Keys |-> IF e = k THEN NULL
                                     ELSE IF e = head THEN k ELSE previous[e]]
      /\ lvl' = high
      /\ head' = k
      /\ tail' = IF tail = NULL THEN k ELSE tail
      /\ sz' = sz + 1

InsertBehind(k, n) ==
  LET update == [i \in Levels |-> IF i < lvl THEN Update(k)[i] ELSE head]
      next   == forward[update[0]][0]
  IN  /\ forward' = [e \in Keys |-> [i \in Levels |->
            IF e = k THEN IF i < n THEN forward[update[i]][i] ELSE NULL
            ELSE IF i < n /\ e = update[i] THEN k
            ELSE forward[e][i]]]
      /\ previous' = [e \in Keys |-> IF e = k THEN update[0]
                                     ELSE IF e = next THEN k ELSE previous[e]]
      /\ lvl' = IF n > lvl THEN n ELSE lvl
      /\ tail' = IF next = NULL THEN k ELSE tail
      /\ sz' = sz + 1
      /\ UNCHANGED head

\* The caller has searched for k: insert never meets a key the list has.
Insert(k, n) ==
  IF head = NULL \/ k < head THEN InsertHead(k, n) ELSE InsertBehind(k, n)

-----------------------------------------------------------------------------
(* Removal of the first element: the only one the event queue removes *)

\* The height of the list whose first element is h, which only shrinks.
Shrink(links, h) == Max({1} \cup {l \in 1 .. lvl : links[h][l - 1] # NULL})

\* The levels on which the head is not linked to its successor pass to it.
Inherited(next) == {i \in 0 .. lvl - 1 : \A j \in i .. lvl - 1 : forward[head][j] # next}

RemoveHead ==
  LET next  == forward[head][0]
      links == [e \in Keys |->
                  IF e = head THEN NoLinks
                  ELSE IF e = next
                  THEN [i \in Levels |-> IF i \in Inherited(next)
                                         THEN forward[head][i] ELSE forward[e][i]]
                  ELSE forward[e]]
  IN  /\ forward' = links
      /\ previous' = [e \in Keys |-> IF e = next THEN NULL ELSE previous[e]]
      /\ head' = next
      /\ tail' = IF next = NULL THEN NULL ELSE tail
      /\ lvl' = IF next = NULL THEN 1 ELSE Shrink(links, next)
      /\ sz' = sz - 1

-----------------------------------------------------------------------------
(* What the list holds *)

Members == {k \in Keys : k = head \/ \E j \in Keys : forward[j][0] = k}

\* The members level i links.
Linked(i) == {k \in Members : k = head \/ \E j \in Members : forward[j][i] = k}

\* The first member above k that level i links.
NextOn(i, k) ==
  LET above == {j \in Linked(i) : j > k}
  IN  IF above = {} THEN NULL ELSE Min(above)
=============================================================================
