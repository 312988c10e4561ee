---------------------------- MODULE ExecutionProofs ----------------------------
(* What holds of Execution for any number of instances, subscribers and    *)
(* entries.                                                                *)
EXTENDS Execution, WellFoundedInduction, TLAPS

(* The stream of the property.  A subscriber is right about the property   *)
(* as long as it is told of every change, or can tell that it was not: what*)
(* makes that inductive says, of a subscriber that is away with an old     *)
(* view, that what will be replayed to it corrects it or begins with a gap.*)

Kept(b) == Len(b.buffer)

(* The ids of the buffer are the last ones that were given.                *)
Shape(b) ==
  /\ Kept(b) = IF b.next < BufferSize THEN b.next ELSE BufferSize
  /\ \A j \in 1..Kept(b) : b.buffer[j].id = b.next - Kept(b) + j - 1

(* The last property event of the buffer, if it has one, is of p.          *)
Tells(b, p) ==
  \A j \in 1..Kept(b) :
    /\ b.buffer[j].entries # NoSpec
    /\ \A k \in 1..Kept(b) : j < k => b.buffer[k].entries = NoSpec
    => b.buffer[j].entries = p

(* A view was seen on this bus, and a member has seen all there is.        *)
Knows(b, c, x) ==
  x.view # NoSpec => /\ x.last \in 0..(b.next - 1)
                     /\ c \in b.members => x.last = b.next - 1

(* The buffer goes on with a gap, or with a property event.                *)
Corrects(b, last) ==
  \/ last + 1 < b.next - Kept(b)
  \/ \E j \in 1..Kept(b) : b.buffer[j].id > last /\ b.buffer[j].entries # NoSpec

Right(b, x, p) == x.view \in {NoSpec, p} \/ Corrects(b, x.last)

StreamOf(b, f, p, s) ==
  /\ Shape(b)
  /\ ~s => Tells(b, p)
  /\ \A c \in Client : Knows(b, c, f[c])
  /\ ~s => \A c \in Client : Right(b, f[c], p)

StreamInv ==
  /\ ~silent => Exists
  /\ bus = NoBus => \A c \in Client : client[c].view = NoSpec
  /\ bus # NoBus => StreamOf(bus, client, property, silent)

Clients == [Client -> [last : Nat \cup {-1}, view : Entries \cup {NoSpec}]]

(* Naturals are well-founded: what a nonempty set of them has at its ends. *)
LEMMA LeastNat ==
  ASSUME NEW T \in SUBSET Nat, T # {}
  PROVE  Min(T) \in T /\ \A n \in T : Min(T) <= n
<1>1. PICK m \in T : \A n \in T : ~ (<<n, m>> \in OpToRel(<, Nat))
  BY NatLessThanWellFounded, WFMin
<1>2. \A n \in T : ~ (n < m)
  BY <1>1 DEF OpToRel
<1>3. \A n \in T : m <= n
  BY <1>2
<1> QED
  BY <1>3 DEF Min

LEMMA GreatestNat ==
  ASSUME NEW n \in Nat, NEW T \in SUBSET (1..n), T # {}
  PROVE  Max(T) \in T /\ \A m \in T : m <= Max(T)
<1> DEFINE below == {n - m : m \in T}
<1>1. below \in SUBSET Nat /\ below # {}
  <2>1. \A m \in T : n - m \in Nat
    OBVIOUS
  <2>2. PICK m \in T : TRUE
    OBVIOUS
  <2> QED
    BY <2>1, <2>2
<1>2. Min(below) \in below /\ \A k \in below : Min(below) <= k
  BY <1>1, LeastNat
<1>3. PICK m \in T : Min(below) = n - m
  BY <1>2
<1>4. \A k \in T : k <= m
  <2> TAKE k \in T
  <2>1. n - k \in below
    OBVIOUS
  <2> HIDE DEF below
  <2> QED
    BY <1>2, <1>3, <2>1
<1> QED
  BY <1>4 DEF Max

Pushed(b, e) ==
  [next |-> b.next + 1, members |-> b.members,
   buffer |-> Trimmed(Append(b.buffer, [id |-> b.next, entries |-> e]))]

(* What publishing does to the buffer: the events move up by cut places.   *)
LEMMA PushedBus ==
  ASSUME NEW b \in Bus, Shape(b), NEW e \in Entries \cup {NoSpec}, NEW d, d = Pushed(b, e)
  PROVE  /\ d \in Bus /\ Shape(d)
         /\ d.next = b.next + 1 /\ d.members = b.members
         /\ Kept(d) \in Nat \ {0} /\ Kept(b) \in Nat
         /\ d.buffer[Kept(d)] = [id |-> b.next, entries |-> e]
         /\ \E cut \in {0, 1} :
              /\ Kept(d) = Kept(b) + 1 - cut
              /\ \A j \in 1..(Kept(d) - 1) : d.buffer[j] = b.buffer[j + cut]
<1> DEFINE ev == [id |-> b.next, entries |-> e]
           s == b.buffer
           a == Append(s, ev)
<1>1. b.next \in Nat /\ s \in Seq(Event) /\ b.members \subseteq Client /\ ev \in Event
  BY DEF Bus, Event
<1>2. Len(s) \in Nat /\ BufferSize \in Nat \ {0}
  BY <1>1, ExecutionAssumption
<1>3. a \in Seq(Event) /\ Len(a) = Len(s) + 1
  BY <1>1
<1>4. d = [next |-> b.next + 1, members |-> b.members, buffer |-> Trimmed(a)]
  BY DEF Pushed
<1>5. /\ Len(s) = IF b.next < BufferSize THEN b.next ELSE BufferSize
      /\ \A j \in 1..Len(s) : s[j].id = b.next - Len(s) + j - 1
  BY DEF Shape, Kept
<1>6. a[Len(s) + 1] = ev /\ \A j \in 1..Len(s) : a[j] = s[j]
  BY <1>1
<1> HIDE DEF s, a, ev
<1>7. ev.id = b.next
  BY DEF ev
<1>a. d.buffer = Trimmed(a) /\ d.next = b.next + 1 /\ d.members = b.members
  BY <1>4
<1>8. CASE Len(a) > BufferSize
  <2>1. d.buffer = Tail(a)
    BY <1>a, <1>8 DEF Trimmed
  <2>2. d.buffer \in Seq(Event) /\ Len(d.buffer) = Len(s)
    BY <1>2, <1>3, <2>1
  <2>3. \A j \in 1..Len(s) : d.buffer[j] = a[j + 1]
    BY <1>2, <1>3, <2>1
  <2>4. Len(s) = BufferSize /\ BufferSize <= b.next
    BY <1>1, <1>2, <1>3, <1>5, <1>8
  <2>5. \A j \in 1..(Len(s) - 1) : d.buffer[j] = s[j + 1]
    BY <1>2, <1>6, <2>3
  <2>6. d.buffer[Len(s)] = ev
    BY <1>2, <1>6, <2>3, <2>4
  <2>7. \A j \in 1..Len(s) : d.buffer[j].id = b.next + 1 - Len(s) + j - 1
    <3> TAKE j \in 1..Len(s)
    <3>1. CASE j = Len(s)
      BY <1>1, <1>2, <1>7, <2>6, <3>1
    <3>2. CASE j # Len(s)
      <4>1. j + 1 \in 1..Len(s) /\ j \in 1..(Len(s) - 1)
        BY <1>2, <3>2
      <4>2. s[j + 1].id = b.next - Len(s) + (j + 1) - 1
        BY <1>5, <4>1
      <4>3. d.buffer[j] = s[j + 1]
        BY <2>5, <4>1
      <4> QED
        BY <1>1, <1>2, <4>2, <4>3
    <3> QED
      BY <3>1, <3>2
  <2>8. d \in Bus
    BY <1>1, <1>4, <1>a, <2>2 DEF Bus
  <2>9. Shape(d)
    BY <1>1, <1>2, <1>a, <2>2, <2>4, <2>7 DEF Shape, Kept
  <2>10. Kept(d) = Kept(b) + 1 - 1 /\ Kept(d) = Len(s) /\ Kept(b) = Len(s)
    BY <1>2, <2>2 DEF Kept, s
  <2>11. \E cut \in {0, 1} :
              /\ Kept(d) = Kept(b) + 1 - cut
              /\ \A j \in 1..(Kept(d) - 1) : d.buffer[j] = b.buffer[j + cut]
    BY <2>5, <2>10 DEF s
  <2> QED
    <3>1. Kept(d) \in Nat \ {0} /\ Kept(b) \in Nat
      BY <1>2, <2>4, <2>10
    <3>2. d.buffer[Kept(d)] = ev
      BY <2>6, <2>10
    <3> QED
      BY <1>a, <2>8, <2>9, <2>11, <3>1, <3>2 DEF ev
<1>9. CASE ~(Len(a) > BufferSize)
  <2>1. d.buffer = a
    BY <1>a, <1>9 DEF Trimmed
  <2>4. Len(s) = b.next /\ Len(s) < BufferSize
    BY <1>1, <1>2, <1>3, <1>5, <1>9
  <2>7. \A j \in 1..Len(a) : a[j].id = b.next + 1 - Len(a) + j - 1
    <3> TAKE j \in 1..Len(a)
    <3>1. CASE j = Len(a)
      BY <1>1, <1>2, <1>3, <1>6, <1>7, <3>1
    <3>2. CASE j # Len(a)
      <4>1. j \in 1..Len(s)
        BY <1>2, <1>3, <3>2
      <4>2. s[j].id = b.next - Len(s) + j - 1
        BY <1>5, <4>1
      <4> QED
        BY <1>1, <1>2, <1>3, <1>6, <4>1, <4>2
    <3> QED
      BY <3>1, <3>2
  <2>8. d \in Bus
    BY <1>1, <1>3, <1>4, <1>a, <2>1 DEF Bus
  <2>9. Shape(d)
    BY <1>1, <1>2, <1>3, <1>a, <2>1, <2>4, <2>7 DEF Shape, Kept
  <2>10. Kept(d) = Kept(b) + 1 - 0 /\ Kept(d) = Len(s) + 1 /\ Kept(b) = Len(s)
    BY <1>2, <1>3, <2>1 DEF Kept, s
  <2>11. \A j \in 1..(Kept(d) - 1) : d.buffer[j] = b.buffer[j + 0]
    BY <1>2, <1>6, <2>1, <2>10 DEF s
  <2>12. \E cut \in {0, 1} :
              /\ Kept(d) = Kept(b) + 1 - cut
              /\ \A j \in 1..(Kept(d) - 1) : d.buffer[j] = b.buffer[j + cut]
    BY <2>10, <2>11
  <2> QED
    <3>1. Kept(d) \in Nat \ {0} /\ Kept(b) \in Nat
      BY <1>2, <2>10
    <3>2. d.buffer[Kept(d)] = ev
      BY <1>6, <2>1, <2>10
    <3> QED
      BY <1>a, <2>8, <2>9, <2>12, <3>1, <3>2 DEF ev
<1> QED
  BY <1>8, <1>9


(* What the subscribers have after an event was published.                 *)
Heard(b, f, e) ==
  [c \in Client |->
     IF c \in b.members THEN Receives(f[c], [id |-> b.next, entries |-> e]) ELSE f[c]]

LEMMA HeardTyped ==
  ASSUME NEW b \in Bus, NEW f \in Clients, NEW e \in Entries \cup {NoSpec}
  PROVE  Heard(b, f, e) \in Clients
<1>1. b.next \in Nat
  BY DEF Bus
<1> QED
  BY <1>1 DEF Clients, Heard, Receives

(* A property event sets every member right, and will correct everyone     *)
(* else who has a view.                                                    *)
LEMMA PropertyEvent ==
  ASSUME NEW b \in Bus, Shape(b), NEW f \in Clients, \A c \in Client : Knows(b, c, f[c]),
         NEW p \in Entries
  PROVE  StreamOf(Pushed(b, p), Heard(b, f, p), p, FALSE)
<1> DEFINE d == Pushed(b, p)
           g == Heard(b, f, p)
           ev == [id |-> b.next, entries |-> p]
<1>1. /\ d \in Bus /\ Shape(d)
      /\ d.next = b.next + 1 /\ d.members = b.members
      /\ Kept(d) \in Nat \ {0} /\ d.buffer[Kept(d)] = ev
  BY PushedBus
<1>2. b.next \in Nat /\ p # NoSpec
  BY ExecutionAssumption DEF Bus
<1>3. \A c \in Client : g[c] = IF c \in b.members THEN Receives(f[c], ev) ELSE f[c]
  BY DEF Heard
<1>4. ev.id = b.next /\ ev.entries = p
  OBVIOUS
<1>5. \A c \in Client : f[c].view # NoSpec => f[c].last \in 0..(b.next - 1)
  BY DEF Knows
<1> HIDE DEF d, g, ev
<1>6. \A c \in b.members : Receives(f[c], ev) = [last |-> b.next, view |-> p]
  BY <1>2, <1>4 DEF Receives
<1>7. Kept(d) \in 1..Kept(d)
  BY <1>1
<1>8. Tells(d, p)
  <2> SUFFICES ASSUME NEW j \in 1..Kept(d),
                      \A k \in 1..Kept(d) : j < k => d.buffer[k].entries = NoSpec
               PROVE  d.buffer[j].entries = p
    BY DEF Tells
  <2>1. ~(j < Kept(d))
    BY <1>1, <1>2, <1>4, <1>7
  <2>2. j = Kept(d)
    BY <1>1, <2>1
  <2> QED
    BY <1>1, <1>4, <2>2
<1>9. ASSUME NEW c \in Client PROVE Knows(d, c, g[c]) /\ Right(d, g[c], p)
  <2>1. CASE c \in b.members
    BY <1>1, <1>2, <1>3, <1>6, <2>1 DEF Knows, Right
  <2>2. CASE c \notin b.members
    <3>1. g[c] = f[c]
      BY <1>3, <2>2
    <3>2. CASE f[c].view = NoSpec
      BY <3>1, <3>2 DEF Knows, Right
    <3>3. CASE f[c].view # NoSpec
      <4>1. f[c].last \in 0..(b.next - 1)
        BY <1>5, <3>3
      <4>2. Corrects(d, f[c].last)
        BY <1>1, <1>2, <1>4, <1>7, <4>1 DEF Corrects
      <4>3. f[c].last \in 0..(d.next - 1)
        BY <1>1, <1>2, <4>1
      <4> QED
        BY <1>1, <2>2, <3>1, <4>2, <4>3 DEF Knows, Right
    <3> QED
      BY <3>2, <3>3
  <2> QED
    BY <2>1, <2>2
<1>10. StreamOf(d, g, p, FALSE)
  BY <1>1, <1>8, <1>9 DEF StreamOf
<1> QED
  BY <1>10 DEF d, g

(* A heartbeat changes nothing for the members, and pushes a correction out*)
(* of the buffer only if it leaves a gap.                                  *)
LEMMA HeartbeatEvent ==
  ASSUME NEW b \in Bus, NEW f \in Clients, NEW p, NEW s \in BOOLEAN, StreamOf(b, f, p, s)
  PROVE  StreamOf(Pushed(b, NoSpec), Heard(b, f, NoSpec), p, s)
<1> DEFINE d == Pushed(b, NoSpec)
           g == Heard(b, f, NoSpec)
           ev == [id |-> b.next, entries |-> NoSpec]
<1>0. Shape(b) /\ NoSpec \in Entries \cup {NoSpec}
  BY DEF StreamOf
<1>1. /\ ~s => Tells(b, p)
      /\ \A c \in Client : Knows(b, c, f[c])
      /\ ~s => \A c \in Client : Right(b, f[c], p)
  BY DEF StreamOf
<1>2. /\ d \in Bus /\ Shape(d)
      /\ d.next = b.next + 1 /\ d.members = b.members
      /\ Kept(d) \in Nat \ {0} /\ Kept(b) \in Nat /\ d.buffer[Kept(d)] = ev
      /\ \E cut \in {0, 1} :
              /\ Kept(d) = Kept(b) + 1 - cut
              /\ \A j \in 1..(Kept(d) - 1) : d.buffer[j] = b.buffer[j + cut]
  BY <1>0, PushedBus
<1>3. PICK cut \in {0, 1} :
              /\ Kept(d) = Kept(b) + 1 - cut
              /\ \A j \in 1..(Kept(d) - 1) : d.buffer[j] = b.buffer[j + cut]
  BY <1>2
<1>4. b.next \in Nat
  BY DEF Bus
<1>5. \A c \in Client : g[c] = IF c \in b.members THEN Receives(f[c], ev) ELSE f[c]
  BY DEF Heard
<1>6. ev.id = b.next /\ ev.entries = NoSpec
  OBVIOUS
<1>7. \A j \in 1..Kept(b) : b.buffer[j].id = b.next - Kept(b) + j - 1
  BY <1>0 DEF Shape
<1> HIDE DEF d, g, ev
<1>8. ASSUME Tells(b, p) PROVE Tells(d, p)
  <2> SUFFICES ASSUME NEW j \in 1..Kept(d), d.buffer[j].entries # NoSpec,
                      \A k \in 1..Kept(d) : j < k => d.buffer[k].entries = NoSpec
               PROVE  d.buffer[j].entries = p
    BY DEF Tells
  <2>1. j \in 1..(Kept(d) - 1)
    BY <1>2, <1>6
  <2>2. j + cut \in 1..Kept(b) /\ d.buffer[j] = b.buffer[j + cut]
    BY <1>2, <1>3, <2>1
  <2>3. ASSUME NEW k \in 1..Kept(b), j + cut < k PROVE b.buffer[k].entries = NoSpec
    <3>1. k - cut \in 1..(Kept(d) - 1) /\ j < k - cut /\ (k - cut) + cut = k
      BY <1>2, <1>3, <2>1, <2>3
    <3>2. d.buffer[k - cut] = b.buffer[k] /\ k - cut \in 1..Kept(d)
      BY <1>2, <1>3, <3>1
    <3> QED
      BY <3>1, <3>2
  <2>4. b.buffer[j + cut].entries # NoSpec
    BY <2>2
  <2> HIDE <1>3
  <2> QED
    BY <1>8, <2>2, <2>3, <2>4 DEF Tells
<1>9. ASSUME NEW last \in Nat \cup {-1}, Corrects(b, last) PROVE Corrects(d, last)
  <2>1. CASE last + 1 < b.next - Kept(b)
    BY <1>2, <1>3, <1>4, <2>1 DEF Corrects
  <2>2. CASE \E j \in 1..Kept(b) : b.buffer[j].id > last /\ b.buffer[j].entries # NoSpec
    <3>1. PICK j \in 1..Kept(b) : b.buffer[j].id > last /\ b.buffer[j].entries # NoSpec
      BY <2>2
    <3>2. CASE j - cut \in 1..(Kept(d) - 1)
      <4>1. d.buffer[j - cut] = b.buffer[j] /\ j - cut \in 1..Kept(d)
        <5>1. (j - cut) + cut = j
          BY <1>2
        <5> QED
          BY <1>2, <1>3, <3>2, <5>1
      <4> QED
        BY <3>1, <4>1 DEF Corrects
    <3>3. CASE j - cut \notin 1..(Kept(d) - 1)
      <4>1. j = 1 /\ cut = 1 /\ Kept(d) = Kept(b)
        BY <1>2, <1>3, <3>3
      <4>2. b.next - Kept(b) > last
        BY <1>2, <1>4, <1>7, <3>1, <4>1
      <4>3. last + 1 < d.next - Kept(d)
        BY <1>2, <1>4, <4>1, <4>2
      <4> QED
        BY <4>3 DEF Corrects
    <3> QED
      BY <3>2, <3>3
  <2> QED
    BY <1>9, <2>1, <2>2 DEF Corrects
<1>10. ASSUME NEW c \in Client PROVE Knows(d, c, g[c]) /\ (~s => Right(d, g[c], p))
  <2>0. f[c].last \in Nat \cup {-1} /\ Knows(b, c, f[c]) /\ (~s => Right(b, f[c], p))
    BY <1>1 DEF Clients
  <2>1. CASE c \in b.members
    <3>1. g[c].last = b.next /\ g[c].view \in {f[c].view, NoSpec}
      <4>1. g[c] = Receives(f[c], ev)
        BY <1>5, <2>1
      <4> QED
        BY <1>6, <4>1 DEF Receives
    <3>2. Knows(d, c, g[c])
      BY <1>2, <1>4, <3>1 DEF Knows
    <3>3. ASSUME f[c].view # NoSpec, ~s PROVE f[c].view = p
      <4>1. f[c].last = b.next - 1
        BY <2>0, <2>1, <3>3 DEF Knows
      <4>2. ~Corrects(b, f[c].last)
        <5>1. ~(f[c].last + 1 < b.next - Kept(b))
          BY <1>2, <1>4, <4>1
        <5>2. ASSUME NEW j \in 1..Kept(b) PROVE ~(b.buffer[j].id > f[c].last)
          BY <1>2, <1>4, <1>7, <4>1
        <5> QED
          BY <5>1, <5>2 DEF Corrects
      <4> QED
        BY <2>0, <3>3, <4>2 DEF Right
    <3> QED
      BY <3>1, <3>2, <3>3 DEF Right
  <2>2. CASE c \notin b.members
    <3>1. g[c] = f[c]
      BY <1>5, <2>2
    <3>2. Knows(d, c, g[c])
      BY <1>2, <1>4, <2>0, <2>2, <3>1 DEF Knows
    <3> QED
      BY <1>9, <2>0, <3>1, <3>2 DEF Right
  <2> QED
    BY <2>1, <2>2
<1>11. StreamOf(d, g, p, s)
  BY <1>1, <1>2, <1>8, <1>10 DEF StreamOf
<1> QED
  BY <1>11 DEF d, g

(* Who has the last event needs no correction.                             *)
LEMMA NothingNewer ==
  ASSUME NEW b \in Bus, Shape(b)
  PROVE  ~Corrects(b, b.next - 1)
<1>1. /\ b.next \in Nat /\ Kept(b) \in Nat
      /\ \A j \in 1..Kept(b) : b.buffer[j].id = b.next - Kept(b) + j - 1
  BY DEF Bus, Shape, Kept
<1> QED
  BY <1>1 DEF Corrects

(* What is newer than last: nothing when nothing is new, else the newer    *)
(* events, the last one of the buffer included.                            *)
From(b, last, from, r) ==
  /\ b.buffer[from].id > last
  /\ \A j \in 1..Kept(b) : b.buffer[j].id > last => from <= j
  /\ r \in Seq(Event) /\ Len(r) = Kept(b) - from + 1
  /\ \A j \in 1..Len(r) : r[j] = b.buffer[from + j - 1]

Newer(b, last, r) ==
  \/ r = <<>> /\ b.next <= last + 1
  \/ \E from \in 1..Kept(b) : From(b, last, from, r)

LEMMA Since ==
  ASSUME NEW b \in Bus, Shape(b), NEW last \in Nat
  PROVE  Newer(b, last, EventsSince(b, last))
<1> DEFINE newer == {j \in DOMAIN b.buffer : b.buffer[j].id > last}
           r == EventsSince(b, last)
<1>1. /\ b.next \in Nat /\ b.buffer \in Seq(Event) /\ Kept(b) \in Nat
      /\ Kept(b) = Len(b.buffer) /\ DOMAIN b.buffer = 1..Kept(b)
  BY DEF Bus, Kept
<1>2. \A j \in 1..Kept(b) : b.buffer[j].id = b.next - Kept(b) + j - 1
  BY DEF Shape
<1>3. Kept(b) = IF b.next < BufferSize THEN b.next ELSE BufferSize
  BY DEF Shape
<1>4. r = IF newer = {} THEN <<>> ELSE SubSeq(b.buffer, Min(newer), Kept(b))
  BY <1>1 DEF EventsSince
<1>5. newer \subseteq 1..Kept(b) /\ \A j \in 1..Kept(b) : j \in newer <=> b.buffer[j].id > last
  BY <1>1
<1> SUFFICES Newer(b, last, r)
  OBVIOUS
<1> HIDE DEF newer, r
<1> USE DEF Newer, From
<1>6. CASE newer = {}
  <2>1. CASE Kept(b) = 0
    BY <1>1, <1>3, <1>4, <1>6, <2>1, ExecutionAssumption
  <2>2. CASE Kept(b) # 0
    <3>1. Kept(b) \in 1..Kept(b)
      BY <1>1, <2>2
    <3>2. ~(b.buffer[Kept(b)].id > last)
      BY <1>5, <1>6, <3>1
    <3>3. b.buffer[Kept(b)].id = b.next - Kept(b) + Kept(b) - 1
      BY <1>2, <3>1
    <3>4. b.next <= last + 1
      BY <1>1, <3>2, <3>3
    <3> QED
      BY <1>4, <1>6, <3>4
  <2> QED
    BY <2>1, <2>2
<1>7. CASE newer # {}
  <2> DEFINE from == Min(newer)
  <2>1. from \in newer /\ \A j \in newer : from <= j
    <3>1. newer \in SUBSET Nat
      BY <1>1, <1>5
    <3> QED
      BY <1>7, <3>1, LeastNat
  <2>2. from \in 1..Kept(b)
    BY <1>5, <2>1
  <2>3. r = SubSeq(b.buffer, from, Kept(b))
    BY <1>4, <1>7
  <2> HIDE DEF from
  <2>4. /\ r \in Seq(Event) /\ Len(r) = Kept(b) - from + 1
        /\ \A j \in 1..Len(r) : r[j] = b.buffer[from + j - 1]
    BY <1>1, <2>2, <2>3
  <2> QED
    BY <1>5, <2>1, <2>2, <2>4
<1> QED
  BY <1>6, <1>7

(* Who has had the replay has all there is, and is right if it was or was  *)
(* going to be corrected.                                                  *)
LEMMA ReplayCatchesUp ==
  ASSUME NEW b \in Bus, Shape(b),
         NEW x \in [last : Nat, view : Entries \cup {NoSpec}],
         x.view # NoSpec => x.last \in 0..(b.next - 1),
         NEW y, y = Replayed(x, EventsSince(b, x.last))
  PROVE  /\ y \in [last : Nat, view : Entries \cup {NoSpec}]
         /\ y.view # NoSpec => y.last = b.next - 1 /\ b.next \in Nat \ {0}
         /\ \A p : Tells(b, p) /\ Right(b, x, p) => y.view \in {NoSpec, p}
<1> DEFINE r == EventsSince(b, x.last)
           told == {j \in DOMAIN r : r[j].entries # NoSpec}
<1>1. b.next \in Nat /\ Kept(b) \in Nat /\ x.last \in Nat
  BY DEF Bus, Kept
<1>0. r = EventsSince(b, x.last)
  OBVIOUS
<1> HIDE DEF r
<1>2. Newer(b, x.last, r)
  BY <1>0, <1>1, Since
<1>3. y = IF r = <<>> THEN x
          ELSE [last |-> Last(r).id,
                view |-> IF told # {} THEN r[Max(told)].entries
                         ELSE IF Head(r).id = x.last + 1 THEN x.view ELSE NoSpec]
  BY <1>0 DEF Replayed
<1>4. told \subseteq DOMAIN r /\ \A j \in DOMAIN r : j \in told <=> r[j].entries # NoSpec
  OBVIOUS
<1> HIDE DEF told
<1>5. CASE r = <<>> /\ b.next <= x.last + 1
  <2>1. y = x
    BY <1>3, <1>5
  <2>2. x.view # NoSpec => x.last = b.next - 1 /\ b.next \in Nat \ {0}
    BY <1>1, <1>5
  <2>3. ASSUME NEW p, Right(b, x, p) PROVE x.view \in {NoSpec, p}
    BY <2>2, <2>3, NothingNewer DEF Right
  <2> QED
    BY <2>1, <2>2, <2>3
<1>6. CASE \E from \in 1..Kept(b) : From(b, x.last, from, r)
  <2>0. PICK from \in 1..Kept(b) : From(b, x.last, from, r)
    BY <1>6
  <2>1. /\ b.buffer[from].id > x.last
        /\ \A j \in 1..Kept(b) : b.buffer[j].id > x.last => from <= j
        /\ r \in Seq(Event) /\ Len(r) = Kept(b) - from + 1
        /\ \A j \in 1..Len(r) : r[j] = b.buffer[from + j - 1]
    BY <2>0 DEF From
  <2> DEFINE n == Len(r)
  <2>2. n \in Nat \ {0} /\ n = Kept(b) - from + 1 /\ DOMAIN r = 1..n /\ r # <<>>
    BY <1>1, <2>1
  <2>3. \A j \in 1..n : r[j] = b.buffer[from + j - 1] /\ from + j - 1 \in 1..Kept(b) /\ r[j] \in Event
    BY <1>1, <2>1, <2>2
  <2>4. \A j \in 1..Kept(b) : b.buffer[j].id = b.next - Kept(b) + j - 1
    BY DEF Shape
  <2>5. Last(r) = r[n] /\ Head(r) = r[1]
    BY <2>1, <2>2 DEF Last
  <2> HIDE DEF n
  <2>6. n \in 1..n /\ 1 \in 1..n
    BY <2>2
  <2>7. r[n].id = b.next - 1 /\ b.next - 1 \in Nat /\ r[1].id = b.next - Kept(b) + from - 1
    <3>1. from + n - 1 = Kept(b) /\ from + 1 - 1 = from
      BY <1>1, <2>2
    <3>2. r[n] = b.buffer[Kept(b)] /\ r[1] = b.buffer[from] /\ Kept(b) \in 1..Kept(b)
      BY <2>3, <2>6, <3>1
    <3>3. r[n].id = b.next - Kept(b) + Kept(b) - 1 /\ r[1].id = b.next - Kept(b) + from - 1
      BY <2>4, <3>2
    <3>4. r[n].id \in Nat
      BY <2>3, <2>6 DEF Event
    <3> QED
      BY <1>1, <3>3, <3>4
  <2> DEFINE seen == IF told # {} THEN r[Max(told)].entries
                     ELSE IF Head(r).id = x.last + 1 THEN x.view ELSE NoSpec
  <2>8. y = [last |-> b.next - 1, view |-> seen]
    BY <1>3, <2>2, <2>5, <2>7
  <2>9. told # {} => Max(told) \in told /\ \A j \in told : j <= Max(told)
    BY <1>4, <2>2, GreatestNat
  <2>10. seen \in Entries \cup {NoSpec}
    <3>1. CASE told # {}
      BY <1>4, <2>2, <2>3, <2>9, <3>1 DEF Event
    <3>2. CASE told = {}
      BY <3>2
    <3> QED
      BY <3>1, <3>2
  <2>11. ASSUME NEW p, Tells(b, p), Right(b, x, p) PROVE seen \in {NoSpec, p}
    <3>1. CASE told # {}
      <4> DEFINE m == Max(told)
                 k == from + m - 1
      <4>1. m \in 1..n /\ r[m].entries # NoSpec /\ r[m] = b.buffer[k] /\ k \in 1..Kept(b)
        BY <1>4, <2>2, <2>3, <2>9, <3>1
      <4>2. seen = r[m].entries
        BY <3>1
      <4>3. \A j \in 1..n : m < j => r[j].entries = NoSpec
        BY <1>4, <2>2, <2>9, <3>1
      <4> HIDE DEF m, seen
      <4>4. ASSUME NEW j \in 1..Kept(b), k < j PROVE b.buffer[j].entries = NoSpec
        <5>1. j - from + 1 \in 1..n /\ m < j - from + 1 /\ from + (j - from + 1) - 1 = j
          BY <1>1, <2>2, <4>1, <4>4
        <5> QED
          BY <2>3, <4>3, <5>1
      <4> HIDE DEF k
      <4>5. b.buffer[k].entries = p
        BY <2>11, <4>1, <4>4 DEF Tells
      <4> QED
        BY <4>1, <4>2, <4>5
    <3>2. CASE told = {} /\ Head(r).id = x.last + 1
      <4>1. seen = x.view
        BY <3>2
      <4>2. ~(x.last + 1 < b.next - Kept(b))
        BY <1>1, <2>5, <2>7, <3>2
      <4>3. ASSUME NEW j \in 1..Kept(b), b.buffer[j].id > x.last PROVE b.buffer[j].entries = NoSpec
        <5>1. from <= j
          BY <2>1, <4>3
        <5>2. j - from + 1 \in 1..n /\ from + (j - from + 1) - 1 = j
          BY <1>1, <2>2, <5>1
        <5> QED
          BY <1>4, <2>2, <2>3, <3>2, <5>2
      <4>4. ~Corrects(b, x.last)
        BY <4>2, <4>3 DEF Corrects
      <4> QED
        BY <2>11, <4>1, <4>4 DEF Right
    <3>3. CASE told = {} /\ Head(r).id # x.last + 1
      BY <3>3
    <3> QED
      BY <3>1, <3>2, <3>3
  <2> HIDE DEF seen
  <2> QED
    BY <1>1, <2>7, <2>8, <2>10, <2>11
<1> QED
  BY <1>2, <1>5, <1>6 DEF Newer

(* Merging writes into a property gives a property.                        *)
LEMMA MergeIsProperty ==
  ASSUME NEW p \in Entries, NEW w \in Writes
  PROVE  Merge(p, w) \in Entries
<1>1. PICK es \in SUBSET Entry : w \in [es -> Value]
  BY DEF Writes
<1>2. DOMAIN w = es
  BY <1>1
<1> QED
  BY <1>1, <1>2 DEF Merge, Entries

(* Only the events of a bus count, not its members.                        *)
LEMMA SameEvents ==
  ASSUME NEW b, NEW d, d.next = b.next, d.buffer = b.buffer
  PROVE  /\ Shape(b) => Shape(d)
         /\ \A p : Tells(b, p) => Tells(d, p)
         /\ \A x, p : Right(b, x, p) => Right(d, x, p)
<1>1. Kept(b) = Kept(d)
  BY DEF Kept
<1>2. Shape(b) => Shape(d)
  BY <1>1 DEF Shape
<1>3. \A p : Tells(b, p) => Tells(d, p)
  BY <1>1 DEF Tells
<1>4. \A last : Corrects(b, last) => Corrects(d, last)
  BY <1>1 DEF Corrects
<1> QED
  BY <1>2, <1>3, <1>4 DEF Right

StreamTyped ==
  bus \in Bus \cup {NoBus} /\ client \in Clients /\ silent \in BOOLEAN

(* A bus that is created has no events, and nobody has a view of it.       *)
LEMMA BusReady ==
  ASSUME StreamTyped, StreamInv
  PROVE  GetOrCreateBus \in Bus /\ StreamOf(GetOrCreateBus, client, property, silent)
<1>1. CASE bus = NoBus
  <2>1. NewBus \in Bus
    BY DEF NewBus, Bus
  <2>2. Kept(NewBus) = 0 /\ NewBus.next = 0
    BY DEF NewBus, Kept
  <2>3. Shape(NewBus)
    BY <2>2, ExecutionAssumption DEF Shape
  <2>4. Tells(NewBus, property)
    BY <2>2 DEF Tells
  <2>5. \A c \in Client : Knows(NewBus, c, client[c]) /\ Right(NewBus, client[c], property)
    BY <1>1 DEF StreamInv, Knows, Right
  <2> QED
    BY <1>1, <2>1, <2>3, <2>4, <2>5 DEF GetOrCreateBus, StreamOf
<1>2. CASE bus # NoBus
  BY <1>2 DEF StreamInv, StreamTyped, GetOrCreateBus
<1> QED
  BY <1>1, <1>2

LEMMA PushIs ==
  ASSUME NEW b \in Bus, NEW e \in Entries \cup {NoSpec}, Push(b, e)
  PROVE  bus' = Pushed(b, e) /\ client' = Heard(b, client, e)
<1>1. b = [next |-> b.next, buffer |-> b.buffer, members |-> b.members]
  BY DEF Bus
<1> QED
  BY <1>1 DEF Push, Pushed, Heard

(* A bus of the right form makes the invariant.                            *)
LEMMA StreamGoesOn ==
  ASSUME bus' \in Bus, client' \in Clients, silent' \in BOOLEAN,
         ~silent' => Exists', StreamOf(bus, client, property, silent)'
  PROVE  StreamTyped' /\ StreamInv'
<1>1. bus' # NoBus
  BY ExecutionAssumption
<1> QED
  BY <1>1 DEF StreamTyped, StreamInv

(* What a run reports reaches the stream.                                  *)
LEMMA ApplyStreams ==
  ASSUME StreamTyped, StreamInv, NEW w \in Writes, Apply(w)
  PROVE  StreamTyped' /\ StreamInv'
<1>1. CASE DOMAIN w = {} \/ ~Exists
  BY <1>1 DEF Apply, StreamTyped, StreamInv, StreamOf, Exists, streamVars
<1>2. CASE ~(DOMAIN w = {} \/ ~Exists)
  <2> DEFINE b == GetOrCreateBus
  <2>1. property' \in Entries /\ Push(b, property') /\ silent' = FALSE
    <3>1. property \in Entries
      BY <1>2 DEF Exists
    <3> QED
      BY <1>2, <3>1, MergeIsProperty DEF Apply
  <2>2. b \in Bus /\ StreamOf(b, client, property, silent)
    BY BusReady
  <2> HIDE DEF b
  <2>3. bus' = Pushed(b, property') /\ client' = Heard(b, client, property')
    BY <2>1, <2>2, PushIs
  <2>4. client \in Clients /\ Shape(b) /\ \A c \in Client : Knows(b, c, client[c])
    BY <2>2 DEF StreamTyped, StreamOf
  <2>5. StreamOf(bus', client', property', FALSE)
    BY <2>1, <2>2, <2>3, <2>4, PropertyEvent
  <2>6. bus' \in Bus /\ client' \in Clients
    BY <2>1, <2>2, <2>3, <2>4, PushedBus, HeardTyped
  <2> QED
    BY <2>1, <2>5, <2>6, StreamGoesOn DEF Exists
<1> QED
  BY <1>1, <1>2

LEMMA HeartbeatStreams ==
  ASSUME StreamTyped, StreamInv, Heartbeat
  PROVE  StreamTyped' /\ StreamInv'
<1>1. /\ bus # NoBus /\ Push(bus, NoSpec)
      /\ property' = property /\ silent' = silent
  BY DEF Heartbeat
<1>2. bus \in Bus /\ StreamOf(bus, client, property, silent)
  BY <1>1 DEF StreamTyped, StreamInv
<1>3. NoSpec \in Entries \cup {NoSpec} /\ client \in Clients /\ silent \in BOOLEAN
  BY DEF StreamTyped
<1>4. bus' = Pushed(bus, NoSpec) /\ client' = Heard(bus, client, NoSpec)
  BY <1>1, <1>2, <1>3, PushIs
<1>5. StreamOf(bus', client', property, silent)
  BY <1>2, <1>3, <1>4, HeartbeatEvent
<1>6. bus' \in Bus /\ client' \in Clients
  BY <1>2, <1>3, <1>4, PushedBus, HeardTyped DEF StreamOf
<1>7. ~silent' => Exists'
  BY <1>1 DEF StreamInv, Exists
<1> QED
  BY <1>1, <1>3, <1>5, <1>6, <1>7, StreamGoesOn

LEMMA DisconnectStreams ==
  ASSUME StreamTyped, StreamInv, NEW c \in Client, Disconnect(c)
  PROVE  StreamTyped' /\ StreamInv'
<1>1. /\ bus # NoBus /\ bus' = [bus EXCEPT !.members = @ \ {c}]
      /\ property' = property /\ silent' = silent /\ client' = client
  BY DEF Disconnect
<1>2. bus \in Bus /\ StreamOf(bus, client, property, silent)
  BY <1>1 DEF StreamTyped, StreamInv
<1>3. /\ bus' \in Bus /\ bus'.next = bus.next /\ bus'.buffer = bus.buffer
      /\ bus'.members \subseteq bus.members
  BY <1>1, <1>2 DEF Bus
<1>4. /\ Shape(bus) => Shape(bus')
      /\ \A p : Tells(bus, p) => Tells(bus', p)
      /\ \A x, p : Right(bus, x, p) => Right(bus', x, p)
  BY <1>3, SameEvents
<1>5. \A k \in Client : Knows(bus, k, client[k]) => Knows(bus', k, client[k])
  BY <1>3 DEF Knows
<1>6. StreamOf(bus', client, property, silent)
  BY <1>2, <1>4, <1>5 DEF StreamOf
<1>7. ~silent' => Exists'
  BY <1>1 DEF StreamInv, Exists
<1> QED
  BY <1>1, <1>3, <1>6, <1>7, StreamGoesOn DEF StreamTyped

LEMMA SubscribeStreams ==
  ASSUME StreamTyped, StreamInv, NEW c \in Client, Subscribe(c)
  PROVE  StreamTyped' /\ StreamInv'
<1> DEFINE b == GetOrCreateBus
           x == client[c]
           replay == IF x.last >= 0 /\ bus # NoBus THEN EventsSince(b, x.last) ELSE <<>>
           y == Replayed(x, replay)
           d == [b EXCEPT !.members = @ \cup {c}]
<1>1. /\ bus' = d /\ client' = [client EXCEPT ![c] = y]
      /\ property' = property /\ silent' = silent
  BY DEF Subscribe
<1>2. b \in Bus /\ StreamOf(b, client, property, silent)
  BY BusReady
<1>3. client \in Clients /\ x \in [last : Nat \cup {-1}, view : Entries \cup {NoSpec}]
  BY DEF StreamTyped, Clients
<1>4. /\ d \in Bus /\ d.next = b.next /\ d.buffer = b.buffer
      /\ d.members = b.members \cup {c}
  BY <1>2 DEF Bus
<1>a. Shape(b) /\ \A k \in Client : Knows(b, k, client[k])
  BY <1>2 DEF StreamOf
<1>b. ~silent => Tells(b, property) /\ \A k \in Client : Right(b, client[k], property)
  BY <1>2 DEF StreamOf
<1>5. /\ y \in [last : Nat \cup {-1}, view : Entries \cup {NoSpec}]
      /\ y.view # NoSpec => y.last = b.next - 1 /\ b.next \in Nat \ {0}
      /\ ~silent => y.view \in {NoSpec, property}
  <2>1. CASE x.last >= 0 /\ bus # NoBus
    <3>1. x \in [last : Nat, view : Entries \cup {NoSpec}]
      <4>1. x.last \in Nat
        BY <1>3, <2>1
      <4> QED
        BY <1>3, <4>1
    <3>2. x.view # NoSpec => x.last \in 0..(b.next - 1)
      BY <1>a DEF Knows
    <3>3. y = Replayed(x, EventsSince(b, x.last))
      BY <2>1
    <3> HIDE DEF y, b, x
    <3>4. /\ y \in [last : Nat, view : Entries \cup {NoSpec}]
          /\ y.view # NoSpec => y.last = b.next - 1 /\ b.next \in Nat \ {0}
          /\ \A p : Tells(b, p) /\ Right(b, x, p) => y.view \in {NoSpec, p}
      BY <1>2, <1>a, <3>1, <3>2, <3>3, ReplayCatchesUp
    <3>5. ~silent => Right(b, x, property)
      BY <1>b DEF x
    <3> QED
      BY <1>b, <3>4, <3>5
  <2>2. CASE ~(x.last >= 0 /\ bus # NoBus)
    <3>1. y = x
      BY <2>2 DEF Replayed
    <3>2. x.view = NoSpec
      <4>1. CASE bus = NoBus
        BY <4>1 DEF StreamInv
      <4>2. CASE bus # NoBus
        <5>1. ~(x.last >= 0) /\ Knows(b, c, x)
          BY <1>a, <2>2, <4>2
        <5>2. b.next \in Nat
          BY <1>2 DEF Bus
        <5> HIDE DEF x, b
        <5> QED
          BY <5>1, <5>2 DEF Knows
      <4> QED
        BY <4>1, <4>2
    <3> QED
      BY <1>3, <3>1, <3>2
  <2> QED
    BY <2>1, <2>2
<1> HIDE DEF b, x, y, d
<1>6. \A k \in Client : client'[k] = IF k = c THEN y ELSE client[k]
  BY <1>1, <1>3 DEF Clients
<1>7. client' \in Clients
  BY <1>1, <1>3, <1>5 DEF Clients
<1>8. ASSUME NEW k \in Client
      PROVE  Knows(d, k, client'[k]) /\ (~silent => Right(d, client'[k], property))
  <2>1. CASE k = c
    <3>1. Knows(d, k, y)
      BY <1>4, <1>5 DEF Knows
    <3>2. ~silent => Right(d, y, property)
      BY <1>5 DEF Right
    <3> QED
      BY <1>6, <2>1, <3>1, <3>2
  <2>2. CASE k # c
    <3>1. client'[k] = client[k] /\ (k \in d.members <=> k \in b.members)
      BY <1>4, <1>6, <2>2
    <3>2. Knows(d, k, client[k])
      BY <1>4, <1>a, <3>1 DEF Knows
    <3>3. ~silent => Right(d, client[k], property)
      BY <1>4, <1>b, SameEvents
    <3> QED
      BY <3>1, <3>2, <3>3
  <2> QED
    BY <2>1, <2>2
<1>9. Shape(d) /\ (~silent => Tells(d, property))
  BY <1>4, <1>a, <1>b, SameEvents
<1>10. StreamOf(d, client', property, silent)
  BY <1>8, <1>9 DEF StreamOf
<1>11. ~silent' => Exists'
  BY <1>1 DEF StreamInv, Exists
<1> QED
  BY <1>1, <1>4, <1>7, <1>10, <1>11, StreamGoesOn DEF StreamTyped

(* An upload silences the stream, and a deletion ends it.                  *)
LEMMA ReplacedStreams ==
  ASSUME StreamTyped, StreamInv, Upload \/ \E es \in SUBSET Instance : DeleteEnv(es)
  PROVE  StreamTyped' /\ StreamInv'
<1>1. CASE Upload /\ silent' = TRUE
  <2>1. bus' = bus /\ client' = client
    BY <1>1 DEF Upload
  <2> QED
    BY <1>1, <2>1 DEF StreamTyped, StreamInv, StreamOf
<1>2. CASE UNCHANGED <<property, bus, client, silent>>
  BY <1>2 DEF StreamTyped, StreamInv, StreamOf, Exists
<1>3. CASE \E es \in SUBSET Instance : DeleteEnv(es)
  BY <1>3 DEF DeleteEnv, StreamTyped, StreamInv, Clients
<1> QED
  BY <1>1, <1>2, <1>3 DEF Upload

-----------------------------------------------------------------------------
(* A completed_at without a row would be inherited by the next instance,   *)
(* and one that is missing in an ended instance would make a CLEAR expect  *)
(* overrides that onTerminal has dropped.                                  *)
CompletedHasRow == \A i \in completed : inst[i] # "none"

EndedIsCompleted == \A i \in Instance : inst[i] = "ended" => i \in completed

ManagerInv ==
  /\ TypeOK
  /\ OverridesFollowInstance
  /\ CompletedHasRow
  /\ EndedIsCompleted
  /\ StreamInv

(* The invariant holds at the start.                                       *)
LEMMA ManagerStarts == Init => ManagerInv
BY DEF Init, ManagerInv, TypeOK, Entries, OverridesFollowInstance, InForce, Unfinished,
       CompletedHasRow, EndedIsCompleted, StreamInv, Newcomer

(* What a run reports leaves a property.                                   *)
LEMMA ApplyKeeps ==
  ASSUME TypeOK, NEW w \in Writes, Apply(w)
  PROVE  property' \in Entries \cup {Gone, NoSpec}
<1>1. CASE DOMAIN w = {} \/ ~Exists
  BY <1>1 DEF Apply, TypeOK, streamVars
<1>2. CASE ~(DOMAIN w = {} \/ ~Exists)
  BY <1>2, MergeIsProperty DEF Apply, Exists
<1> QED
  BY <1>1, <1>2

(* The rows and the overrides after a run: the instance that ran changes,  *)
(* the others do not.                                                      *)
LEMMA AfterRunKeeps ==
  ASSUME TypeOK, OverridesFollowInstance, CompletedHasRow, EndedIsCompleted,
         taken' = taken, NEW i \in Instance, NEW outcome, AfterRun(i, outcome)
  PROVE  /\ inst' \in [Instance -> {"none", "active", "recovering", "final", "ended"}]
         /\ completed' \subseteq Instance /\ broken' \subseteq Instance
         /\ deferred' \subseteq Instance /\ overridden' \subseteq Instance
         /\ OverridesFollowInstance' /\ CompletedHasRow' /\ EndedIsCompleted'
<1> USE DEF TypeOK, OverridesFollowInstance, InForce, CompletedHasRow, EndedIsCompleted, Unfinished, rowVars
<1>1. CASE Ended(i) /\ inst[i] # "none"
  BY <1>1 DEF Ended
<1>2. CASE \E s \in {"active", "recovering", "final"} : Enters(i, s) /\ inst[i] # "none" /\ inst[i] # "ended"
  BY <1>2 DEF Enters
<1>3. CASE inst[i] # "none" /\ deferred' = deferred \ {i} /\ Breaks(i)
  BY <1>3 DEF Breaks
<1>4. CASE inst[i] # "none" /\ deferred' = deferred \ {i} /\ Obeys(i)
  BY <1>4 DEF Obeys
<1>5. CASE inst[i] = "none" /\ deferred' = deferred \ {i} /\ UNCHANGED <<rowVars, overridden>>
  BY <1>5
<1> QED
  BY <1>1, <1>2, <1>3, <1>4, <1>5 DEF AfterRun, EntersTerminal

(* Every step keeps it.                                                    *)
LEMMA ManagerSteps == ManagerInv /\ [Next]_vars => ManagerInv'
<1> SUFFICES ASSUME ManagerInv, [Next]_vars PROVE ManagerInv'
  OBVIOUS
<1> USE DEF ManagerInv
<1> DEFINE Rows == /\ inst' \in [Instance -> {"none", "active", "recovering", "final", "ended"}]
                   /\ completed' \subseteq Instance /\ broken' \subseteq Instance
                   /\ deferred' \subseteq Instance /\ overridden' \subseteq Instance
                   /\ taken' \subseteq Instance
                   /\ OverridesFollowInstance' /\ CompletedHasRow' /\ EndedIsCompleted'
           Runs == /\ deleting' \subseteq Instance
                   /\ run' \in [Instance ->
                        [attempt : {1, 2}, state : {"active", "recovering", "final"}] \cup {NoRun}]
           Stored == property' \in Entries \cup {Gone, NoSpec}
           Streams == StreamTyped' /\ StreamInv'
<1>0. ASSUME Rows, Runs, Stored, Streams PROVE ManagerInv'
  BY <1>0 DEF TypeOK, StreamTyped, Clients
<1>t. StreamTyped /\ StreamInv
  BY DEF TypeOK, StreamTyped, Clients
<1>a. ASSUME UNCHANGED <<inst, completed, broken, deferred, overridden, taken>> PROVE Rows
  BY <1>a DEF TypeOK, OverridesFollowInstance, InForce, CompletedHasRow, EndedIsCompleted, Unfinished
<1>b. ASSUME UNCHANGED <<deleting, run>> PROVE Runs
  BY <1>b DEF TypeOK
<1>c. ASSUME UNCHANGED property PROVE Stored
  BY <1>c DEF TypeOK
<1>d. ASSUME UNCHANGED <<property, streamVars>> PROVE Streams
  BY <1>d, <1>t DEF StreamTyped, StreamInv, StreamOf, Exists, streamVars
<1> USE DEF rowVars, instanceVars, streamVars
<1> HIDE DEF Rows, Runs, Stored, Streams
<1>1. ASSUME NEW i \in Instance, Invoke(i) PROVE ManagerInv'
  <2>1. Rows
    BY <1>1 DEF Rows, Invoke, TypeOK, OverridesFollowInstance, InForce, CompletedHasRow, EndedIsCompleted, Unfinished
  <2> QED
    BY <1>1, <2>1, <1>0, <1>b, <1>c, <1>d DEF Invoke
<1>2. ASSUME NEW i \in Instance, StartCode(i) PROVE ManagerInv'
  <2>1. Runs
    BY <1>2 DEF Runs, StartCode, TypeOK, Unfinished
  <2> QED
    BY <1>2, <2>1, <1>0, <1>a, <1>c, <1>d DEF StartCode
<1>3. ASSUME NEW i \in Instance, AttemptEnds(i) PROVE ManagerInv'
  <2>1. PICK outcome \in Outcome, w \in Writes :
          IF Retryable(run[i], outcome)
          THEN /\ run' = [run EXCEPT ![i].attempt = 2]
               /\ UNCHANGED <<property, instanceVars, streamVars, taken>>
          ELSE /\ run' = [run EXCEPT ![i] = NoRun]
               /\ Apply(w)
               /\ AfterRun(i, outcome)
               /\ UNCHANGED <<deleting, taken>>
    BY <1>3 DEF AttemptEnds
  <2>2. CASE Retryable(run[i], outcome)
    <3>1. Runs
      BY <1>3, <2>1, <2>2 DEF Runs, AttemptEnds, TypeOK
    <3> QED
      BY <2>1, <2>2, <3>1, <1>0, <1>a, <1>c, <1>d
  <2>3. CASE ~Retryable(run[i], outcome)
    <3>1. Runs
      BY <2>1, <2>3 DEF Runs, TypeOK
    <3>2. Rows
      <4>1. taken' = taken /\ taken' \subseteq Instance
        BY <2>1, <2>3, <1>0 DEF TypeOK
      <4> QED
        BY <2>1, <2>3, <4>1, <1>0, AfterRunKeeps DEF Rows
    <3>3. Stored
      BY <2>1, <2>3, ApplyKeeps DEF Stored
    <3>4. Streams
      BY <1>t, <2>1, <2>3, ApplyStreams DEF Streams
    <3> QED
      BY <3>1, <3>2, <3>3, <3>4, <1>0
  <2> QED
    BY <2>2, <2>3
<1>4. ASSUME NEW i \in Instance, AttemptThrows(i) PROVE ManagerInv'
  <2>1. Runs
    BY <1>4 DEF Runs, AttemptThrows, TypeOK
  <2>2. Rows
    BY <1>4 DEF Rows, AttemptThrows, Breaks, TypeOK, OverridesFollowInstance, InForce, CompletedHasRow, EndedIsCompleted, Unfinished
  <2> QED
    BY <1>4, <2>1, <2>2, <1>0, <1>c, <1>d DEF AttemptThrows
<1>5. ASSUME NEW i \in Instance, Advance(i) PROVE ManagerInv'
  <2>1. Rows
    BY <1>5 DEF Rows, Advance, EntersTerminal, Ended, Enters, TypeOK,
                OverridesFollowInstance, InForce, CompletedHasRow, EndedIsCompleted, Unfinished
  <2> QED
    BY <1>5, <2>1, <1>0, <1>b, <1>c, <1>d DEF Advance
<1>6. ASSUME NEW i \in Instance, Command(i) PROVE ManagerInv'
  <2>1. Rows
    BY <1>6 DEF Rows, Command, Obeys, TypeOK, OverridesFollowInstance, InForce, CompletedHasRow, EndedIsCompleted, Unfinished
  <2> QED
    BY <1>6, <2>1, <1>0, <1>b, <1>c, <1>d DEF Command
<1>7. ASSUME NEW i \in Instance, ForceDelete(i) PROVE ManagerInv'
  <2>1. Runs
    BY <1>7 DEF Runs, ForceDelete, TypeOK
  <2> QED
    BY <1>7, <2>1, <1>0, <1>a, <1>c, <1>d DEF ForceDelete
<1>8. ASSUME NEW i \in Instance, FinishDelete(i) PROVE ManagerInv'
  <2>1. Runs
    BY <1>8 DEF Runs, FinishDelete, TypeOK
  <2>2. Rows
    BY <1>8 DEF Rows, FinishDelete, TypeOK, OverridesFollowInstance, InForce, CompletedHasRow, EndedIsCompleted, Unfinished
  <2> QED
    BY <1>8, <2>1, <2>2, <1>0, <1>c, <1>d DEF FinishDelete
<1>9. ASSUME NEW c \in Client, Subscribe(c) \/ Disconnect(c) PROVE ManagerInv'
  <2>1. Streams
    BY <1>9, <1>t, SubscribeStreams, DisconnectStreams DEF Streams
  <2> QED
    BY <1>9, <2>1, <1>0, <1>a, <1>b, <1>c DEF Subscribe, Disconnect
<1>10. CASE Heartbeat
  <2>1. Streams
    BY <1>10, <1>t, HeartbeatStreams DEF Streams
  <2> QED
    BY <1>10, <2>1, <1>0, <1>a, <1>b, <1>c DEF Heartbeat
<1>r. ASSUME NEW gone \in SUBSET HasRow, TakeRows(gone) PROVE Rows /\ Runs
  BY <1>r DEF Rows, Runs, TakeRows, HasRow, TypeOK, OverridesFollowInstance, InForce,
              CompletedHasRow, EndedIsCompleted, Unfinished
<1>11. CASE Upload
  <2>1. Stored
    BY <1>11 DEF Stored, Upload, Entries, TypeOK
  <2>2. Streams
    BY <1>11, <1>t, ReplacedStreams DEF Streams
  <2> QED
    BY <1>11, <2>1, <2>2, <1>0, <1>r DEF Upload
<1>12. ASSUME NEW es \in SUBSET Instance, DeleteEnv(es) PROVE ManagerInv'
  <2>1. Stored
    BY <1>12 DEF Stored, DeleteEnv
  <2>2. Streams
    BY <1>12, <1>t, ReplacedStreams DEF Streams
  <2> QED
    BY <1>12, <2>1, <2>2, <1>0, <1>r DEF DeleteEnv
<1>13. CASE UNCHANGED vars
  BY <1>13, <1>0, <1>a, <1>b, <1>c, <1>d DEF vars
<1> QED
  BY <1>1, <1>2, <1>3, <1>4, <1>5, <1>6, <1>7, <1>8, <1>9, <1>10, <1>11, <1>12, <1>13 DEF Next

(* The inductive invariant is an invariant.                                *)
THEOREM ManagerHolds == Spec => []ManagerInv
BY ManagerStarts, ManagerSteps, PTL DEF Spec

(* The types of Execution: code runs in no instance reported as ended.     *)
THEOREM ExecutionTyped == Spec => []TypeOK
<1>1. ManagerInv => TypeOK
  BY DEF ManagerInv
<1> QED
  BY <1>1, ManagerHolds, PTL

(* actionPropertyOverrides has the overrides of an invocation from invoke  *)
(* to onTerminal or the force delete, so that every piece of code of the   *)
(* instance runs with them, and afterwards only those of instances whose   *)
(* row an upload or the deletion of an environment took.                   *)
THEOREM ExecutionOverrides == Spec => []OverridesFollowInstance
<1>1. ManagerInv => OverridesFollowInstance
  BY DEF ManagerInv
<1> QED
  BY <1>1, ManagerHolds, PTL

(* A subscriber that has seen a value and no gap since has the stored one, *)
(* however many events the buffer of publishProperty has lost meanwhile:   *)
(* getPropertyEventsSince replays what corrects it, or leaves a gap that it*)
(* sees.                                                                   *)
THEOREM ExecutionStream == Spec => []SeesWhatIsStored
<1>1. ManagerInv => SeesWhatIsStored
  <2> SUFFICES ASSUME ManagerInv, bus # NoBus, Exists, ~silent,
                      NEW c \in bus.members, client[c].view # NoSpec
               PROVE  client[c].view = property
    BY DEF SeesWhatIsStored
  <2>1. bus \in Bus /\ StreamOf(bus, client, property, silent) /\ c \in Client
    BY DEF ManagerInv, TypeOK, StreamInv, Bus
  <2>2. Knows(bus, c, client[c]) /\ Right(bus, client[c], property) /\ Shape(bus)
    BY <2>1 DEF StreamOf
  <2>3. client[c].last = bus.next - 1
    BY <2>2 DEF Knows
  <2> QED
    BY <2>1, <2>2, <2>3, NothingNewer DEF Right
<1> QED
  BY <1>1, ManagerHolds, PTL
=============================================================================
