--------------------------- MODULE SseManagerProofs ---------------------------
(***************************************************************************)
(* What holds of SseManager for every number of buses, clients and events  *)
(* and every size of the buffer.                                           *)
(***************************************************************************)
EXTENDS SseManager, SequenceTheorems, WellFoundedInduction, TLAPS

(* The types, but for the length of the buffers.                           *)
Entry == [buffer : Seq(Nat), nextId : Nat, listeners : SUBSET Client]
Stream == [on : Bus \cup {None}, from : Bus \cup {None}, received : Seq(Nat)]

Typed ==
  /\ life \in {"active", "over", "deleted"}
  /\ clears \in 0..MaxClears
  /\ current \in Bus \cup {None}
  /\ bus \in [Bus -> Entry]
  /\ beating \subseteq Bus
  /\ lingers \in Seq(Bus)
  /\ client \in [Client -> Stream]

(* What the life of an instance that was never cleared does to its bus: at *)
(* most one timeout is pending, that of the bus in the map; none is while  *)
(* the instance is active, and no heartbeat runs while one is.             *)
OneLinger ==
  clears = 0 =>
    /\ lingers = <<>> \/ (lingers = <<current>> /\ current \in Bus)
    /\ life = "active" => lingers = <<>>
    /\ lingers # <<>> => beating = {}

(* A bus has only listeners that stream from it, and whoever streams from  *)
(* the bus in the map listens to it.                                       *)
Attached ==
  \A c \in Client :
    /\ \A b \in Bus : c \in bus[b].listeners => client[c].on = b
    /\ client[c].on \in Bus /\ client[c].on = current => c \in bus[current].listeners

(* A stream has shown, one after the other, the ids below next that a      *)
(* buffer can still hold and that lie between its first and its last one.  *)
Shows(stream, next) ==
  /\ stream # <<>>
  /\ Last(stream) < next
  /\ \A id \in Nat :
       /\ next - BufferSize <= id /\ Head(stream) <= id /\ id <= Last(stream)
       => /\ Last(stream) - id < Len(stream)
          /\ stream[Len(stream) - (Last(stream) - id)] = id

(* That is so of every stream and the bus its events come from; the stream *)
(* of a listener has the last event of the bus.                            *)
StreamsShow ==
  \A c \in Client :
    LET b == client[c].from
        stream == client[c].received
    IN b \in Bus =>
         /\ Shows(stream, bus[b].nextId)
         /\ c \in bus[b].listeners => Last(stream) = bus[b].nextId - 1

SseInv ==
  /\ Typed /\ BufferHoldsTheLast /\ OneLinger /\ ConnectedIsHeard /\ HeartbeatHasBus
  /\ Attached /\ StreamsShow

-----------------------------------------------------------------------------
(* A bus that is not in the map has a name that nothing refers to.         *)
LEMMA OpenedBus ==
  ASSUME Typed, NEW b \in GetOrCreateBus
  PROVE  /\ b \in Bus /\ Opened(b) \in Entry
         /\ current # None => b = current
         /\ current = None => b # current
         /\ b # current => \A c \in Client : client[c].on # b /\ client[c].from # b
BY Parameters DEF GetOrCreateBus, Opened, Typed, Entry, NewBus, Referenced

(* Naturals are well-founded.                                              *)
LEMMA LeastNat ==
  ASSUME NEW T \in SUBSET Nat, T # {}
  PROVE  Min(T) \in T /\ \A n \in T : Min(T) <= n
<1>1. PICK m \in T : \A n \in T : ~ (<<n, m>> \in OpToRel(<, Nat))
  BY NatLessThanWellFounded, WFMin
<1>2. \A n \in T : ~ (n < m)
  BY <1>1 DEF OpToRel
<1>3. \A n \in T : m <= n
  BY <1>2
<1> QED
  BY <1>3 DEF Min

-----------------------------------------------------------------------------
(* What a stream shows it shows whatever the bus publishes.                *)
LEMMA ShowsLater ==
  ASSUME NEW stream \in Seq(Nat), NEW next \in Nat, NEW later \in Nat, next <= later,
         Shows(stream, next)
  PROVE  Shows(stream, later)
<1>1. Last(stream) \in Nat
  BY DEF Shows, Last
<1>2. ASSUME NEW id \in Nat, later - BufferSize <= id PROVE next - BufferSize <= id
  BY <1>2, Parameters
<1> QED
  BY <1>1, <1>2 DEF Shows

(* ids are the ids from first on.                                          *)
IdsFrom(ids, first) ==
  /\ ids \in Seq(Nat) /\ ids # <<>>
  /\ \A j \in 1..Len(ids) : ids[j] = first + j - 1

(* A stream that starts with them shows them.                              *)
LEMMA ShowsFresh ==
  ASSUME NEW ids, NEW first \in Nat, IdsFrom(ids, first)
  PROVE  /\ Shows(ids, first + Len(ids))
         /\ Last(ids) = first + Len(ids) - 1
<1>1. ids \in Seq(Nat) /\ Len(ids) \in Nat /\ Len(ids) >= 1 /\ ids # <<>>
  BY DEF IdsFrom
<1>2. Last(ids) = first + Len(ids) - 1 /\ Head(ids) = first
  BY <1>1 DEF IdsFrom, Last
<1>3. ASSUME NEW id \in Nat, first <= id, id <= first + Len(ids) - 1
      PROVE  /\ (first + Len(ids) - 1) - id < Len(ids)
             /\ ids[Len(ids) - ((first + Len(ids) - 1) - id)] = id
  <2>1. Len(ids) - ((first + Len(ids) - 1) - id) = id - first + 1
    BY <1>1
  <2>2. id - first + 1 \in 1..Len(ids)
    BY <1>1, <1>3
  <2>3. ids[id - first + 1] = first + (id - first + 1) - 1
    BY <2>2 DEF IdsFrom
  <2> QED
    BY <1>1, <1>3, <2>1, <2>3
<1> QED
  BY <1>1, <1>2, <1>3 DEF Shows

(* No id of low or more lies between last and first.                       *)
NoGap(last, first, low) == \A id \in Nat : last < id /\ low <= id => first <= id

(* A stream to which they are appended shows what a buffer of later can    *)
(* hold, if none of that lies between the stream's last id and first.      *)
LEMMA ShowsMore ==
  ASSUME NEW old \in Seq(Nat), NEW next \in Nat, Shows(old, next),
         NEW ids, NEW first \in Nat, IdsFrom(ids, first), Last(old) < first,
         NEW later \in Nat, later = first + Len(ids), next <= later,
         NoGap(Last(old), first, later - BufferSize)
  PROVE  /\ Shows(old \o ids, later)
         /\ Last(old \o ids) = later - 1
<1> DEFINE n == Len(ids)
           k == Len(old)
           end == Last(old)
           all == old \o ids
<1>1. ids \in Seq(Nat) /\ old # <<>> /\ end = old[k]
  BY DEF IdsFrom, Shows, Last
<1>2. /\ n \in Nat /\ n >= 1 /\ k \in Nat /\ k >= 1 /\ end \in Nat
      /\ BufferSize \in Nat \ {0} /\ later = first + n /\ end < first
  BY <1>1, Parameters DEF IdsFrom
<1>3. /\ all \in Seq(Nat) /\ Len(all) = k + n
      /\ \A j \in 1..k : all[j] = old[j]
      /\ \A j \in 1..n : all[k + j] = ids[j]
  BY <1>1
<1>4. \A j \in 1..n : ids[j] = first + j - 1
  BY DEF IdsFrom
<1>5. \A id \in Nat : next - BufferSize <= id /\ Head(old) <= id /\ id <= end
        => end - id < k /\ old[k - (end - id)] = id
  BY DEF Shows
<1>6. all # <<>> /\ Head(all) = all[1] /\ Head(old) = old[1] /\ Last(all) = all[k + n]
  BY <1>1, <1>2, <1>3 DEF Last
<1> HIDE DEF n, k, all, end
<1>7. Head(all) = Head(old) /\ Last(all) = later - 1
  <2>1. all[1] = old[1]
    BY <1>2, <1>3
  <2>2. n \in 1..n /\ first + n - 1 = later - 1
    BY <1>2
  <2>3. all[k + n] = ids[n] /\ ids[n] = first + n - 1
    BY <1>3, <1>4, <2>2
  <2> QED
    BY <1>6, <2>1, <2>2, <2>3
<1>8. ASSUME NEW id \in Nat, later - BufferSize <= id, Head(old) <= id, id <= later - 1
      PROVE  (later - 1) - id < k + n /\ all[(k + n) - ((later - 1) - id)] = id
  <2>1. CASE first <= id
    <3> DEFINE at == id - first + 1
    <3>0. /\ n \in Nat /\ k \in Nat /\ first \in Nat /\ id \in Nat /\ later = first + n
          /\ first <= id /\ id <= later - 1
      BY <1>2, <1>8, <2>1
    <3>a. at \in Nat /\ at >= 1 /\ at <= n
      BY <3>0
    <3>b. first + at - 1 = id /\ (k + n) - ((later - 1) - id) = k + at
      BY <3>0
    <3>1. at \in 1..n /\ (k + n) - ((later - 1) - id) = k + at /\ first + at - 1 = id
      BY <3>0, <3>a, <3>b
    <3>2. (later - 1) - id < k + n
      BY <1>2, <1>8, <2>1
    <3> HIDE DEF at
    <3>3. all[k + at] = ids[at] /\ ids[at] = first + at - 1
      BY <1>3, <1>4, <3>1
    <3> QED
      BY <3>1, <3>2, <3>3
  <2>2. CASE id < first
    <3>1. \A e \in Nat : end < e /\ later - BufferSize <= e => first <= e
      BY DEF NoGap, end
    <3>2. id <= end
      BY <1>2, <1>8, <2>2, <3>1
    <3>3. next - BufferSize <= id
      BY <1>2, <1>8
    <3>4. end - id < k /\ old[k - (end - id)] = id
      BY <1>5, <1>8, <3>2, <3>3
    <3>5. end + 1 \in Nat /\ later - BufferSize <= end + 1
      BY <1>2, <1>8, <3>2
    <3>6. end = first - 1
      <4>1. end < end + 1
        BY <1>2
      <4>2. first <= end + 1
        BY <3>1, <3>5, <4>1
      <4> QED
        BY <1>2, <4>2
    <3> DEFINE at == k - (end - id)
    <3>7. at \in 1..k /\ (k + n) - ((later - 1) - id) = at
      BY <1>2, <3>2, <3>4, <3>6
    <3>8. (later - 1) - id < k + n
      BY <1>2, <3>2, <3>4, <3>6
    <3>9. old[at] = id
      BY <3>4
    <3> HIDE DEF at
    <3> QED
      BY <1>3, <3>7, <3>8, <3>9
  <2> QED
    BY <1>2, <2>1, <2>2
<1>9. Last(all) < later
  BY <1>2, <1>7
<1>10. Shows(all, later)
  BY <1>3, <1>6, <1>7, <1>8, <1>9 DEF Shows
<1> QED
  BY <1>7, <1>10 DEF all

-----------------------------------------------------------------------------
(* A buffer holds the last BUFFER_SIZE of the ids below next.              *)
HoldsTheLast(buffer, next) ==
  /\ Len(buffer) = IF next < BufferSize THEN next ELSE BufferSize
  /\ \A j \in 1..Len(buffer) : buffer[j] = next - Len(buffer) + j - 1

(* Trimming what publish appends keeps the last BUFFER_SIZE ids.           *)
LEMMA TrimmedHolds ==
  ASSUME NEW old \in Seq(Nat), NEW id \in Nat, HoldsTheLast(old, id),
         NEW ids \in Seq(Nat), Len(ids) >= 1,
         \A j \in 1..Len(ids) : ids[j] = id + j - 1
  PROVE  /\ Trimmed(old \o ids) \in Seq(Nat)
         /\ HoldsTheLast(Trimmed(old \o ids), id + Len(ids))
<1> DEFINE n == Len(ids)
           k == Len(old)
           all == old \o ids
           last == SubSeq(all, k + n - BufferSize + 1, k + n)
<1>1. n \in Nat /\ n >= 1 /\ k \in Nat /\ BufferSize \in Nat \ {0}
  BY Parameters
<1>2. all \in Seq(Nat) /\ Len(all) = k + n
  OBVIOUS
<1>3. \A j \in 1..(k + n) : all[j] = IF j <= k THEN old[j] ELSE ids[j - k]
  OBVIOUS
<1>4. /\ k = IF id < BufferSize THEN id ELSE BufferSize
      /\ \A j \in 1..k : old[j] = id - k + j - 1
  BY DEF HoldsTheLast
<1>5. \A j \in 1..n : ids[j] = id + j - 1
  OBVIOUS
<1>6. k + n > BufferSize =>
        /\ last \in Seq(Nat) /\ Len(last) = BufferSize
        /\ \A j \in 1..BufferSize : last[j] = all[k + n - BufferSize + j]
  <2> HIDE DEF all, n, k
  <2> SUFFICES ASSUME k + n > BufferSize
               PROVE  /\ last \in Seq(Nat) /\ Len(last) = BufferSize
                      /\ \A j \in 1..BufferSize : last[j] = all[k + n - BufferSize + j]
    OBVIOUS
  <2> DEFINE m == k + n - BufferSize + 1
             top == k + n
  <2>1. \A j \in m..top : all[j] \in Nat
    BY <1>1, <1>2
  <2>2. m \in Int /\ top \in Int /\ m <= top /\ top - m + 1 = BufferSize
    BY <1>1
  <2>3. last = SubSeq(all, m, top)
    OBVIOUS
  <2> HIDE DEF last, m, top
  <2>4. /\ last \in Seq(Nat) /\ Len(last) = BufferSize
        /\ \A j \in 1..BufferSize : last[j] = all[m + j - 1]
    BY <2>1, <2>2, <2>3, SubSeqProperties
  <2>5. \A j \in 1..BufferSize : m + j - 1 = k + n - BufferSize + j
    BY <1>1 DEF m
  <2> QED
    BY <2>4, <2>5
<1> HIDE DEF n, k, all
<1>7. Trimmed(all) = IF k + n > BufferSize THEN last ELSE all
  <2>1. Len(all) - BufferSize + 1 = k + n - BufferSize + 1
    BY <1>1, <1>2
  <2> QED
    BY <1>2, <2>1 DEF Trimmed
<1> HIDE DEF last
<1>8. \A j \in 1..(k + n) : all[j] = id - k + j - 1
  <2> TAKE j \in 1..(k + n)
  <2>1. CASE j <= k
    BY <1>1, <1>3, <1>4, <2>1
  <2>2. CASE j > k
    <3>1. j - k \in 1..n
      BY <1>1, <2>2
    <3>2. all[j] = ids[j - k]
      BY <1>1, <1>3, <2>2
    <3>3. ids[j - k] = id + (j - k) - 1
      BY <1>5, <3>1
    <3> QED
      BY <1>1, <3>2, <3>3
  <2> QED
    BY <1>1, <2>1, <2>2
<1>9. CASE k + n > BufferSize
  <2>1. id + n >= BufferSize
    BY <1>1, <1>4, <1>9
  <2>2. ASSUME NEW j \in 1..BufferSize PROVE last[j] = id + n - BufferSize + j - 1
    <3>1. k + n - BufferSize + j \in 1..(k + n)
      BY <1>1, <1>9
    <3>2. last[j] = id - k + (k + n - BufferSize + j) - 1
      BY <1>6, <1>8, <1>9, <3>1
    <3> QED
      BY <1>1, <3>2
  <2>3. HoldsTheLast(last, id + n)
    <3>1. Len(last) = BufferSize
      BY <1>6, <1>9
    <3> QED
      BY <1>1, <2>1, <2>2, <3>1 DEF HoldsTheLast
  <2> QED
    BY <1>6, <1>7, <1>9, <2>3 DEF n, all
<1>10. CASE k + n <= BufferSize
  <2>1. k = id /\ (id + n < BufferSize \/ id + n = BufferSize)
    BY <1>1, <1>4, <1>10
  <2>2. Len(all) = id + n
    BY <1>2, <2>1
  <2>3. \A j \in 1..(id + n) : all[j] = id + n - (id + n) + j - 1
    BY <1>1, <1>8, <2>1
  <2>4. HoldsTheLast(all, id + n)
    BY <1>1, <2>1, <2>2, <2>3 DEF HoldsTheLast
  <2>5. Trimmed(all) = all
    BY <1>1, <1>7, <1>10
  <2> QED
    BY <1>2, <2>4, <2>5 DEF n, all
<1> QED
  BY <1>1, <1>9, <1>10

(* getEventsSince: the replay of a bus has the ids that its buffer holds   *)
(* beyond the last one that was received.                                  *)
LEMMA ReplayIds ==
  ASSUME Typed, BufferHoldsTheLast, NEW b \in Bus, NEW last \in Nat
  PROVE  /\ EventsSince(b, last) # <<>> =>
              \E first \in Nat :
                /\ IdsFrom(EventsSince(b, last), first)
                /\ first + Len(EventsSince(b, last)) = bus[b].nextId
                /\ last < first
                /\ NoGap(last, first, bus[b].nextId - BufferSize)
         /\ EventsSince(b, last) = <<>> => bus[b].nextId <= last + 1
<1> DEFINE buffer == bus[b].buffer
           next == bus[b].nextId
           kept == Len(buffer)
           newer == {j \in DOMAIN buffer : buffer[j] > last}
           from == Min(newer)
           missed == EventsSince(b, last)
<1>1. /\ buffer \in Seq(Nat) /\ next \in Nat /\ kept \in Nat /\ BufferSize \in Nat \ {0}
      /\ newer \subseteq 1..kept /\ newer \in SUBSET Nat
  BY Parameters DEF Typed, Entry
<1>2. /\ kept = IF next < BufferSize THEN next ELSE BufferSize
      /\ \A j \in 1..kept : buffer[j] = next - kept + j - 1
  BY DEF BufferHoldsTheLast
<1>3. missed = IF newer = {} THEN <<>> ELSE SubSeq(buffer, from, kept)
  BY Parameters DEF EventsSince
<1>4. \A j \in 1..kept : j \in newer <=> buffer[j] > last
  BY <1>1
<1>5. newer # {} => from \in newer /\ \A j \in newer : from <= j
  BY <1>1, LeastNat
<1> HIDE DEF buffer, next, kept, newer, from, missed
<1>6. CASE newer = {}
  <2>1. missed = <<>>
    BY <1>3, <1>6
  <2>2. next <= last + 1
    <3>1. CASE kept = 0
      BY <1>1, <1>2, <3>1
    <3>2. CASE kept # 0
      <4>1. kept \in 1..kept
        BY <1>1, <3>2
      <4>2. buffer[kept] = next - kept + kept - 1
        BY <1>2, <4>1
      <4>3. ~ (next - kept + kept - 1 > last)
        BY <1>4, <1>6, <4>1, <4>2
      <4> QED
        BY <1>1, <4>3
    <3> QED
      BY <3>1, <3>2
  <2> QED
    BY <2>1, <2>2 DEF missed, next
<1>7. CASE newer # {}
  <2> DEFINE first == next - kept + from - 1
             n == kept - from + 1
  <2>1. from \in 1..kept /\ n \in 1..kept /\ first + n = next
    <3>1. from \in 1..kept
      BY <1>1, <1>5, <1>7
    <3> QED
      BY <1>1, <3>1
  <2>2. buffer[from] = first /\ last < first /\ first \in Nat
    BY <1>1, <1>2, <1>4, <1>5, <1>7, <2>1
  <2>3. /\ missed \in Seq(Nat) /\ Len(missed) = n
        /\ \A j \in 1..n : missed[j] = buffer[from + j - 1]
    <3>1. \A j \in from..kept : buffer[j] \in Nat
      BY <1>1, <2>1 DEF kept
    <3>2. from \in Int /\ kept \in Int /\ from <= kept
      BY <1>1, <2>1
    <3>3. missed = SubSeq(buffer, from, kept)
      BY <1>3, <1>7
    <3> HIDE DEF n
    <3>4. /\ missed \in Seq(Nat) /\ Len(missed) = kept - from + 1
          /\ \A j \in 1..(kept - from + 1) : missed[j] = buffer[from + j - 1]
      BY <3>1, <3>2, <3>3, SubSeqProperties
    <3> QED
      BY <3>4 DEF n
  <2>4. \A j \in 1..n : missed[j] = first + j - 1
    <3> TAKE j \in 1..n
    <3>1. from + j - 1 \in 1..kept /\ next - kept + (from + j - 1) - 1 = first + j - 1
      BY <1>1, <2>1
    <3> QED
      BY <1>2, <2>3, <3>1
  <2>5. missed # <<>>
    BY <2>1, <2>3
  <2>6. ASSUME NEW id \in Nat, last < id, next - BufferSize <= id PROVE first <= id
    <3>1. CASE from = 1
      BY <1>1, <1>2, <2>6, <3>1
    <3>2. CASE from # 1
      <4>1. from - 1 \in 1..kept /\ from - 1 \notin newer
        BY <1>1, <1>5, <1>7, <2>1, <3>2
      <4>2. buffer[from - 1] = next - kept + (from - 1) - 1
        BY <1>2, <4>1
      <4>3. ~ (next - kept + (from - 1) - 1 > last)
        BY <1>4, <4>1, <4>2
      <4> QED
        BY <1>1, <2>1, <2>6, <4>3
    <3> QED
      BY <3>1, <3>2
  <2>7. NoGap(last, first, next - BufferSize)
    BY <2>6 DEF NoGap
  <2> HIDE DEF first, n
  <2>8. IdsFrom(missed, first)
    BY <2>3, <2>4, <2>5 DEF IdsFrom
  <2>9. first \in Nat /\ first + Len(missed) = next /\ last < first
    BY <2>1, <2>2, <2>3
  <2> QED
    BY <2>5, <2>7, <2>8, <2>9 DEF missed, next
<1> QED
  BY <1>6, <1>7

(* publish changes one bus, and nobody's connection.                       *)
LEMMA PublishKeeps ==
  ASSUME Typed, BufferHoldsTheLast, Attached, StreamsShow,
         NEW b \in GetOrCreateBus, NEW n \in 1..2, Publish(b, n)
  PROVE  /\ bus' \in [Bus -> Entry] /\ current' = b /\ b \in Bus
         /\ client' \in [Client -> Stream]
         /\ BufferHoldsTheLast' /\ Attached' /\ StreamsShow'
         /\ \A c \in Client : client'[c].on = client[c].on
         /\ bus'[b].listeners = Opened(b).listeners
<1>1. b \in Bus /\ Opened(b) \in Entry
  BY OpenedBus
<1>2. /\ current' = b
      /\ bus' = [bus EXCEPT ![b] =
           [Opened(b) EXCEPT !.buffer = Trimmed(@ \o NextIds(b, n)), !.nextId = @ + n]]
      /\ client' = [c \in Client |->
           IF c \in Opened(b).listeners THEN Hears(c, b, NextIds(b, n)) ELSE client[c]]
  BY DEF Publish
<1>3. HoldsTheLast(Opened(b).buffer, Opened(b).nextId)
  <2>1. CASE b = current
    BY <1>1, <2>1 DEF Opened, BufferHoldsTheLast, HoldsTheLast
  <2>2. CASE b # current
    BY <2>2, Parameters DEF Opened, NewBus, HoldsTheLast
  <2> QED
    BY <2>1, <2>2
<1> DEFINE ids == NextIds(b, n)
           entry == Opened(b)
           new == Trimmed(entry.buffer \o ids)
<1>4. /\ ids \in Seq(Nat) /\ Len(ids) = n /\ n \in Nat /\ n >= 1
      /\ \A j \in 1..Len(ids) : ids[j] = entry.nextId + j - 1
  BY <1>1 DEF NextIds, Entry
<1>5. entry \in Entry /\ entry.buffer \in Seq(Nat) /\ entry.nextId \in Nat
  BY <1>1 DEF Entry
<1>6. /\ b = current => entry = bus[b]
      /\ b # current => entry.listeners = {}
      /\ b # current => \A c \in Client : client[c].on # b /\ client[c].from # b
  BY OpenedBus DEF Opened, NewBus
<1> HIDE DEF ids, entry
<1>7. IdsFrom(ids, entry.nextId)
  BY <1>4 DEF IdsFrom
<1>8. new \in Seq(Nat) /\ HoldsTheLast(new, entry.nextId + n)
  <2>1. HoldsTheLast(entry.buffer, entry.nextId)
    BY <1>3 DEF entry
  <2> QED
    BY <1>4, <1>5, <2>1, TrimmedHolds
<1> HIDE DEF new
<1>9. /\ bus'[b].buffer = new /\ bus'[b].nextId = entry.nextId + n
      /\ bus'[b].listeners = entry.listeners /\ bus'[b] \in Entry
      /\ \A a \in Bus : a # b => bus'[a] = bus[a]
  <2>1. /\ bus'[b] = [entry EXCEPT !.buffer = new, !.nextId = @ + n]
        /\ \A a \in Bus : a # b => bus'[a] = bus[a]
    BY <1>1, <1>2 DEF Typed, new, entry, ids
  <2>2. /\ bus'[b].buffer = new /\ bus'[b].nextId = entry.nextId + n
        /\ bus'[b].listeners = entry.listeners
    BY <1>5, <2>1 DEF Entry
  <2>3. entry.nextId + n \in Nat /\ new \in Seq(Nat)
    BY <1>4, <1>5, <1>8
  <2>4. bus'[b] \in Entry
    BY <1>5, <2>1, <2>3 DEF Entry
  <2> QED
    BY <2>1, <2>2, <2>4
<1>10. bus' \in [Bus -> Entry]
  BY <1>2, <1>9 DEF Typed
<1>11. BufferHoldsTheLast'
  BY <1>8, <1>9 DEF BufferHoldsTheLast, HoldsTheLast
<1>12. \A c \in Client : client'[c] = IF c \in entry.listeners THEN Hears(c, b, ids) ELSE client[c]
  BY <1>2 DEF entry, ids
<1>13. ASSUME NEW c \in Client
       PROVE  /\ Hears(c, b, ids) \in Stream /\ Hears(c, b, ids).on = client[c].on
              /\ Hears(c, b, ids).from = b
              /\ Hears(c, b, ids).received =
                   IF client[c].from = b THEN client[c].received \o ids ELSE ids
  <2>1. client[c] \in Stream
    BY DEF Typed
  <2> DEFINE got == IF client[c].from = b THEN client[c].received \o ids ELSE ids
  <2>2. got \in Seq(Nat)
    BY <1>4, <2>1 DEF Stream
  <2>3. Hears(c, b, ids) = [client[c] EXCEPT !.received = got, !.from = b]
    BY <2>1 DEF Hears, Stream
  <2> HIDE DEF got
  <2>4. Hears(c, b, ids) \in Stream /\ Hears(c, b, ids).on = client[c].on
        /\ Hears(c, b, ids).from = b /\ Hears(c, b, ids).received = got
    BY <1>1, <2>1, <2>2, <2>3 DEF Stream
  <2> QED
    BY <2>4 DEF got
<1>14. client' \in [Client -> Stream] /\ \A c \in Client : client'[c].on = client[c].on
  <2>1. \A c \in Client : client'[c] \in Stream /\ client'[c].on = client[c].on
    BY <1>12, <1>13 DEF Typed
  <2> QED
    BY <1>2, <2>1
<1>15. Attached'
  BY <1>2, <1>6, <1>9, <1>14 DEF Attached
<1>16. ASSUME NEW c \in Client, client'[c].from \in Bus
       PROVE  /\ Shows(client'[c].received, bus'[client'[c].from].nextId)
              /\ c \in bus'[client'[c].from].listeners =>
                   Last(client'[c].received) = bus'[client'[c].from].nextId - 1
  <2> DEFINE next == entry.nextId
             later == entry.nextId + n
             old == client[c].received
  <2>1. /\ client[c] \in Stream /\ old \in Seq(Nat) /\ next \in Nat /\ later \in Nat
        /\ next <= later /\ later = next + Len(ids) /\ IdsFrom(ids, next)
        /\ bus'[b].nextId = later
    BY <1>4, <1>5, <1>7, <1>9 DEF Typed, Stream
  <2>2. client[c].from = b => Shows(old, next)
    BY <1>1, <1>6 DEF StreamsShow
  <2>3. client[c].from = b /\ c \in entry.listeners => Last(old) = next - 1
    BY <1>1, <1>6 DEF StreamsShow
  <2>4. CASE c \in entry.listeners
    <3>1. /\ client'[c].from = b
          /\ client'[c].received = IF client[c].from = b THEN old \o ids ELSE ids
      BY <1>12, <1>13, <2>4
    <3>2. CASE client[c].from = b
      <4>1. Shows(old, next) /\ Last(old) = next - 1
        BY <2>2, <2>3, <2>4, <3>2
      <4>2. client'[c].received = old \o ids
        BY <3>1, <3>2
      <4> HIDE DEF next, later, old
      <4>3. Last(old) < next /\ NoGap(Last(old), next, later - BufferSize)
        BY <2>1, <4>1 DEF NoGap
      <4>4. Shows(old \o ids, later) /\ Last(old \o ids) = later - 1
        BY <2>1, <4>1, <4>3, ShowsMore
      <4> QED
        BY <2>1, <3>1, <4>2, <4>4
    <3>3. CASE client[c].from # b
      <4>1. client'[c].received = ids
        BY <3>1, <3>3
      <4> HIDE DEF next, later
      <4>2. Shows(ids, later) /\ Last(ids) = later - 1
        BY <2>1, ShowsFresh
      <4> QED
        BY <2>1, <3>1, <4>1, <4>2
    <3> QED
      BY <3>2, <3>3
  <2>5. CASE c \notin entry.listeners
    <3>1. client'[c] = client[c]
      BY <1>12, <2>5
    <3>2. CASE client[c].from = b
      <4> HIDE DEF next, later
      <4>1. Shows(old, later)
        BY <2>1, <2>2, <3>2, ShowsLater
      <4> QED
        BY <1>9, <2>1, <2>5, <3>1, <3>2, <4>1
    <3>3. CASE client[c].from # b
      BY <1>9, <1>16, <3>1, <3>3 DEF StreamsShow
    <3> QED
      BY <3>2, <3>3
  <2> QED
    BY <2>4, <2>5
<1>17. StreamsShow'
  BY <1>16 DEF StreamsShow
<1> QED
  BY <1>1, <1>2, <1>9, <1>10, <1>11, <1>14, <1>15, <1>17 DEF entry

(* The instance starts without a bus.                                      *)
LEMMA InitHolds == Init => SseInv
<1> SUFFICES ASSUME Init PROVE SseInv
  OBVIOUS
<1>1. Typed
  BY Parameters DEF Init, Typed, NewBus, Entry, Stream
<1>2. BufferHoldsTheLast
  BY Parameters DEF Init, BufferHoldsTheLast, NewBus
<1>3. OneLinger /\ ConnectedIsHeard /\ HeartbeatHasBus
  BY DEF Init, OneLinger, ConnectedIsHeard, HeartbeatHasBus, Connected
<1>4. Attached /\ StreamsShow
  BY Parameters DEF Init, Attached, StreamsShow, NewBus
<1> QED
  BY <1>1, <1>2, <1>3, <1>4 DEF SseInv

(* While a timeout is pending the map has the bus that set it.             *)
LEMMA LingeringHasBus ==
  ASSUME SseInv, clears = 0, lingers # <<>> PROVE current \in Bus
BY DEF SseInv, OneLinger

(* Events that do not end the instance: the bus they create, if any, is    *)
(* the one in the map, and takes nobody's listeners away.                  *)
LEMMA PublishingKeeps ==
  ASSUME SseInv, NEW b \in GetOrCreateBus, NEW n \in 1..2, Publish(b, n),
         beating' = Beating(b), UNCHANGED <<life, clears, lingers>>
  PROVE  SseInv'
<1>1. /\ Typed /\ BufferHoldsTheLast /\ OneLinger /\ ConnectedIsHeard /\ HeartbeatHasBus
      /\ Attached /\ StreamsShow
  BY DEF SseInv
<1>2. /\ bus' \in [Bus -> Entry] /\ current' = b /\ b \in Bus
      /\ client' \in [Client -> Stream]
      /\ BufferHoldsTheLast' /\ Attached' /\ StreamsShow'
      /\ \A c \in Client : client'[c].on = client[c].on
      /\ bus'[b].listeners = Opened(b).listeners
  BY <1>1, PublishKeeps
<1>3. (current # None => b = current) /\ (current = None => b # current)
  BY <1>1, OpenedBus
<1>4. Typed'
  BY <1>1, <1>2 DEF Typed, Beating
<1>5. OneLinger'
  <2> SUFFICES ASSUME clears = 0
               PROVE  /\ lingers = <<>> \/ (lingers = <<b>> /\ b \in Bus)
                      /\ life = "active" => lingers = <<>>
                      /\ lingers # <<>> => beating' = {}
    BY <1>2 DEF OneLinger
  <2>1. lingers # <<>> => b = current
    BY <1>3, LingeringHasBus, Parameters
  <2> QED
    BY <1>1, <2>1 DEF OneLinger, Beating
<1>6. ConnectedIsHeard'
  <2> SUFFICES ASSUME life = "active", clears = 0, NEW c \in Client, client[c].on # None
               PROVE  client[c].on = b /\ c \in bus'[b].listeners
    BY <1>2 DEF ConnectedIsHeard, Connected
  <2>1. client[c].on = current /\ c \in bus[current].listeners
    BY <1>1 DEF ConnectedIsHeard, Connected
  <2> QED
    BY <1>2, <1>3, <2>1 DEF Opened
<1>7. HeartbeatHasBus'
  BY <1>1, <1>2, <1>3, Parameters DEF HeartbeatHasBus, Beating, Typed
<1> QED
  BY <1>2, <1>4, <1>5, <1>6, <1>7 DEF SseInv

(* The terminal event stops the heartbeat and sets the only timeout.       *)
LEMMA PublishTerminalKeeps == ASSUME SseInv, PublishTerminal PROVE SseInv'
<1>1. PICK b \in GetOrCreateBus, n \in 1..2 :
        /\ Publish(b, n) /\ beating' = Beating(b) \ {b} /\ lingers' = Append(lingers, b)
        /\ life = "active" /\ life' = "over" /\ clears' = clears
  BY DEF PublishTerminal
<1>2. /\ Typed /\ BufferHoldsTheLast /\ OneLinger /\ HeartbeatHasBus
      /\ Attached /\ StreamsShow
  BY DEF SseInv
<1>3. /\ bus' \in [Bus -> Entry] /\ current' = b /\ b \in Bus
      /\ client' \in [Client -> Stream]
      /\ BufferHoldsTheLast' /\ Attached' /\ StreamsShow'
  BY <1>1, <1>2, PublishKeeps
<1>4. (current # None => b = current) /\ (current = None => b # current)
  BY <1>2, OpenedBus
<1>5. Typed'
  BY <1>1, <1>2, <1>3 DEF Typed, Beating
<1>6. clears = 0 => beating' = {}
  BY <1>1, <1>2, <1>4, Parameters DEF HeartbeatHasBus, Beating, Typed
<1>7. clears = 0 => lingers' = <<b>>
  BY <1>1, <1>2 DEF OneLinger
<1>8. OneLinger' /\ HeartbeatHasBus' /\ ConnectedIsHeard'
  BY <1>1, <1>3, <1>6, <1>7 DEF OneLinger, HeartbeatHasBus, ConnectedIsHeard
<1> QED
  BY <1>3, <1>5, <1>8 DEF SseInv

(* A cleared instance: nothing but the types and the buffers is claimed.   *)
LEMMA ClearKeeps == ASSUME SseInv, Clear PROVE SseInv'
<1>1. PICK b \in GetOrCreateBus, n \in 1..2 :
        /\ Publish(b, n) /\ beating' = Beating(b) /\ UNCHANGED lingers
        /\ clears < MaxClears /\ clears' = clears + 1 /\ life' = "active"
  BY DEF Clear
<1>2. Typed /\ BufferHoldsTheLast /\ Attached /\ StreamsShow
  BY DEF SseInv
<1>3. /\ bus' \in [Bus -> Entry] /\ current' = b /\ b \in Bus
      /\ client' \in [Client -> Stream]
      /\ BufferHoldsTheLast' /\ Attached' /\ StreamsShow'
  BY <1>1, <1>2, PublishKeeps
<1>4. clears' \in 0..MaxClears /\ clears' # 0
  BY <1>1, <1>2, Parameters DEF Typed
<1>5. beating' \subseteq Bus
  BY <1>1, <1>2, <1>3 DEF Typed, Beating
<1>6. Typed'
  BY <1>1, <1>2, <1>3, <1>4, <1>5 DEF Typed
<1> QED
  BY <1>3, <1>4, <1>6 DEF SseInv, OneLinger, ConnectedIsHeard, HeartbeatHasBus

(* The timeout of an instance that was never cleared finds its own bus,    *)
(* without a heartbeat.                                                    *)
LEMMA LingerEndsKeeps == ASSUME SseInv, LingerEnds PROVE SseInv'
<1>1. /\ lingers # <<>> /\ lingers' = Tail(lingers) /\ current' = None
      /\ UNCHANGED <<life, clears, bus, beating, client>>
  BY DEF LingerEnds
<1>2. Typed /\ BufferHoldsTheLast /\ OneLinger /\ Attached /\ StreamsShow
  BY DEF SseInv
<1>3. Typed' /\ BufferHoldsTheLast' /\ Attached' /\ StreamsShow'
  BY <1>1, <1>2, Parameters DEF Typed, BufferHoldsTheLast, Attached, StreamsShow
<1>4. clears = 0 => life # "active" /\ lingers' = <<>> /\ beating = {}
  <2>1. ASSUME lingers = <<current>> PROVE Tail(lingers) = <<>>
    BY <2>1
  <2> QED
    BY <1>1, <1>2, <2>1 DEF OneLinger
<1> QED
  BY <1>1, <1>3, <1>4 DEF SseInv, OneLinger, ConnectedIsHeard, HeartbeatHasBus

(* A client that connects listens to the bus in the map.                   *)
LEMMA ConnectKeeps == ASSUME SseInv, NEW c \in Client, Connect(c) PROVE SseInv'
<1> DEFINE last == LastEventId(c)
           missed == EventsSince(current, last)
           was == client[c].received
<1>1. PICK b \in GetOrCreateBus :
        /\ current' = b /\ beating' = Beating(b)
        /\ bus' = [bus EXCEPT ![b] = [Opened(b) EXCEPT !.listeners = @ \cup {c}]]
        /\ client' = [client EXCEPT ![c] =
             IF missed = <<>> THEN [@ EXCEPT !.on = b]
             ELSE [Hears(c, b, missed) EXCEPT !.on = b]]
  BY DEF Connect
<1>2. UNCHANGED <<life, clears, lingers>> /\ client[c].on = None
  BY DEF Connect
<1>3. /\ Typed /\ BufferHoldsTheLast /\ OneLinger /\ ConnectedIsHeard /\ HeartbeatHasBus
      /\ Attached /\ StreamsShow
  BY DEF SseInv
<1>4. /\ b \in Bus /\ Opened(b) \in Entry
      /\ current # None => b = current
      /\ current = None => b # current
      /\ b # current => \A d \in Client : client[d].on # b /\ client[d].from # b
  BY <1>3, OpenedBus
<1>5. bus' \in [Bus -> Entry] /\ (\A a \in Bus : a # b => bus'[a] = bus[a])
      /\ bus'[b].buffer = Opened(b).buffer /\ bus'[b].nextId = Opened(b).nextId
      /\ bus'[b].listeners = Opened(b).listeners \cup {c}
  BY <1>1, <1>3, <1>4 DEF Typed, Entry
<1>6. (b = current => Opened(b) = bus[b]) /\ (b # current => Opened(b) = NewBus)
  BY DEF Opened
<1>7. BufferHoldsTheLast'
  <2>1. CASE b = current
    BY <1>3, <1>5, <1>6, <2>1 DEF BufferHoldsTheLast
  <2>2. CASE b # current
    BY <1>3, <1>5, <1>6, <2>2, Parameters DEF BufferHoldsTheLast, NewBus
  <2> QED
    BY <2>1, <2>2
<1>8. client[c] \in Stream /\ was \in Seq(Nat) /\ last \in Nat /\ (was # <<>> => last = Last(was))
  BY <1>3 DEF Typed, Stream, LastEventId, Last
<1>9. /\ current = None => missed = <<>>
      /\ missed # <<>> =>
           \E first \in Nat :
             /\ IdsFrom(missed, first)
             /\ first + Len(missed) = bus[current].nextId
             /\ last < first
             /\ NoGap(last, first, bus[current].nextId - BufferSize)
      /\ missed = <<>> /\ current # None => bus[current].nextId <= last + 1
  <2>1. CASE current = None
    BY <2>1 DEF EventsSince
  <2>2. CASE current # None
    <3>1. current \in Bus
      BY <1>3, <2>2 DEF Typed
    <3> QED
      BY <1>3, <1>8, <2>2, <3>1, ReplayIds
  <2> QED
    BY <2>1, <2>2
<1> HIDE DEF last, missed
<1>10. /\ client'[c] \in Stream /\ client'[c].on = b
       /\ missed = <<>> => client'[c].from = client[c].from /\ client'[c].received = was
       /\ missed # <<>> => /\ client'[c].from = b
                           /\ client'[c].received = IF client[c].from = b THEN was \o missed ELSE missed
  <2>1. client'[c] = IF missed = <<>> THEN [client[c] EXCEPT !.on = b]
                     ELSE [Hears(c, b, missed) EXCEPT !.on = b]
    BY <1>1, <1>3 DEF Typed
  <2>2. CASE missed = <<>>
    BY <1>4, <1>8, <2>1, <2>2 DEF Stream
  <2>3. CASE missed # <<>>
    <3> DEFINE got == IF client[c].from = b THEN was \o missed ELSE missed
    <3>1. got \in Seq(Nat)
      BY <1>8, <1>9, <2>3 DEF IdsFrom
    <3>2. Hears(c, b, missed) = [client[c] EXCEPT !.received = got, !.from = b]
      BY <1>8 DEF Hears, Stream
    <3> HIDE DEF got
    <3>3. Hears(c, b, missed) \in Stream /\ Hears(c, b, missed).from = b
          /\ Hears(c, b, missed).received = got
      BY <1>4, <1>8, <3>1, <3>2 DEF Stream
    <3>4. client'[c] = [Hears(c, b, missed) EXCEPT !.on = b]
      BY <2>1, <2>3
    <3>5. client'[c] \in Stream /\ client'[c].on = b /\ client'[c].from = b /\ client'[c].received = got
      BY <1>4, <3>3, <3>4 DEF Stream
    <3> QED
      BY <2>3, <3>5 DEF got
  <2> QED
    BY <2>2, <2>3
<1>11. \A d \in Client : d # c => client'[d] = client[d]
  BY <1>1, <1>3 DEF Typed
<1>12. Typed'
  <2>1. client' \in [Client -> Stream]
    <3>1. \A d \in Client : client'[d] \in Stream
      BY <1>3, <1>10, <1>11 DEF Typed
    <3> QED
      BY <1>1, <1>3, <3>1 DEF Typed
  <2> QED
    BY <1>1, <1>2, <1>3, <1>4, <1>5, <2>1 DEF Typed, Beating
<1>13. \A a \in Bus : c \notin bus[a].listeners
  BY <1>2, <1>3, Parameters DEF Attached
<1>14. Attached'
  <2>1. \A d \in Client, a \in Bus : d # c => (d \in bus'[a].listeners => d \in bus[a].listeners)
    BY <1>5, <1>6 DEF NewBus
  <2>2. \A a \in Bus : c \in bus'[a].listeners => a = b
    BY <1>5, <1>13
  <2>3. c \in bus'[b].listeners
    BY <1>5
  <2>4. \A d \in Client : d # c /\ client[d].on = b => d \in bus'[b].listeners
    BY <1>3, <1>4, <1>5, <1>6 DEF Attached
  <2> QED
    BY <1>1, <1>3, <1>10, <1>11, <2>1, <2>2, <2>3, <2>4 DEF Attached
<1>15. StreamsShow'
  <2> SUFFICES ASSUME NEW d \in Client, client'[d].from \in Bus
               PROVE  /\ Shows(client'[d].received, bus'[client'[d].from].nextId)
                      /\ d \in bus'[client'[d].from].listeners =>
                           Last(client'[d].received) = bus'[client'[d].from].nextId - 1
    BY DEF StreamsShow
  <2>1. \A e \in Client : client[e].from = b =>
          b = current /\ bus'[b].nextId = bus[b].nextId /\ bus'[b].listeners = bus[b].listeners \cup {c}
    BY <1>4, <1>5, <1>6
  <2>2. CASE d # c
    <3>1. client'[d] = client[d]
      BY <1>11, <2>2
    <3>2. CASE client[d].from = b
      BY <1>3, <1>4, <2>1, <2>2, <3>1, <3>2 DEF StreamsShow
    <3>3. CASE client[d].from # b
      BY <1>3, <1>5, <3>1, <3>3 DEF StreamsShow
    <3> QED
      BY <3>2, <3>3
  <2>3. CASE d = c /\ missed = <<>>
    <3>1. client'[d].from = client[c].from /\ client'[d].received = was /\ client[c].from \in Bus
      BY <1>10, <2>3
    <3>2. Shows(was, bus[client[c].from].nextId)
      BY <1>3, <3>1 DEF StreamsShow
    <3>3. CASE client[c].from = b
      <4>1. bus'[b].nextId = bus[b].nextId /\ b = current
        BY <2>1, <3>3
      <4>2. Last(was) < bus[b].nextId /\ bus[b].nextId <= Last(was) + 1
        <5>1. was # <<>> /\ Last(was) < bus[b].nextId
          BY <3>2, <3>3 DEF Shows
        <5>2. current # None
          BY <1>4, <4>1, Parameters
        <5> QED
          BY <1>8, <1>9, <2>3, <4>1, <5>1, <5>2
      <4>3. Last(was) \in Nat /\ bus[b].nextId \in Nat
        BY <1>3, <1>4, <1>8, <3>2 DEF Typed, Entry, Shows, Last
      <4>4. Last(was) = bus[b].nextId - 1
        BY <4>2, <4>3
      <4> QED
        BY <3>1, <3>2, <3>3, <4>1, <4>4
    <3>4. CASE client[c].from # b
      BY <1>5, <1>13, <2>3, <3>1, <3>2, <3>4
    <3> QED
      BY <3>3, <3>4
  <2>4. CASE d = c /\ missed # <<>>
    <3>1. current # None /\ b = current /\ bus'[b].nextId = bus[b].nextId
      BY <1>4, <1>5, <1>6, <1>9, <2>4
    <3> DEFINE next == bus[b].nextId
    <3>2. PICK first \in Nat :
            /\ IdsFrom(missed, first) /\ first + Len(missed) = next
            /\ last < first /\ NoGap(last, first, next - BufferSize)
      BY <1>9, <2>4, <3>1
    <3>3. next \in Nat /\ bus'[b].nextId = next
      BY <1>3, <1>4, <3>1 DEF Typed, Entry
    <3>4. client[c].from = b => Shows(was, next)
      BY <1>3, <1>4 DEF StreamsShow
    <3>5. /\ client'[d].from = b
          /\ client'[d].received = IF client[c].from = b THEN was \o missed ELSE missed
      BY <1>10, <2>4
    <3> HIDE DEF next, was
    <3>6. CASE client[c].from = b
      <4>1. Shows(was, next) /\ was # <<>> /\ last = Last(was)
        BY <1>8, <3>4, <3>6 DEF Shows
      <4>2. Shows(was \o missed, next) /\ Last(was \o missed) = next - 1
        BY <1>8, <3>2, <3>3, <4>1, ShowsMore
      <4> QED
        BY <3>3, <3>5, <3>6, <4>2
    <3>7. CASE client[c].from # b
      <4>1. Shows(missed, next) /\ Last(missed) = next - 1
        BY <3>2, <3>3, ShowsFresh
      <4> QED
        BY <3>3, <3>5, <3>7, <4>1
    <3> QED
      BY <3>6, <3>7
  <2> QED
    BY <2>2, <2>3, <2>4
<1>16. OneLinger'
  <2> SUFFICES ASSUME clears = 0
               PROVE  /\ lingers = <<>> \/ (lingers = <<b>> /\ b \in Bus)
                      /\ life = "active" => lingers = <<>>
                      /\ lingers # <<>> => beating' = {}
    BY <1>1, <1>2 DEF OneLinger
  <2>1. lingers # <<>> => b = current
    BY <1>4, LingeringHasBus, Parameters
  <2> QED
    BY <1>1, <1>3, <2>1 DEF OneLinger, Beating
<1>17. ConnectedIsHeard'
  <2> SUFFICES ASSUME life = "active", clears = 0, NEW d \in Client, client'[d].on # None
               PROVE  client'[d].on = b /\ d \in bus'[b].listeners
    BY <1>1, <1>2 DEF ConnectedIsHeard, Connected
  <2>1. CASE d = c
    BY <1>5, <1>10, <2>1
  <2>2. CASE d # c
    <3>1. client[d].on = current /\ d \in bus[current].listeners /\ current # None
      BY <1>3, <1>11, <2>2 DEF ConnectedIsHeard, Connected
    <3> QED
      BY <1>4, <1>5, <1>11, <2>2, <3>1 DEF Opened
  <2> QED
    BY <2>1, <2>2
<1>18. HeartbeatHasBus'
  BY <1>1, <1>2, <1>3, <1>4, Parameters DEF HeartbeatHasBus, Beating, Typed
<1> QED
  BY <1>7, <1>12, <1>14, <1>15, <1>16, <1>17, <1>18 DEF SseInv

(* A client that disconnects takes itself off its own bus only.            *)
LEMMA DisconnectKeeps == ASSUME SseInv, NEW c \in Client, Disconnect(c) PROVE SseInv'
<1>1. /\ client[c].on # None
      /\ bus' = [bus EXCEPT ![client[c].on].listeners = @ \ {c}]
      /\ client' = [client EXCEPT ![c].on = None]
      /\ UNCHANGED <<life, clears, current, beating, lingers>>
  BY DEF Disconnect, Connected
<1>2. /\ Typed /\ BufferHoldsTheLast /\ OneLinger /\ ConnectedIsHeard /\ HeartbeatHasBus
      /\ Attached /\ StreamsShow
  BY DEF SseInv
<1>3. \A d \in Client : client[d] \in Stream
  BY <1>2 DEF Typed
<1>4. client[c].on \in Bus
  BY <1>1, <1>3 DEF Stream
<1>5. bus' \in [Bus -> Entry]
      /\ \A a \in Bus :
           /\ bus'[a].buffer = bus[a].buffer /\ bus'[a].nextId = bus[a].nextId
           /\ bus'[a].listeners =
                IF a = client[c].on THEN bus[a].listeners \ {c} ELSE bus[a].listeners
  BY <1>1, <1>2, <1>4 DEF Typed, Entry
<1>6. client' \in [Client -> Stream]
  BY <1>1, <1>2 DEF Typed, Stream
<1>7. /\ client'[c].on = None
      /\ \A d \in Client : /\ d # c => client'[d] = client[d]
                            /\ client'[d].from = client[d].from
                            /\ client'[d].received = client[d].received
  BY <1>1, <1>2 DEF Typed, Stream
<1>8. Typed'
  BY <1>1, <1>2, <1>5, <1>6 DEF Typed
<1>9. BufferHoldsTheLast'
  <2>1. \A a \in Bus : bus'[a].buffer = bus[a].buffer /\ bus'[a].nextId = bus[a].nextId
    BY <1>5
  <2> QED
    BY <1>2, <2>1 DEF BufferHoldsTheLast
<1>10. ConnectedIsHeard'
  <2> SUFFICES ASSUME life = "active", clears = 0, NEW d \in Client, client'[d].on # None
               PROVE  client'[d].on = current /\ d \in bus'[current].listeners
    BY <1>1 DEF ConnectedIsHeard, Connected
  <2>1. d # c /\ client'[d] = client[d]
    BY <1>7
  <2>2. client[d].on = current /\ d \in bus[current].listeners
    BY <1>2, <2>1 DEF ConnectedIsHeard, Connected
  <2>3. current \in Bus
    BY <1>2, <2>1, <2>2 DEF Typed
  <2> QED
    BY <1>5, <2>1, <2>2, <2>3
<1>11. Attached'
  <2>1. \A a \in Bus : a # client[c].on => c \notin bus[a].listeners
    BY <1>2 DEF Attached
  <2>2. \A a \in Bus : c \notin bus'[a].listeners
    BY <1>5, <2>1
  <2>3. \A d \in Client, a \in Bus : d # c => (d \in bus'[a].listeners <=> d \in bus[a].listeners)
    BY <1>5
  <2>4. None \notin Bus
    BY Parameters
  <2> QED
    BY <1>1, <1>2, <1>7, <2>2, <2>3, <2>4 DEF Attached
<1>12. StreamsShow'
  <2>1. \A a \in Bus : bus'[a].nextId = bus[a].nextId /\ bus'[a].listeners \subseteq bus[a].listeners
    BY <1>5
  <2>2. \A d \in Client : client'[d].from = client[d].from /\ client'[d].received = client[d].received
    BY <1>1, <1>2 DEF Typed, Stream
  <2> QED
    BY <1>2, <2>1, <2>2 DEF StreamsShow
<1> QED
  BY <1>1, <1>2, <1>8, <1>9, <1>10, <1>11, <1>12 DEF SseInv, OneLinger, HeartbeatHasBus

(* destroyInstanceBus cancels the timeout of the bus it removes.           *)
LEMMA DestroyKeeps == ASSUME SseInv, DestroyInstanceBus PROVE SseInv'
<1> DEFINE own == {j \in DOMAIN lingers : lingers[j] = current}
<1>1. /\ life' = "deleted" /\ current' = None /\ beating' = beating \ {current}
      /\ lingers' = (IF own = {} THEN lingers
                     ELSE RemoveAt(lingers, CHOOSE j \in own : \A k \in own : k <= j))
      /\ bus' = [b \in Bus |->
           IF b = current THEN [bus[b] EXCEPT !.listeners = {}] ELSE bus[b]]
      /\ UNCHANGED <<clears, client>>
  BY DEF DestroyInstanceBus
<1>2. /\ Typed /\ BufferHoldsTheLast /\ OneLinger /\ HeartbeatHasBus
      /\ Attached /\ StreamsShow
  BY DEF SseInv
<1>3. /\ bus' \in [Bus -> Entry]
      /\ \A a \in Bus : /\ bus'[a].buffer = bus[a].buffer /\ bus'[a].nextId = bus[a].nextId
                        /\ bus'[a].listeners \subseteq bus[a].listeners
  BY <1>1, <1>2 DEF Typed, Entry
<1>4. BufferHoldsTheLast'
  BY <1>2, <1>3 DEF BufferHoldsTheLast
<1>5. lingers' \in Seq(Bus)
  <2>1. CASE own = {}
    BY <1>1, <1>2, <2>1 DEF Typed
  <2>2. CASE own # {}
    <3> DEFINE at == CHOOSE j \in own : \A k \in own : k <= j
    <3>1. own \in SUBSET (1..Len(lingers)) /\ Len(lingers) \in Nat /\ lingers \in Seq(Bus)
      BY <1>2 DEF Typed
    <3>2. at \in own
      <4> DEFINE back == {Len(lingers) - j : j \in own}
      <4>1. back \in SUBSET Nat /\ back # {}
        BY <2>2, <3>1
      <4> HIDE DEF own
      <4>2. PICK m \in back : \A n \in back : m <= n
        BY <4>1, LeastNat
      <4>3. PICK j \in own : m = Len(lingers) - j
        OBVIOUS
      <4>4. \A k \in own : k <= j
        <5> TAKE k \in own
        <5>1. Len(lingers) - j <= Len(lingers) - k
          BY <4>2, <4>3
        <5> QED
          BY <3>1, <5>1
      <4> QED
        BY <4>4
    <3> HIDE DEF own, at
    <3>3. at \in 1..Len(lingers)
      BY <3>1, <3>2
    <3>4. RemoveAt(lingers, at) \in Seq(Bus)
      BY <3>1, <3>3 DEF RemoveAt
    <3> QED
      BY <1>1, <2>2, <3>4 DEF at
  <2> QED
    BY <2>1, <2>2
<1>6. clears = 0 => lingers' = <<>>
  <2>1. CASE lingers = <<>>
    BY <1>1, <2>1
  <2>2. CASE lingers = <<current>>
    <3>1. own = {1}
      BY <2>2
    <3>2. (CHOOSE j \in own : \A k \in own : k <= j) = 1
      BY <3>1
    <3>3. RemoveAt(lingers, 1) = <<>>
      BY <2>2 DEF RemoveAt
    <3> QED
      BY <1>1, <3>1, <3>2, <3>3
  <2> QED
    BY <1>2, <2>1, <2>2 DEF OneLinger
<1>7. Typed'
  BY <1>1, <1>2, <1>3, <1>5 DEF Typed
<1>8. OneLinger' /\ ConnectedIsHeard' /\ HeartbeatHasBus'
  BY <1>1, <1>2, <1>6 DEF OneLinger, ConnectedIsHeard, HeartbeatHasBus
<1>9. Attached' /\ StreamsShow'
  BY <1>1, <1>2, <1>3, Parameters DEF Attached, StreamsShow
<1> QED
  BY <1>4, <1>7, <1>8, <1>9 DEF SseInv

(* Every step keeps the invariant.                                         *)
LEMMA NextKeeps == SseInv /\ [Next]_vars => SseInv'
<1> SUFFICES ASSUME SseInv, [Next]_vars PROVE SseInv'
  OBVIOUS
<1>1. CASE PublishStateChange \/ PublishError \/ Heartbeat
  <2>1. 1 \in 1..2
    OBVIOUS
  <2> QED
    BY <1>1, <2>1, PublishingKeeps DEF PublishStateChange, PublishError, Heartbeat
<1>2. CASE UNCHANGED vars
  BY <1>2 DEF vars, SseInv, Typed, BufferHoldsTheLast, OneLinger, ConnectedIsHeard,
              Connected, HeartbeatHasBus, Attached, StreamsShow
<1> QED
  BY <1>1, <1>2, PublishTerminalKeeps, ClearKeeps, LingerEndsKeeps, ConnectKeeps,
     DisconnectKeeps, DestroyKeeps DEF Next

-----------------------------------------------------------------------------
(* The inductive invariant is an invariant.                                *)
THEOREM BusesHold == Spec => []SseInv
BY InitHolds, NextKeeps, PTL DEF Spec

(* The types of SseManager: no buffer outgrows BUFFER_SIZE.                *)
THEOREM BusesTyped == Spec => []TypeOK
<1>1. Typed /\ BufferHoldsTheLast => \A b \in Bus : Len(bus[b].buffer) <= BufferSize
  BY Parameters DEF Typed, BufferHoldsTheLast, Entry
<1>2. SseInv => TypeOK
  BY <1>1 DEF SseInv, Typed, TypeOK, Entry, Stream
<1> QED
  BY <1>2, BusesHold, PTL

(* getEventsSince and subscribe: a stream, across reconnections to the     *)
(* same bus, shows what the bus still holds, in order and once.            *)
THEOREM StreamsAreComplete == Spec => []StreamIsComplete
<1>1. SseInv => StreamIsComplete
  <2> SUFFICES ASSUME SseInv, NEW c \in Client, NEW b, b = client[c].on, b # None,
                      client[c].from = b, c \in bus[b].listeners,
                      NEW j \in DOMAIN bus[b].buffer,
                      bus[b].buffer[j] >= Head(client[c].received)
               PROVE  /\ Len(bus[b].buffer) - j < Len(client[c].received)
                      /\ client[c].received[Len(client[c].received) - (Len(bus[b].buffer) - j)]
                           = bus[b].buffer[j]
    BY DEF StreamIsComplete, Connected
  <2> DEFINE held == bus[b].buffer
             next == bus[b].nextId
             kept == Len(held)
             stream == client[c].received
             id == held[j]
  <2>1. b \in Bus /\ held \in Seq(Nat) /\ next \in Nat /\ stream \in Seq(Nat)
    BY DEF SseInv, Typed, Entry, Stream
  <2>2. kept \in Nat /\ j \in 1..kept /\ id \in Nat /\ BufferSize \in Nat
    <3>1. kept \in Nat /\ j \in 1..kept
      BY <2>1
    <3>2. id \in Nat
      BY <2>1, <3>1
    <3> QED
      BY <3>1, <3>2, Parameters
  <2>3. /\ kept = IF next < BufferSize THEN next ELSE BufferSize
        /\ id = next - kept + j - 1
    BY <2>1, <2>2 DEF SseInv, BufferHoldsTheLast
  <2>4. Shows(stream, next) /\ Last(stream) = next - 1
    BY <2>1 DEF SseInv, StreamsShow
  <2>5. Head(stream) <= id
    <3>1. Head(stream) \in Nat
      BY <2>1, <2>4 DEF Shows
    <3> QED
      BY <2>2, <3>1
  <2> HIDE DEF held, next, kept, stream, id
  <2>6. next - BufferSize <= id /\ id <= Last(stream) /\ Last(stream) - id = kept - j
    BY <2>1, <2>2, <2>3, <2>4
  <2>7. Last(stream) - id < Len(stream) /\ stream[Len(stream) - (Last(stream) - id)] = id
    BY <2>2, <2>4, <2>5, <2>6 DEF Shows
  <2>8. kept - j < Len(stream) /\ stream[Len(stream) - (kept - j)] = id
    BY <2>6, <2>7
  <2> QED
    BY <2>8 DEF held, kept, stream, id
<1> QED
  BY <1>1, BusesHold, PTL

(* publish and its ring buffer: however the events of a bus come about, it *)
(* holds the last BUFFER_SIZE of them.                                     *)
THEOREM BuffersHold == Spec => []BufferHoldsTheLast
<1>1. SseInv => BufferHoldsTheLast
  BY DEF SseInv
<1> QED
  BY <1>1, BusesHold, PTL

(* A client of an active instance that was never cleared is a listener of  *)
(* the bus in the map.                                                     *)
THEOREM ConnectionsAreHeard == Spec => []ConnectedIsHeard
<1>1. SseInv => ConnectedIsHeard
  BY DEF SseInv
<1> QED
  BY <1>1, BusesHold, PTL

(* The bus of an instance that was never cleared stays in the map until    *)
(* its timeout.                                                            *)
THEOREM LingeringKeepsBus == Spec => []LingerKeepsBus
<1>1. SseInv => LingerKeepsBus
  BY DEF SseInv, OneLinger, LingerKeepsBus, ToSet
<1> QED
  BY <1>1, BusesHold, PTL

(* No heartbeat of an instance that was never cleared outlives its bus.    *)
THEOREM HeartbeatsHaveBus == Spec => []HeartbeatHasBus
<1>1. SseInv => HeartbeatHasBus
  BY DEF SseInv
<1> QED
  BY <1>1, BusesHold, PTL
=============================================================================
