-------------------------- MODULE Positions_proofs --------------------------
(***************************************************************************)
(* Theorems about Positions, for any assets, trades and carried positions, *)
(* and with updates that overtake each other.                              *)
(*                                                                         *)
(* A loop of handlePnlInfo keeps the latest value by its time stamp. Why   *)
(* that is enough, although updates of every asset move the stamp of the   *)
(* account and some bring no value: the stamp passes that of the last      *)
(* change only after the change was taken, since an update without a value *)
(* overtakes none.                                                         *)
(***************************************************************************)
EXTENDS Positions, FiniteSetTheorems, SequenceTheorems, TLAPS

(* The trades since the login.                                             *)
Charged == Cardinality(filled \ Earlier)

-----------------------------------------------------------------------------
(* What is under way. *)

InQueue(v) == \E i \in 1..Len(updates) : \E j \in 1..Len(updates[i]) : v = updates[i][j]

(* What the running callback has still to do: for the account, and for the *)
(* assets.                                                                 *)
ToBook(v) == \E j \in 1..Len(cb.infos) : (cb.pc = "position" => j # 1) /\ v = cb.infos[j]
ToPlace(v) == \E j \in 1..Len(cb.infos) : v = cb.infos[j]

(* Updates are queued by their time stamps, and one without a value comes  *)
(* alone.                                                                  *)
Queue ==
    /\ updates \in Seq(Seq(Info))
    /\ \A i \in 1..Len(updates) : updates[i] # << >>
    /\ \A i, k \in 1..Len(updates) : i < k =>
          \A j \in 1..Len(updates[i]), l \in 1..Len(updates[k]) : updates[i][j].ts < updates[k][l].ts
    /\ \A i \in 1..Len(updates) : \A j \in 1..Len(updates[i]) :
          /\ updates[i][j].held = "Ignore" <=> updates[i][1].held = "Ignore"
          /\ updates[i][j].held = "Ignore" <=> updates[i][j].balanced = "Ignore"
          /\ updates[i][j].ts <= time

Running ==
    /\ cb \in [pc : {"idle", "pnl", "position"}, infos : Seq(Info)]
    /\ cb.pc = "idle" <=> cb.infos = << >>
    /\ \A j \in 1..Len(cb.infos) :
          /\ cb.infos[j].held = "Ignore" <=> cb.infos[j].balanced = "Ignore"
          /\ cb.infos[j].ts <= time
    /\ cb.pc = "position" => cb.infos[1].asset \in known

(* A position is at most the carried one and all trades of the session.    *)
Exchange ==
    /\ net \in [Assets -> Int]
    /\ \A a \in Assets : -(Charged + 1) <= net[a] /\ net[a] <= Charged + 1
    /\ Earlier \subseteq filled /\ filled \subseteq Trades
    /\ time \in 1..MaxTime /\ watched \in BOOLEAN

Books ==
    /\ known \subseteq Assets
    /\ lines \subseteq filled /\ exec \subseteq filled
    /\ filled \cap Own \subseteq lines \cup exec
    /\ position \in [Assets -> Position] /\ pnl \in PnL
    /\ pnl.ts <= time /\ \A a \in Assets : position[a].ts <= time

Types == Exchange /\ Queue /\ Running /\ Books

-----------------------------------------------------------------------------
LEMMA Charges ==
    ASSUME filled \subseteq Trades
    PROVE  /\ Cardinality(Trades) \in Nat /\ Charged \in 0..Cardinality(Trades)
           /\ Balance = Opening + Charged /\ Balance \in Balances /\ Balances \subseteq Nat
           /\ \A t \in Trades \ filled :
                 /\ Cardinality((filled \cup {t}) \ Earlier) = IF t \in Earlier THEN Charged ELSE Charged + 1
                 /\ Cardinality((filled \cup {t}) \ Earlier) \in 0..Cardinality(Trades)
<1>1. \A S \in SUBSET Trades : IsFiniteSet(S) /\ Cardinality(S) \in 0..Cardinality(Trades)
  BY FiniteAssumption, FS_Subset, FS_CardinalityType
<1>2. Cardinality(Trades) \in Nat
  BY FiniteAssumption, FS_CardinalityType
<1>3. ASSUME NEW t \in Trades \ filled
      PROVE  Cardinality((filled \cup {t}) \ Earlier) = IF t \in Earlier THEN Charged ELSE Charged + 1
  <2>1. CASE t \in Earlier
    <3>1. (filled \cup {t}) \ Earlier = filled \ Earlier
      BY <2>1
    <3> QED
      BY <2>1, <3>1 DEF Charged
  <2>2. CASE t \notin Earlier
    <3>1. (filled \cup {t}) \ Earlier = (filled \ Earlier) \cup {t}
      BY <2>2
    <3>2. IsFiniteSet(filled \ Earlier) /\ t \notin filled \ Earlier
      BY <1>1
    <3> QED
      BY <2>2, <3>1, <3>2, FS_AddElement DEF Charged
  <2> QED
    BY <2>1, <2>2
<1>4. Charged \in 0..Cardinality(Trades)
  BY <1>1 DEF Charged
<1>5. \A t \in Trades \ filled : Cardinality((filled \cup {t}) \ Earlier) \in 0..Cardinality(Trades)
  BY <1>1
<1>6. Balance = Opening + Charged /\ Balance \in Balances /\ Balances \subseteq Nat
  BY <1>2, <1>4, OpeningAssumption DEF Balance, Charged, Balances
<1> QED
  BY <1>2, <1>3, <1>4, <1>5, <1>6

LEMMA RemovedAt ==
    ASSUME NEW S, NEW s \in Seq(S), NEW i \in 1..Len(s)
    PROVE  /\ RemoveAt(s, i) \in Seq(S)
           /\ Len(RemoveAt(s, i)) = Len(s) - 1
           /\ \A k \in 1..Len(s) - 1 : RemoveAt(s, i)[k] = IF k < i THEN s[k] ELSE s[k + 1]
<1> DEFINE front == SubSeq(s, 1, i - 1)
           back == SubSeq(s, i + 1, Len(s))
<1>1. Len(s) \in Nat /\ i \in Nat /\ \A k \in 1..Len(s) : s[k] \in S
  OBVIOUS
<1>2. front \in Seq(S) /\ Len(front) = i - 1 /\ \A k \in 1..i - 1 : front[k] = s[k]
  OBVIOUS
<1>3. back = [k \in 1..(Len(s) - i) |-> s[i + k]]
  <2>1. back = [k \in 1..((Len(s) - (i + 1)) + 1) |-> s[((i + 1) + k) - 1]]
    OBVIOUS
  <2>2. (Len(s) - (i + 1)) + 1 = Len(s) - i /\ \A k \in Int : ((i + 1) + k) - 1 = i + k
    BY <1>1
  <2> QED
    BY <2>1, <2>2
<1>4. \A k \in 1..(Len(s) - i) : i + k \in 1..Len(s)
  BY <1>1
<1>5. back \in Seq(S) /\ Len(back) = Len(s) - i /\ \A k \in 1..(Len(s) - i) : back[k] = s[i + k]
  BY <1>1, <1>3, <1>4
<1>6. RemoveAt(s, i) = front \o back
  BY DEF RemoveAt
<1> HIDE DEF front, back
<1>7. front \o back \in Seq(S) /\ Len(front \o back) = Len(s) - 1
  <2>1. front \o back \in Seq(S) /\ Len(front \o back) = Len(front) + Len(back)
    BY <1>2, <1>5, ConcatProperties
  <2>2. (i - 1) + (Len(s) - i) = Len(s) - 1
    BY <1>1
  <2> QED
    BY <1>2, <1>5, <2>1, <2>2
<1>8. ASSUME NEW k \in 1..Len(s) - 1
      PROVE  (front \o back)[k] = IF k < i THEN s[k] ELSE s[k + 1]
  <2>1. CASE k < i
    BY <1>1, <1>2, <1>5, <2>1
  <2>2. CASE ~(k < i)
    <3>1. k - (i - 1) \in 1..(Len(s) - i) /\ i + (k - (i - 1)) = k + 1
      BY <1>1, <2>2
    <3>2. (front \o back)[k] = back[k - (i - 1)]
      BY <1>1, <1>2, <1>5, <2>2
    <3> QED
      BY <1>5, <2>2, <3>1, <3>2
  <2> QED
    BY <2>1, <2>2
<1> QED
  BY <1>6, <1>7, <1>8

(* News comes last in the queue.                                           *)
LEMMA Queued ==
    ASSUME Queue, time \in Nat, NEW news \in Info, news.ts = time + 1, time' = time + 1,
           news.held = "Ignore" <=> news.balanced = "Ignore",
           updates' = Append(updates, <<news>>)
    PROVE  Queue' /\ \A v : InQueue(v)' <=> InQueue(v) \/ v = news
<1> DEFINE n == Len(updates)
<1>1. /\ n \in Nat /\ Len(updates') = n + 1 /\ updates' \in Seq(Seq(Info))
      /\ \A i \in 1..n : updates'[i] = updates[i] /\ updates[i] \in Seq(Info)
      /\ updates'[n + 1] = <<news>>
  BY DEF Queue
<1>2. Len(<<news>>) = 1 /\ <<news>>[1] = news /\ <<news>> # << >>
  OBVIOUS
<1>3. \A i \in 1..n + 1 : i \in 1..n \/ i = n + 1
  BY <1>1
<1>4. \A i \in 1..n : \A j \in 1..Len(updates[i]) : updates[i][j] \in Info /\ updates[i][j].ts <= time
  BY <1>1 DEF Queue
<1>5. \A i \in 1..n : \A j \in 1..Len(updates[i]) : updates[i][j].ts \in Nat
  BY <1>4, TimeAssumption DEF Info
<1> HIDE DEF n
<1>6. ASSUME NEW i \in 1..n + 1, NEW k \in 1..n + 1, i < k,
             NEW j \in 1..Len(updates'[i]), NEW l \in 1..Len(updates'[k])
      PROVE  updates'[i][j].ts < updates'[k][l].ts
  <2>1. i \in 1..n
    BY <1>1, <1>6
  <2>2. CASE k \in 1..n
    BY <1>1, <1>6, <2>1, <2>2 DEF Queue, n
  <2>3. CASE k = n + 1
    <3>1. updates'[k][l] = news /\ updates'[i][j] = updates[i][j] /\ j \in 1..Len(updates[i])
      BY <1>1, <1>2, <1>6, <2>1, <2>3
    <3>2. updates[i][j].ts <= time /\ updates[i][j].ts \in Nat
      BY <1>4, <1>5, <2>1, <3>1
    <3>3. updates[i][j].ts < news.ts
      BY <3>2
    <3> QED
      BY <3>1, <3>3
  <2> QED
    BY <1>3, <2>2, <2>3
<1>7. ASSUME NEW i \in 1..n + 1, NEW j \in 1..Len(updates'[i])
      PROVE  /\ updates'[i] # << >>
             /\ updates'[i][j].held = "Ignore" <=> updates'[i][1].held = "Ignore"
             /\ updates'[i][j].held = "Ignore" <=> updates'[i][j].balanced = "Ignore"
             /\ updates'[i][j].ts <= time'
  <2>1. CASE i \in 1..n
    <3>1. updates'[i] = updates[i] /\ updates[i][j].ts <= time /\ updates[i][j].ts \in Nat
      BY <1>1, <1>4, <1>5, <1>7, <2>1
    <3> QED
      BY <1>7, <2>1, <3>1 DEF Queue, n
  <2>2. CASE i = n + 1
    <3>1. updates'[i] = <<news>> /\ j = 1 /\ updates'[i][j] = news
      BY <1>1, <1>2, <1>7, <2>2
    <3>2. news.ts <= time'
      OBVIOUS
    <3> QED
      BY <1>2, <3>1, <3>2
  <2> QED
    BY <1>3, <2>1, <2>2
<1>8. \A i \in 1..n + 1 : updates'[i] # << >>
  BY <1>1, <1>2, <1>3 DEF Queue, n
<1>9. Queue'
  BY <1>1, <1>6, <1>7, <1>8 DEF Queue
<1>10. ASSUME NEW v
       PROVE  InQueue(v)' <=> InQueue(v) \/ v = news
  <2>1. ASSUME InQueue(v)'
        PROVE  InQueue(v) \/ v = news
    <3>1. PICK i \in 1..n + 1 : \E j \in 1..Len(updates'[i]) : v = updates'[i][j]
      BY <1>1, <2>1 DEF InQueue
    <3>2. CASE i \in 1..n
      BY <1>1, <3>1, <3>2 DEF InQueue, n
    <3>3. CASE i = n + 1
      BY <1>1, <1>2, <3>1, <3>3
    <3> QED
      BY <1>3, <3>2, <3>3
  <2>2. ASSUME InQueue(v)
        PROVE  InQueue(v)'
    <3>1. PICK i \in 1..n : \E j \in 1..Len(updates[i]) : v = updates[i][j]
      BY <2>2 DEF InQueue, n
    <3>2. i \in 1..n + 1 /\ updates'[i] = updates[i]
      BY <1>1
    <3> QED
      BY <1>1, <3>1, <3>2 DEF InQueue
  <2>3. InQueue(news)'
    <3>1. n + 1 \in 1..Len(updates')
      BY <1>1
    <3> QED
      BY <1>1, <1>2, <3>1 DEF InQueue
  <2> QED
    BY <2>1, <2>2, <2>3
<1> QED
  BY <1>9, <1>10

(* A callback takes its updates from the queue. If they have no values,    *)
(* they are older than any update with a value that stays.                 *)
LEMMA Delivered ==
    ASSUME Types, NEW i \in DOMAIN updates, PnlCallback(i)
    PROVE  /\ Queue' /\ Running'
           /\ \A v : ~ToPlace(v) /\ ~ToBook(v)
           /\ \A v : ToPlace(v)' <=> ToBook(v)'
           /\ \A v : InQueue(v) <=> InQueue(v)' \/ ToPlace(v)'
           /\ \A v, w : ToPlace(v)' /\ v.held = "Ignore" /\ InQueue(w)
                          => w.held = "Ignore" \/ v.ts < w.ts
<1> DEFINE n == Len(updates)
<1>1. /\ updates \in Seq(Seq(Info)) /\ n \in Nat /\ i \in 1..n
      /\ \A k \in 1..n : updates[k] \in Seq(Info)
  BY DEF Types, Queue
<1>2. /\ updates' \in Seq(Seq(Info)) /\ Len(updates') = n - 1
      /\ \A k \in 1..n - 1 : updates'[k] = IF k < i THEN updates[k] ELSE updates[k + 1]
  BY <1>1, RemovedAt DEF PnlCallback
<1>3. cb' = [pc |-> "pnl", infos |-> updates[i]] /\ cb.infos = << >> /\ UNCHANGED <<time, known>>
  BY DEF PnlCallback, exchange, Types, Running
<1> DEFINE old(k) == IF k < i THEN k ELSE k + 1
<1>4. \A k \in 1..n - 1 : old(k) \in 1..n /\ updates'[k] = updates[old(k)]
  <2>1. \A k \in 1..n - 1 : old(k) \in 1..n
    BY <1>1
  <2>2. \A k \in 1..n - 1 : updates'[k] = updates[old(k)]
    BY <1>2
  <2> QED
    BY <2>1, <2>2
<1>5. \A k, l \in 1..n - 1 : k < l => old(k) < old(l)
  BY <1>1
<1>6. \A k \in 1..n : k = i \/ \E l \in 1..n - 1 : k = old(l)
  <2> SUFFICES ASSUME NEW k \in 1..n, k # i
               PROVE  \E l \in 1..n - 1 : k = old(l)
    OBVIOUS
  <2>1. CASE k < i
    <3>1. k \in 1..n - 1 /\ k = old(k)
      BY <1>1, <2>1
    <3> QED
      BY <3>1
  <2>2. CASE k > i
    <3>1. k - 1 \in 1..n - 1 /\ k = old(k - 1)
      BY <1>1, <2>2
    <3> QED
      BY <3>1
  <2> QED
    BY <1>1, <2>1, <2>2
<1> HIDE DEF n, old
<1>7. Queue'
  <2>1. ASSUME NEW k \in 1..n - 1, NEW l \in 1..n - 1, k < l,
               NEW j \in 1..Len(updates'[k]), NEW m \in 1..Len(updates'[l])
        PROVE  updates'[k][j].ts < updates'[l][m].ts
    <3>1. old(k) \in 1..n /\ old(l) \in 1..n /\ old(k) < old(l)
          /\ updates'[k] = updates[old(k)] /\ updates'[l] = updates[old(l)]
      BY <1>4, <1>5, <2>1
    <3> QED
      BY <2>1, <3>1 DEF Types, Queue, n
  <2>2. ASSUME NEW k \in 1..n - 1
        PROVE  /\ updates'[k] # << >>
               /\ \A j \in 1..Len(updates'[k]) :
                     /\ updates'[k][j].held = "Ignore" <=> updates'[k][1].held = "Ignore"
                     /\ updates'[k][j].held = "Ignore" <=> updates'[k][j].balanced = "Ignore"
                     /\ updates'[k][j].ts <= time
    <3>1. old(k) \in 1..n /\ updates'[k] = updates[old(k)]
      BY <1>4
    <3> QED
      BY <3>1 DEF Types, Queue, n
  <2> QED
    BY <1>2, <1>3, <2>1, <2>2 DEF Queue
<1>8. Running'
  <2>1. updates[i] \in Seq(Info) /\ updates[i] # << >>
    BY <1>1 DEF Types, Queue, n
  <2> QED
    BY <1>1, <1>3, <2>1 DEF Types, Queue, Running, n
<1>9. \A v : ~ToPlace(v) /\ ~ToBook(v)
  BY <1>3 DEF ToPlace, ToBook
<1>10. \A v : (ToPlace(v)' <=> ToBook(v)') /\ (ToPlace(v)' <=> \E j \in 1..Len(updates[i]) : v = updates[i][j])
  BY <1>3 DEF ToPlace, ToBook
<1>11. ASSUME NEW v
       PROVE  InQueue(v) <=> InQueue(v)' \/ ToPlace(v)'
  <2>1. InQueue(v)' <=> \E l \in 1..n - 1 : \E j \in 1..Len(updates[old(l)]) : v = updates[old(l)][j]
    BY <1>2, <1>4 DEF InQueue
  <2>2. ASSUME InQueue(v)
        PROVE  InQueue(v)' \/ ToPlace(v)'
    <3>1. PICK k \in 1..n : \E j \in 1..Len(updates[k]) : v = updates[k][j]
      BY <2>2 DEF InQueue, n
    <3>2. CASE k = i
      BY <1>10, <3>1, <3>2
    <3>3. ASSUME NEW l \in 1..n - 1, k = old(l)
          PROVE  InQueue(v)'
      BY <2>1, <3>1, <3>3
    <3> QED
      BY <1>6, <3>2, <3>3
  <2>3. ASSUME InQueue(v)'
        PROVE  InQueue(v)
    BY <1>4, <2>1, <2>3 DEF InQueue, n
  <2>4. ASSUME ToPlace(v)'
        PROVE  InQueue(v)
    BY <1>1, <1>10, <2>4 DEF InQueue, n
  <2> QED
    BY <2>2, <2>3, <2>4
<1>12. ASSUME NEW v, NEW w, ToPlace(v)', v.held = "Ignore", InQueue(w)
       PROVE  w.held = "Ignore" \/ v.ts < w.ts
  <2>1. PICK j \in 1..Len(updates[i]) : v = updates[i][j]
    BY <1>10, <1>12
  <2>2. PICK k \in 1..n : \E l \in 1..Len(updates[k]) : w = updates[k][l]
    BY <1>12 DEF InQueue, n
  <2>3. updates[i][1].held = "Ignore"
    BY <1>1, <1>12, <2>1 DEF Types, Queue, n
  <2>4. i = 1
    BY <2>3 DEF PnlCallback, Deliverable
  <2>5. CASE k = 1
    BY <2>2, <2>3, <2>4, <2>5 DEF Types, Queue, n
  <2>6. CASE k > 1
    BY <1>1, <2>1, <2>2, <2>4, <2>6 DEF Types, Queue, n
  <2> QED
    BY <2>2, <2>5, <2>6
<1> QED
  BY <1>7, <1>8, <1>9, <1>10, <1>11, <1>12

(* The callback goes on to its next update, or ends.                       *)
LEMMA GoesOn ==
    ASSUME Types, cb.pc # "idle", cb' = Infos(Tail(cb.infos)), UNCHANGED <<time, known, updates>>
    PROVE  /\ Queue' /\ Running'
           /\ \A v : ToPlace(v)' <=> \E j \in 1..Len(cb.infos) : j # 1 /\ v = cb.infos[j]
           /\ \A v : ToPlace(v)' <=> ToBook(v)'
           /\ \A v : InQueue(v)' <=> InQueue(v)
<1> DEFINE rest == Tail(cb.infos)
           n == Len(cb.infos)
<1>1. cb.infos \in Seq(Info) /\ n \in Nat /\ n # 0
  BY DEF Types, Running
<1>2. /\ rest \in Seq(Info) /\ Len(rest) = n - 1
      /\ \A j \in 1..n - 1 : rest[j] = cb.infos[j + 1]
  BY <1>1
<1> HIDE DEF rest
<1>3. cb'.infos = rest /\ cb'.pc = (IF rest = << >> THEN "idle" ELSE "pnl")
      /\ cb' \in [pc : {"idle", "pnl", "position"}, infos : Seq(Info)]
  BY <1>2 DEF Infos, CallbackIdle, rest
<1>4. \A j \in 1..n - 1 : j + 1 \in 1..n
  BY <1>1
<1>5. Running'
  BY <1>2, <1>3, <1>4 DEF Types, Running
<1>6. Queue' /\ \A v : InQueue(v)' <=> InQueue(v)
  BY DEF Types, Queue, InQueue
<1>7. ASSUME NEW v
      PROVE  ToPlace(v)' <=> \E j \in 1..n : j # 1 /\ v = cb.infos[j]
  <2>1. ToPlace(v)' <=> \E j \in 1..n - 1 : v = cb.infos[j + 1]
    BY <1>2, <1>3 DEF ToPlace
  <2>2. \A j \in 1..n : j # 1 => j - 1 \in 1..n - 1 /\ (j - 1) + 1 = j
    BY <1>1
  <2>3. \A j \in 1..n - 1 : j + 1 \in 1..n /\ j + 1 # 1
    BY <1>1
  <2> QED
    BY <2>1, <2>2, <2>3
<1>8. \A v : ToPlace(v)' <=> ToBook(v)'
  BY <1>3 DEF ToPlace, ToBook
<1> QED
  BY <1>5, <1>6, <1>7, <1>8

-----------------------------------------------------------------------------
(* Types. *)

LEMMA InfoTypes ==
    ASSUME NEW info \in Info
    PROVE  /\ info.asset \in Assets /\ info.ts \in Nat \ {0} /\ info.ts \in 0..MaxTime
           /\ info.held \in States /\ info.balanced \in States
           /\ info.qty \in Quantities /\ info.balance \in Balances
  BY TimeAssumption DEF Info

LEMMA FillIsTyped ==
    ASSUME Types, NEW t \in Trades, Fill(t)
    PROVE  \E news \in Info :
             /\ news.asset = AssetOf[t] /\ news.ts = time + 1 /\ time' = time + 1
             /\ news.held # "Ignore" /\ news.balanced = "Use" /\ news.balance = Balance'
             /\ (IF news.held = "Use" THEN news.qty ELSE 0) = net'[AssetOf[t]]
             /\ updates' = Append(updates, <<news>>)
             /\ Exchange'
<1> DEFINE a == AssetOf[t]
           q == IF Side[t] = "Buy" THEN net[a] + 1 ELSE net[a] - 1
           news == [asset |-> a, ts |-> time + 1, held |-> IF q = 0 THEN "Clear" ELSE "Use",
                    qty |-> q, balanced |-> "Use", balance |-> Balance + 1]
<1>1. /\ net' = [net EXCEPT ![a] = q] /\ updates' = Append(updates, <<news>>)
      /\ filled' = filled \cup {t} /\ time' = time + 1 /\ time < MaxTime /\ t \notin filled
      /\ watched' \in BOOLEAN
  BY DEF Fill
<1>2. t \notin Earlier /\ a \in Assets /\ filled \subseteq Trades
  BY <1>1, TradeAssumption DEF Types, Exchange
<1>3. Charged' = Charged + 1 /\ Charged' \in 0..Cardinality(Trades)
      /\ Charged \in 0..Cardinality(Trades) /\ Cardinality(Trades) \in Nat
      /\ Balance' = Balance + 1 /\ Balance + 1 \in Balances
  <2>1. Charged' = Charged + 1 /\ Charged' \in 0..Cardinality(Trades)
        /\ Charged \in 0..Cardinality(Trades) /\ Cardinality(Trades) \in Nat
    BY <1>1, <1>2, Charges DEF Charged
  <2>2. Balance = Opening + Charged /\ Balance' = Opening + Charged'
    BY DEF Balance, Charged
  <2> QED
    BY <2>1, <2>2, OpeningAssumption DEF Balances
<1>4. net[a] \in Int /\ -(Charged + 1) <= net[a] /\ net[a] <= Charged + 1
  BY <1>2 DEF Types, Exchange
<1>5. q \in Int /\ -(Charged' + 1) <= q /\ q <= Charged' + 1
  BY <1>3, <1>4
<1>6. q \in Quantities
  BY <1>3, <1>5 DEF Quantities
<1> HIDE DEF q
<1>7. time \in Nat /\ time + 1 \in 1..MaxTime
  BY <1>1, TimeAssumption DEF Types, Exchange
<1>8. news \in Info
  BY <1>2, <1>3, <1>6, <1>7 DEF Info, States
<1>9. net' \in [Assets -> Int]
  BY <1>1, <1>5 DEF Types, Exchange
<1>10. \A b \in Assets : -(Charged' + 1) <= net'[b] /\ net'[b] <= Charged' + 1
  BY <1>1, <1>3, <1>5 DEF Types, Exchange
<1>11. Exchange'
  BY <1>1, <1>7, <1>9, <1>10 DEF Types, Exchange
<1>12. net'[a] = q
  BY <1>1, <1>2 DEF Types, Exchange
<1> QED
  BY <1>1, <1>3, <1>8, <1>11, <1>12

LEMMA MoveIsTyped ==
    ASSUME Types, NEW a \in Assets, MarketMoves(a)
    PROVE  \E news \in Info :
             /\ news.asset = a /\ news.ts = time + 1 /\ time' = time + 1
             /\ news.held = "Ignore" /\ news.balanced = "Ignore"
             /\ updates' = Append(updates, <<news>>)
<1> DEFINE news == [asset |-> a, ts |-> time + 1, held |-> "Ignore", qty |-> 0,
                    balanced |-> "Ignore", balance |-> 0]
<1>1. Cardinality(Trades) \in Nat
  BY FiniteAssumption, FS_CardinalityType
<1>2. time + 1 \in 1..MaxTime /\ 0 \in Quantities /\ 0 \in Balances
  BY <1>1, TimeAssumption, OpeningAssumption
  DEF MarketMoves, Types, Exchange, Quantities, Balances
<1>3. news \in Info
  BY <1>2 DEF Info, States
<1> QED
  BY <1>3 DEF MarketMoves

LEMMA TypesStep ==
    ASSUME Types, [Next]_vars
    PROVE  Types'
<1>0. time \in Nat /\ time \in 1..MaxTime
  BY TimeAssumption DEF Types, Exchange
<1>1. ASSUME NEW t \in Trades, Fill(t)
      PROVE  Types'
  <2>1. PICK news \in Info :
             /\ news.asset = AssetOf[t] /\ news.ts = time + 1 /\ time' = time + 1
             /\ news.held # "Ignore" /\ news.balanced = "Use"
             /\ updates' = Append(updates, <<news>>)
             /\ Exchange'
    BY <1>1, FillIsTyped
  <2>2. Queue'
    BY <1>0, <2>1, Queued DEF Types
  <2>3. Running'
    BY <1>0, <1>1, <2>1, InfoTypes DEF Fill, Types, Running
  <2>4. Books'
    <3>1. lines' \subseteq filled' /\ exec' \subseteq filled' /\ filled' \cap Own \subseteq lines' \cup exec'
      BY <1>1 DEF Fill, Types, Books, Own
    <3> QED
      BY <1>0, <1>1, <2>1, <3>1, TimeAssumption DEF Fill, Types, Books, PnL, Position
  <2> QED
    BY <2>1, <2>2, <2>3, <2>4 DEF Types
<1>2. ASSUME NEW a \in Assets, MarketMoves(a)
      PROVE  Types'
  <2>1. PICK news \in Info :
             /\ news.ts = time + 1 /\ time' = time + 1
             /\ news.held = "Ignore" /\ news.balanced = "Ignore"
             /\ updates' = Append(updates, <<news>>)
    BY <1>2, MoveIsTyped
  <2>2. Queue'
    BY <1>0, <2>1, Queued DEF Types
  <2>3. Running'
    BY <1>0, <1>2, <2>1, InfoTypes DEF MarketMoves, Types, Running
  <2>4. Books'
    BY <1>0, <1>2, <2>1, TimeAssumption DEF MarketMoves, Types, Books, PnL, Position
  <2>5. Exchange'
    <3>1. UNCHANGED <<net, filled, watched>> /\ Charged' = Charged
      BY <1>2 DEF MarketMoves, Charged
    <3>2. time' \in 1..MaxTime
      BY <1>0, <1>2, <2>1, TimeAssumption DEF MarketMoves
    <3> QED
      BY <3>1, <3>2 DEF Types, Exchange
  <2> QED
    BY <2>2, <2>3, <2>4, <2>5 DEF Types
<1>3. ASSUME NEW a \in Assets, Subscribe(a)
      PROVE  Types'
  <2>1. /\ UNCHANGED <<net, filled, time, watched, lines, updates, position, pnl, exec, cb>>
        /\ known' = known \cup {a}
    BY <1>3 DEF Subscribe, exchange
  <2>2. Exchange' /\ Queue'
    BY <2>1 DEF Types, Exchange, Charged, Queue
  <2>3. Running' /\ Books'
    BY <2>1 DEF Types, Running, Books
  <2> QED
    BY <2>2, <2>3 DEF Types
<1>4. ASSUME NEW t \in Trades, LineUpdate(t) \/ RetrieveOrder(t)
      PROVE  Types'
  <2>1. UNCHANGED <<net, filled, time, watched, updates, known, position, pnl, cb>>
    BY <1>4 DEF LineUpdate, RetrieveOrder, exchange
  <2>2. Exchange' /\ Queue'
    BY <2>1 DEF Types, Exchange, Charged, Queue
  <2>3. Running'
    BY <2>1 DEF Types, Running
  <2>4. lines' \subseteq filled /\ exec' \subseteq filled /\ filled \cap Own \subseteq lines' \cup exec'
    BY <1>4 DEF LineUpdate, RetrieveOrder, Types, Exchange, Books
  <2>5. Books'
    BY <2>1, <2>4 DEF Types, Books
  <2> QED
    BY <2>2, <2>3, <2>5 DEF Types
<1>5. ASSUME NEW i \in DOMAIN updates, PnlCallback(i)
      PROVE  Types'
  <2>1. Queue' /\ Running'
    BY <1>5, Delivered
  <2> QED
    BY <1>5, <2>1 DEF PnlCallback, exchange, Types, Exchange, Charged, Books
<1>6. CASE HandlePnl \/ HandlePosition
  <2> DEFINE info == Head(cb.infos)
  <2>1. cb.infos \in Seq(Info) /\ info = cb.infos[1] /\ info \in Info /\ info.ts <= time
    BY <1>6 DEF HandlePnl, HandlePosition, Types, Running
  <2> HIDE DEF info
  <2>2. UNCHANGED <<exchange, lines, updates, known, exec>>
    BY <1>6 DEF HandlePnl, HandlePosition
  <2>3. Exchange'
    BY <2>2 DEF exchange, Types, Exchange, Charged
  <2>4. Queue' /\ Running'
    <3>1. CASE cb' = Infos(Tail(cb.infos))
      BY <1>6, <2>2, <3>1, GoesOn DEF exchange, HandlePnl, HandlePosition
    <3>2. CASE HandlePnl /\ cb' = [cb EXCEPT !.pc = "position"] /\ PositionFollows(info)
      <4>1. Queue'
        BY <2>2 DEF exchange, Types, Queue
      <4>2. cb'.pc = "position" /\ cb'.infos = cb.infos /\ cb' \in [pc : {"idle", "pnl", "position"}, infos : Seq(Info)]
        BY <3>2 DEF Types, Running
      <4>3. Running'
        BY <2>1, <2>2, <3>2, <4>2 DEF exchange, HandlePnl, PositionFollows, Types, Running
      <4> QED
        BY <4>1, <4>3
    <3> QED
      BY <1>6, <3>1, <3>2 DEF HandlePnl, HandlePosition, info
  <2>5. pnl' \in PnL /\ pnl'.ts <= time
    <3>1. Taken(info.balanced, info.balance, pnl.balance) \in Balances
      <4>1. 0 \in Balances
        BY FiniteAssumption, FS_CardinalityType, OpeningAssumption DEF Balances
      <4> QED
        BY <2>1, <4>1, InfoTypes DEF Taken, States, Types, Books, PnL
    <3>2. CASE HandlePnl
      BY <2>1, <3>1, <3>2, InfoTypes DEF HandlePnl, Types, Books, PnL, info
    <3>3. CASE HandlePosition
      BY <3>3 DEF HandlePosition, Types, Books
    <3> QED
      BY <1>6, <3>2, <3>3
  <2>6. position' \in [Assets -> Position] /\ \A a \in Assets : position'[a].ts <= time
    <3>1. CASE HandlePnl
      BY <3>1 DEF HandlePnl, Types, Books
    <3>2. CASE HandlePosition
      <4>1. position[info.asset] \in Position
        BY <2>1, InfoTypes DEF Types, Books
      <4>2. Taken(info.held, info.qty, position[info.asset].qty) \in Quantities
        <5>1. Cardinality(Trades) \in Nat
          BY FiniteAssumption, FS_CardinalityType
        <5>2. 0 \in Quantities
          BY <5>1 DEF Quantities
        <5> QED
          BY <2>1, <4>1, <5>2, InfoTypes DEF Taken, States, Position
      <4> DEFINE new == [ts |-> info.ts, qty |-> Taken(info.held, info.qty, position[info.asset].qty)]
      <4>3. new \in Position /\ new.ts <= time
        BY <2>1, <4>2, InfoTypes DEF Position
      <4>4. position' \in {position, [position EXCEPT ![info.asset] = new]}
        BY <3>2 DEF HandlePosition, info
      <4> HIDE DEF new
      <4> QED
        BY <4>3, <4>4 DEF Types, Books
    <3> QED
      BY <1>6, <3>1, <3>2
  <2> QED
    <3>1. UNCHANGED <<filled, time, lines, known, exec>>
      BY <2>2 DEF exchange
    <3>2. Books'
      BY <2>5, <2>6, <3>1 DEF Types, Books
    <3> QED
      BY <2>3, <2>4, <3>2 DEF Types
<1>7. CASE UNCHANGED vars
  <2>1. UNCHANGED <<net, filled, time, watched, lines, updates, known, position, pnl, exec, cb>>
    BY <1>7 DEF vars
  <2>2. Exchange' /\ Queue'
    BY <2>1 DEF Types, Exchange, Charged, Queue
  <2>3. Running' /\ Books'
    BY <2>1 DEF Types, Running, Books
  <2> QED
    BY <2>2, <2>3 DEF Types
<1>8. CASE Next
  <2>1. CASE \E t \in Trades : Fill(t) \/ RetrieveOrder(t)
    BY <1>1, <1>4, <2>1
  <2>2. CASE \E a \in Assets : MarketMoves(a) \/ Subscribe(a)
    BY <1>2, <1>3, <2>2
  <2>3. CASE Callback
    BY <1>4, <1>5, <1>6, <2>3 DEF Callback
  <2> QED
    BY <1>8, <2>1, <2>2, <2>3 DEF Next
<1> QED
  BY <1>7, <1>8

LEMMA TypesSuffice ==
    ASSUME Types
    PROVE  TypeOK
<1>1. net \in [Assets -> Quantities]
  <2>1. Cardinality(Trades) \in Nat /\ Charged \in 0..Cardinality(Trades)
    BY Charges DEF Types, Exchange
  <2>2. \A a \in Assets : net[a] \in Quantities
    BY <2>1 DEF Types, Exchange, Quantities
  <2> QED
    BY <2>2 DEF Types, Exchange
<1>2. /\ filled \subseteq Trades /\ lines \subseteq filled /\ exec \subseteq filled
      /\ time \in 1..MaxTime /\ watched \in BOOLEAN /\ known \subseteq Assets
      /\ position \in [Assets -> Position] /\ pnl \in PnL
  BY DEF Types, Exchange, Books
<1>3. \A i \in DOMAIN updates : \A j \in DOMAIN updates[i] : updates[i][j] \in Info
  <2>1. \A i \in DOMAIN updates : updates[i] \in Seq(Info)
    BY DEF Types, Queue
  <2> QED
    BY <2>1
<1>4. cb.pc \in {"idle", "pnl", "position"} /\ \A j \in DOMAIN cb.infos : cb.infos[j] \in Info
  BY DEF Types, Running
<1> QED
  BY <1>1, <1>2, <1>3, <1>4 DEF TypeOK

LEMMA ReplayIsTyped ==
    ASSUME NEW held \in [Assets -> Carried]
    PROVE  /\ Replay(held) \in Seq(Info) /\ Replay(held) # << >>
           /\ \A i \in 1..Len(Replay(held)) :
                 /\ Replay(held)[i].ts = 1 /\ Replay(held)[i].held = "Use"
                 /\ Replay(held)[i].balanced = "Use" /\ Replay(held)[i].balance = Opening
<1> DEFINE n == Cardinality(Assets)
           entry(i) == [asset |-> SetToSeq(Assets)[i], ts |-> 1, held |-> "Use",
                        qty |-> held[SetToSeq(Assets)[i]], balanced |-> "Use", balance |-> Opening]
<1>1. n \in Nat /\ n # 0
  BY AssetAssumption, FS_CardinalityType, FS_EmptySet
<1>2. \A i \in 1..n : SetToSeq(Assets)[i] \in Assets
  <2>1. \E f \in [1..n -> Assets] : IsInjective(f)
    <3>1. ExistsBijection(1..n, Assets)
      BY AssetAssumption, FS_CardinalityType
    <3> QED
      BY <3>1 DEF ExistsBijection, Bijection, Injection, IsInjective
  <2>2. SetToSeq(Assets) \in [1..n -> Assets]
    BY <2>1 DEF SetToSeq
  <2> QED
    BY <2>2
<1>3. Cardinality(Trades) \in Nat
  BY FiniteAssumption, FS_CardinalityType
<1>4. \A i \in 1..n : entry(i) \in Info
  <2> SUFFICES ASSUME NEW i \in 1..n
               PROVE  entry(i) \in Info
    OBVIOUS
  <2>1. SetToSeq(Assets)[i] \in Assets /\ held[SetToSeq(Assets)[i]] \in {-1, 0, 1}
    BY <1>2, CarriedAssumption
  <2>2. held[SetToSeq(Assets)[i]] \in Quantities /\ Opening \in Balances /\ 1 \in 1..MaxTime
    BY <1>3, <2>1, TimeAssumption, OpeningAssumption DEF Quantities, Balances
  <2> QED
    BY <2>1, <2>2 DEF Info, States
<1>5. Replay(held) = [i \in 1..n |-> entry(i)]
  BY DEF Replay
<1> HIDE DEF n
<1>6. Replay(held) \in Seq(Info) /\ Len(Replay(held)) = n
  BY <1>1, <1>4, <1>5
<1> QED
  BY <1>1, <1>5, <1>6

LEMMA TypesInitially ==
    ASSUME Init
    PROVE  Types /\ (\A v : ~ToBook(v) /\ ~ToPlace(v))
           /\ \A v : InQueue(v) => v.ts = 1 /\ v.balanced = "Use" /\ v.balance = Balance
<1>1. filled = Earlier /\ time = 1 /\ watched = FALSE /\ lines = {} /\ exec = {} /\ known = {}
      /\ updates = <<Replay(net)>> /\ cb = CallbackIdle /\ net \in [Assets -> Carried]
      /\ position = [a \in Assets |-> [ts |-> 0, qty |-> 0]] /\ pnl = [ts |-> 0, balance |-> 0]
  BY DEF Init
<1>2. Charged = 0 /\ Cardinality(Trades) \in Nat /\ Balance = Opening /\ 0 \in Balances
  <2>1. filled \ Earlier = {} /\ filled \subseteq Trades
    BY <1>1, EarlierAssumption
  <2>2. Charged = 0
    BY <2>1, FS_EmptySet DEF Charged
  <2> QED
    BY <2>1, <2>2, Charges, OpeningAssumption DEF Balances
<1>3. Exchange
  <2>1. \A a \in Assets : net[a] \in {-1, 0, 1}
    BY <1>1, CarriedAssumption
  <2>2. \A a \in Assets : net[a] \in Int /\ -(0 + 1) <= net[a] /\ net[a] <= 0 + 1
    BY <2>1
  <2>3. 1 \in 1..MaxTime
    BY TimeAssumption
  <2> QED
    BY <1>1, <1>2, <2>2, <2>3, EarlierAssumption DEF Exchange
<1>4. /\ Replay(net) \in Seq(Info) /\ Replay(net) # << >>
      /\ \A i \in 1..Len(Replay(net)) :
            /\ Replay(net)[i].ts = 1 /\ Replay(net)[i].held = "Use"
            /\ Replay(net)[i].balanced = "Use" /\ Replay(net)[i].balance = Opening
  BY <1>1, ReplayIsTyped
<1>5. Len(updates) = 1 /\ updates[1] = Replay(net) /\ updates \in Seq(Seq(Info))
  BY <1>1, <1>4
<1>6. Queue
  <2>1. 1 \in 1..Len(updates[1])
    BY <1>4, <1>5
  <2> QED
    BY <1>1, <1>4, <1>5, <2>1 DEF Queue
<1>7. Running /\ \A v : ~ToBook(v) /\ ~ToPlace(v)
  BY <1>1 DEF CallbackIdle, Running, ToBook, ToPlace
<1>8. Books
  <2>1. [ts |-> 0, qty |-> 0] \in Position /\ [ts |-> 0, balance |-> 0] \in PnL
    BY <1>2, TimeAssumption DEF Position, PnL, Quantities
  <2> QED
    BY <1>1, <2>1 DEF Books, Own
<1>9. \A v : InQueue(v) => v.ts = 1 /\ v.balanced = "Use" /\ v.balance = Balance
  BY <1>2, <1>4, <1>5 DEF InQueue
<1> QED
  BY <1>2, <1>3, <1>6, <1>7, <1>8, <1>9 DEF Types

-----------------------------------------------------------------------------
(* The account. *)

(* An update tells a balance, and which.                                   *)
Tells(v) == v.balanced # "Ignore"
Told(v) == IF v.balanced = "Use" THEN v.balance ELSE 0

(* The balance of the change at last was taken.                            *)
Booked(last) == pnl.balance = Balance /\ last <= pnl.ts

(* last is the time stamp of the last change of the balance, or that of    *)
(* the replay. If its asset was subscribed, the change was taken or is     *)
(* under way, and until it is taken nothing that is being handled passes   *)
(* it.                                                                     *)
BalanceFollows(last) ==
    /\ \A v \in Info : (InQueue(v) \/ ToBook(v)) /\ Tells(v)
          => v.ts <= last /\ (v.ts = last => Told(v) = Balance)
    /\ watched =>
        /\ \/ Booked(last)
           \/ \E v \in Info : (InQueue(v) \/ ToBook(v)) /\ v.balanced = "Use" /\ v.ts = last
                            /\ v.asset \in known
        /\ last <= pnl.ts => pnl.balance = Balance
        /\ \A v \in Info : ToBook(v) /\ ~Tells(v) /\ last <= v.ts => Booked(last)

AccountInv == \E last \in 1..time : BalanceFollows(last)

LEMMA AccountStep ==
    ASSUME Types, AccountInv, [Next]_vars
    PROVE  AccountInv'
<1>0. time \in Nat /\ pnl.ts \in Nat /\ pnl.ts <= time /\ \A v \in Info : v.ts \in Nat /\ 1 <= v.ts
  BY TimeAssumption, InfoTypes DEF Types, Exchange, Books, PnL
<1> PICK last \in 1..time : BalanceFollows(last)
  BY DEF AccountInv
<1>a. \A v : ToBook(v) \/ ToPlace(v) => v \in Info /\ v.ts <= time
                                       /\ (v.held = "Ignore" <=> v.balanced = "Ignore")
  BY DEF Types, Running, ToBook, ToPlace
<1>b. \A v : InQueue(v) => v \in Info /\ v.ts <= time /\ (v.held = "Ignore" <=> v.balanced = "Ignore")
  BY DEF Types, Queue, InQueue
<1>1. ASSUME NEW t \in Trades, Fill(t)
      PROVE  AccountInv'
  <2>1. PICK news \in Info :
             /\ news.asset = AssetOf[t] /\ news.ts = time + 1 /\ time' = time + 1
             /\ news.held # "Ignore" /\ news.balanced = "Use" /\ news.balance = Balance'
             /\ updates' = Append(updates, <<news>>)
    BY <1>1, FillIsTyped
  <2>2. \A v : InQueue(v)' <=> InQueue(v) \/ v = news
    BY <1>0, <2>1, Queued DEF Types
  <2>3. (\A v : ToBook(v)' <=> ToBook(v)) /\ UNCHANGED <<pnl, known>> /\ (watched' => AssetOf[t] \in known)
    BY <1>1 DEF Fill, ToBook
  <2>4. \A v \in Info : (InQueue(v) \/ ToBook(v)) => v.ts < time + 1
    BY <1>0, <1>a, <1>b
  <2>5. ~(time + 1 <= pnl.ts)
    BY <1>0
  <2>6. InQueue(news)' /\ Tells(news) /\ Told(news) = Balance'
    BY <2>1, <2>2 DEF Tells, Told
  <2>7. \A v \in Info : (InQueue(v)' \/ ToBook(v)') /\ Tells(v)
          => v.ts <= time + 1 /\ (v.ts = time + 1 => Told(v) = Balance')
    BY <1>0, <2>1, <2>2, <2>3, <2>4, <2>6
  <2>8. \A v \in Info : ToBook(v)' => ~(time + 1 <= v.ts)
    BY <1>0, <2>3, <2>4
  <2>9. PICK now \in 1..time' : now = time + 1
    BY <1>0, <2>1
  <2>10. BalanceFollows(now)'
    <3>1. watched' => \E v \in Info : (InQueue(v)' \/ ToBook(v)') /\ v.balanced = "Use" /\ v.ts = now
                                     /\ v.asset \in known'
      BY <2>1, <2>3, <2>6, <2>9
    <3> QED
      BY <2>3, <2>5, <2>7, <2>8, <2>9, <3>1 DEF BalanceFollows
  <2> QED
    BY <2>10 DEF AccountInv
<1>2. ASSUME NEW a \in Assets, MarketMoves(a)
      PROVE  AccountInv'
  <2>1. PICK news \in Info :
             /\ news.asset = a /\ news.ts = time + 1 /\ time' = time + 1
             /\ news.held = "Ignore" /\ news.balanced = "Ignore"
             /\ updates' = Append(updates, <<news>>)
    BY <1>2, MoveIsTyped
  <2>2. \A v : InQueue(v)' <=> InQueue(v) \/ v = news
    BY <1>0, <2>1, Queued DEF Types
  <2>3. (\A v : ToBook(v)' <=> ToBook(v)) /\ UNCHANGED <<pnl, known, watched>> /\ Balance' = Balance
    BY <1>2 DEF MarketMoves, ToBook, Balance
  <2>4. BalanceFollows(last)'
    BY <1>0, <2>1, <2>2, <2>3 DEF BalanceFollows, Tells, Booked
  <2> QED
    BY <1>0, <2>1, <2>4 DEF AccountInv
<1>3. ASSUME UNCHANGED <<filled, time, watched, updates, pnl, cb>>, known \subseteq known'
      PROVE  AccountInv'
  <2>1. (\A v : (ToBook(v)' <=> ToBook(v)) /\ (InQueue(v)' <=> InQueue(v))) /\ Balance' = Balance
    BY <1>3 DEF ToBook, InQueue, Balance
  <2>2. BalanceFollows(last)'
    BY <1>3, <2>1 DEF BalanceFollows, Booked
  <2> QED
    BY <1>3, <2>2 DEF AccountInv
<1>4. ASSUME NEW i \in DOMAIN updates, PnlCallback(i)
      PROVE  AccountInv'
  <2>1. /\ \A v : ~ToBook(v)
        /\ \A v : ToPlace(v)' <=> ToBook(v)'
        /\ \A v : InQueue(v) <=> InQueue(v)' \/ ToPlace(v)'
        /\ \A v, w : ToPlace(v)' /\ v.held = "Ignore" /\ InQueue(w)
                       => w.held = "Ignore" \/ v.ts < w.ts
    BY <1>4, Delivered
  <2>2. UNCHANGED <<pnl, known, time, watched>> /\ Balance' = Balance
    BY <1>4 DEF PnlCallback, exchange, Balance
  <2>3. \A v \in Info : (InQueue(v)' \/ ToBook(v)') <=> InQueue(v) \/ ToBook(v)
    BY <2>1
  <2>4. ASSUME watched, NEW v \in Info, ToBook(v)', ~Tells(v), last <= v.ts
        PROVE  Booked(last)
    <3>1. ASSUME NEW w \in Info, InQueue(w), w.balanced = "Use", w.ts = last
          PROVE  FALSE
      <4>1. v.held = "Ignore" /\ w.held # "Ignore"
        BY <1>b, <2>1, <2>4, <3>1 DEF Tells
      <4>2. v.ts < w.ts
        BY <2>1, <2>4, <3>1, <4>1
      <4> QED
        BY <1>0, <2>4, <3>1, <4>2
    <3> QED
      BY <2>1, <2>4, <3>1 DEF BalanceFollows
  <2>5. BalanceFollows(last)'
    BY <2>2, <2>3, <2>4 DEF BalanceFollows, Booked
  <2> QED
    BY <2>2, <2>5 DEF AccountInv
<1>5. CASE HandlePosition
  <2>1. UNCHANGED <<pnl, known, time, watched, updates, filled>> /\ cb.pc = "position"
        /\ cb' = Infos(Tail(cb.infos))
    BY <1>5 DEF HandlePosition, exchange
  <2>2. \A v : InQueue(v)' <=> InQueue(v)
    BY <2>1 DEF InQueue
  <2>3. \A v : ToBook(v)' <=> ToBook(v)
    BY <2>1, GoesOn DEF ToBook
  <2>4. BalanceFollows(last)' /\ UNCHANGED time
    BY <2>1, <2>2, <2>3 DEF BalanceFollows, Booked, Balance
  <2> QED
    BY <2>4 DEF AccountInv
<1>6. CASE HandlePnl
  <2> DEFINE info == Head(cb.infos)
  <2>1. cb.infos \in Seq(Info) /\ info = cb.infos[1] /\ info \in Info /\ 1 \in 1..Len(cb.infos)
    BY <1>6 DEF HandlePnl, Types, Running
  <2>2. UNCHANGED <<known, time, watched, updates, filled>> /\ cb.pc = "pnl" /\ Balance' = Balance
    BY <1>6 DEF HandlePnl, exchange, Balance
  <2>3. ToBook(info) /\ \A v : InQueue(v)' <=> InQueue(v)
    BY <2>1, <2>2 DEF ToBook, InQueue
  <2>4. \A v : (ToBook(v)' => ToBook(v)) /\ (ToBook(v) => ToBook(v)' \/ v = info)
    <3>1. \A v : ToBook(v)' <=> \E j \in 1..Len(cb.infos) : j # 1 /\ v = cb.infos[j]
      <4>1. CASE cb' = Infos(Tail(cb.infos))
        BY <2>2, <4>1, GoesOn
      <4>2. CASE cb' = [cb EXCEPT !.pc = "position"]
        BY <4>2 DEF ToBook, Types, Running
      <4> QED
        BY <1>6, <4>1, <4>2 DEF HandlePnl
    <3> QED
      BY <2>1, <2>2, <3>1 DEF ToBook
  <2>5. pnl' = IF info.asset \notin known \/ pnl.ts > info.ts THEN pnl
               ELSE [ts |-> info.ts, balance |-> Taken(info.balanced, info.balance, pnl.balance)]
    BY <1>6 DEF HandlePnl, Older
  <2> HIDE DEF info
  <2>6. Taken(info.balanced, info.balance, pnl.balance) = IF Tells(info) THEN Told(info) ELSE pnl.balance
    BY <2>1, InfoTypes DEF Taken, Tells, Told, States
  <2>7. info.ts \in Nat /\ last \in Nat /\ 1 <= last /\ 1 <= info.ts
    BY <1>0, <2>1
  <2>8. CASE pnl' = pnl
    <3>1. ASSUME watched, info.asset \in known, info.ts = last
          PROVE  Booked(last)
      <4>1. pnl.ts > info.ts \/ pnl.ts = info.ts
        BY <2>5, <2>8, <3>1
      <4>2. last <= pnl.ts
        BY <1>0, <2>7, <3>1, <4>1
      <4> QED
        BY <3>1, <4>2 DEF BalanceFollows, Booked
    <3>2. BalanceFollows(last)'
      BY <2>2, <2>3, <2>4, <2>8, <3>1 DEF BalanceFollows, Booked
    <3> QED
      BY <2>2, <3>2 DEF AccountInv
  <2>9. CASE info.asset \in known /\ ~(pnl.ts > info.ts)
    <3>1. /\ pnl'.ts = info.ts /\ pnl.ts <= info.ts
          /\ pnl'.balance = IF Tells(info) THEN Told(info) ELSE pnl.balance
      BY <1>0, <2>5, <2>6, <2>7, <2>9
    <3>2. CASE info.ts < last
      <4>1. ~Booked(last)
        BY <1>0, <2>7, <3>1, <3>2 DEF Booked
      <4>2. watched => \E v \in Info : (InQueue(v)' \/ ToBook(v)') /\ v.balanced = "Use" /\ v.ts = last
                            /\ v.asset \in known
        BY <1>0, <2>3, <2>4, <2>7, <3>2, <4>1 DEF BalanceFollows
      <4>3. ~(last <= pnl'.ts)
        BY <2>7, <3>1, <3>2
      <4>4. watched => \A v \in Info : ToBook(v)' /\ ~Tells(v) => ~(last <= v.ts)
        BY <2>4, <4>1 DEF BalanceFollows
      <4> QED
        BY <2>2, <2>3, <2>4, <4>2, <4>3, <4>4 DEF BalanceFollows, AccountInv
    <3>3. CASE ~(info.ts < last)
      <4>1. watched => pnl'.balance = Balance
        <5>1. CASE Tells(info)
          BY <2>1, <2>3, <2>7, <3>1, <3>3, <5>1 DEF BalanceFollows
        <5>2. CASE ~Tells(info)
          BY <2>1, <2>3, <2>7, <3>1, <3>3, <5>2 DEF BalanceFollows, Booked
        <5> QED
          BY <5>1, <5>2
      <4>2. watched => Booked(last)'
        BY <2>2, <2>7, <3>1, <3>3, <4>1 DEF Booked
      <4> QED
        BY <2>2, <2>3, <2>4, <4>1, <4>2 DEF BalanceFollows, AccountInv
    <3> QED
      BY <3>2, <3>3
  <2> QED
    BY <2>5, <2>8, <2>9
<1>7. CASE UNCHANGED vars
  BY <1>3, <1>7 DEF vars
<1>8. CASE Next
  <2>1. CASE \E t \in Trades : LineUpdate(t) \/ RetrieveOrder(t)
    BY <1>3, <2>1 DEF LineUpdate, RetrieveOrder, exchange
  <2>2. CASE \E a \in Assets : Subscribe(a)
    BY <1>3, <2>2 DEF Subscribe, exchange
  <2> QED
    BY <1>1, <1>2, <1>4, <1>5, <1>6, <1>8, <2>1, <2>2 DEF Next, Callback
<1> QED
  BY <1>7, <1>8

LEMMA AccountInitially ==
    ASSUME Init
    PROVE  AccountInv
<1>1. Types /\ (\A v : ~ToBook(v))
      /\ \A v : InQueue(v) => v.ts = 1 /\ v.balanced = "Use" /\ v.balance = Balance
  BY TypesInitially
<1>2. time = 1 /\ watched = FALSE
  BY DEF Init
<1>3. BalanceFollows(1)
  BY <1>1, <1>2 DEF BalanceFollows, Booked, Tells, Told
<1> QED
  BY <1>2, <1>3 DEF AccountInv

-----------------------------------------------------------------------------
(* An asset. *)

(* An update tells a position, and which.                                  *)
Places(v) == v.held # "Ignore"
Placed(v) == IF v.held = "Use" THEN v.qty ELSE 0

UnderWay(v, a) == (InQueue(v) \/ ToPlace(v)) /\ v.asset = a

TradedHere(a) == \E t \in filled \cap Own : AssetOf[t] = a

(* As for the account, and last is 1 while Zorro has not traded the asset. *)
AssetFollows(a, last) ==
    /\ last # 1 <=> TradedHere(a)
    /\ last # 1 =>
        /\ a \in known
        /\ \A v \in Info : UnderWay(v, a) /\ Places(v)
              => v.ts <= last /\ (v.ts = last => Placed(v) = net[a])
        /\ \/ last <= position[a].ts
           \/ \E v \in Info : UnderWay(v, a) /\ Places(v) /\ v.ts = last
        /\ last <= position[a].ts => position[a].qty = net[a]
        /\ \A v \in Info : ToPlace(v) /\ v.asset = a /\ ~Places(v) /\ last <= v.ts
              => last <= position[a].ts

AssetInv(a) == \E last \in 1..time : AssetFollows(a, last)

LEMMA AssetStep ==
    ASSUME Types, NEW a \in Assets, AssetInv(a), [Next]_vars
    PROVE  AssetInv(a)'
<1>0. /\ time \in Nat /\ position[a].ts \in Nat /\ position[a].ts <= time
      /\ \A v \in Info : v.ts \in Nat /\ 1 <= v.ts
  BY TimeAssumption, InfoTypes DEF Types, Exchange, Books, Position
<1> PICK last \in 1..time : AssetFollows(a, last)
  BY DEF AssetInv
<1>a. \A v : ToPlace(v) => v \in Info /\ v.ts <= time
  BY DEF Types, Running, ToPlace
<1>b. \A v : InQueue(v) => v \in Info /\ v.ts <= time
  BY DEF Types, Queue, InQueue
<1>1. ASSUME NEW t \in Trades, Fill(t)
      PROVE  AssetInv(a)'
  <2>1. PICK news \in Info :
             /\ news.asset = AssetOf[t] /\ news.ts = time + 1 /\ time' = time + 1
             /\ news.held # "Ignore"
             /\ (IF news.held = "Use" THEN news.qty ELSE 0) = net'[AssetOf[t]]
             /\ updates' = Append(updates, <<news>>)
             /\ news.balanced = "Use"
    BY <1>1, FillIsTyped
  <2>2. \A v : InQueue(v)' <=> InQueue(v) \/ v = news
    BY <1>0, <2>1, Queued DEF Types
  <2>3. /\ \A v : ToPlace(v)' <=> ToPlace(v)
        /\ UNCHANGED <<position, known>> /\ filled' = filled \cup {t}
        /\ t \in Own => AssetOf[t] \in known
    BY <1>1 DEF Fill, ToPlace, Own
  <2>6. CASE ~TradedHere(a)'
    <3>1. PICK one \in 1..time' : one = 1
      BY <1>0, <2>1
    <3>2. AssetFollows(a, one)'
      BY <2>6, <3>1 DEF AssetFollows
    <3> QED
      BY <3>2 DEF AssetInv
  <2>4. CASE AssetOf[t] = a /\ TradedHere(a)'
    <3>0. a \in known
      BY <2>3, <2>4 DEF TradedHere, AssetFollows
    <3>1. PICK now \in 1..time' : now = time + 1
      BY <1>0, <2>1
    <3>2. TradedHere(a)' /\ a \in known' /\ now # 1 /\ ~(now <= position'[a].ts)
      BY <1>0, <2>3, <2>4, <3>0, <3>1
    <3>3. \A v \in Info : InQueue(v) \/ ToPlace(v) => v.ts < now
      BY <1>0, <1>a, <1>b, <3>1
    <3>4. UnderWay(news, a)' /\ Places(news) /\ Placed(news) = net'[a]
      BY <2>1, <2>2, <2>4 DEF UnderWay, Places, Placed
    <3>5. \A v \in Info : UnderWay(v, a)' /\ Places(v)
            => v.ts <= now /\ (v.ts = now => Placed(v) = net'[a])
      BY <1>0, <2>1, <2>2, <2>3, <3>1, <3>3, <3>4 DEF UnderWay
    <3>6. \A v \in Info : ToPlace(v)' => ~(now <= v.ts)
      BY <1>0, <2>3, <3>1, <3>3
    <3>7. \E v \in Info : UnderWay(v, a)' /\ Places(v) /\ v.ts = now
      BY <2>1, <3>1, <3>4
    <3>8. AssetFollows(a, now)'
      BY <3>2, <3>5, <3>6, <3>7 DEF AssetFollows
    <3> QED
      BY <3>8 DEF AssetInv
  <2>5. CASE AssetOf[t] # a
    <3>1. net'[a] = net[a]
      BY <1>1, <2>5 DEF Fill, Types, Exchange
    <3>2. TradedHere(a)' <=> TradedHere(a)
      BY <2>3, <2>5 DEF TradedHere
    <3>3. \A v : UnderWay(v, a)' <=> UnderWay(v, a)
      BY <2>1, <2>2, <2>3, <2>5 DEF UnderWay
    <3>4. AssetFollows(a, last)'
      BY <2>3, <3>1, <3>2, <3>3 DEF AssetFollows
    <3> QED
      BY <1>0, <2>1, <3>4 DEF AssetInv
  <2> QED
    BY <2>4, <2>5, <2>6
<1>2. ASSUME NEW b \in Assets, MarketMoves(b)
      PROVE  AssetInv(a)'
  <2>1. PICK news \in Info :
             /\ news.asset = b /\ news.ts = time + 1 /\ time' = time + 1
             /\ news.held = "Ignore" /\ news.balanced = "Ignore"
             /\ updates' = Append(updates, <<news>>)
    BY <1>2, MoveIsTyped
  <2>2. \A v : InQueue(v)' <=> InQueue(v) \/ v = news
    BY <1>0, <2>1, Queued DEF Types
  <2>3. (\A v : ToPlace(v)' <=> ToPlace(v)) /\ UNCHANGED <<position, known, net, filled>>
    BY <1>2 DEF MarketMoves, ToPlace
  <2>4. \A v : UnderWay(v, a)' /\ Places(v) <=> UnderWay(v, a) /\ Places(v)
    BY <2>1, <2>2, <2>3 DEF UnderWay, Places
  <2>5. AssetFollows(a, last)'
    BY <2>3, <2>4 DEF AssetFollows, TradedHere
  <2> QED
    BY <1>0, <2>1, <2>5 DEF AssetInv
<1>3. ASSUME UNCHANGED <<net, filled, time, updates, position, cb>>, known \subseteq known'
      PROVE  AssetInv(a)'
  <2>1. \A v : (ToPlace(v)' <=> ToPlace(v)) /\ (UnderWay(v, a)' <=> UnderWay(v, a))
    BY <1>3 DEF ToPlace, InQueue, UnderWay
  <2>2. AssetFollows(a, last)'
    BY <1>3, <2>1 DEF AssetFollows, TradedHere
  <2> QED
    BY <1>3, <2>2 DEF AssetInv
<1>4. ASSUME NEW i \in DOMAIN updates, PnlCallback(i)
      PROVE  AssetInv(a)'
  <2>1. /\ \A v : ~ToPlace(v)
        /\ \A v : InQueue(v) <=> InQueue(v)' \/ ToPlace(v)'
        /\ \A v, w : ToPlace(v)' /\ v.held = "Ignore" /\ InQueue(w)
                       => w.held = "Ignore" \/ v.ts < w.ts
    BY <1>4, Delivered
  <2>2. UNCHANGED <<net, filled, position, known, time>>
    BY <1>4 DEF PnlCallback, exchange
  <2>3. \A v : UnderWay(v, a)' <=> UnderWay(v, a)
    BY <2>1 DEF UnderWay
  <2>4. ASSUME last # 1, NEW v \in Info, ToPlace(v)', v.asset = a, ~Places(v), last <= v.ts
        PROVE  last <= position[a].ts
    <3>1. ASSUME NEW w \in Info, UnderWay(w, a), Places(w), w.ts = last
          PROVE  FALSE
      <4>1. InQueue(w) /\ v.held = "Ignore" /\ w.held # "Ignore"
        BY <2>1, <2>4, <3>1 DEF UnderWay, Places
      <4>2. v.ts < w.ts
        BY <2>1, <2>4, <4>1
      <4> QED
        BY <1>0, <2>4, <3>1, <4>2
    <3> QED
      BY <2>4, <3>1 DEF AssetFollows
  <2>5. AssetFollows(a, last)'
    BY <2>2, <2>3, <2>4 DEF AssetFollows, TradedHere
  <2> QED
    BY <2>2, <2>5 DEF AssetInv
<1>5. CASE HandlePnl
  <2> DEFINE info == Head(cb.infos)
  <2>1. cb.infos \in Seq(Info) /\ info = cb.infos[1] /\ 1 \in 1..Len(cb.infos)
    BY <1>5 DEF HandlePnl, Types, Running
  <2>2. UNCHANGED <<net, filled, time, updates, position, known>>
    BY <1>5 DEF HandlePnl, exchange
  <2> HIDE DEF info
  <2>3. \A v : (ToPlace(v)' => ToPlace(v)) /\ (ToPlace(v) /\ v.asset \in known => ToPlace(v)')
    <3>1. CASE info.asset \in known
      <4>1. cb'.infos = cb.infos
        BY <1>5, <3>1 DEF HandlePnl, PositionFollows, Types, Running, info
      <4> QED
        BY <4>1 DEF ToPlace
    <3>2. CASE info.asset \notin known
      <4>1. cb' = Infos(Tail(cb.infos)) /\ cb.pc # "idle"
        BY <1>5, <3>2 DEF HandlePnl, PositionFollows, info
      <4>2. \A v : ToPlace(v)' <=> \E j \in 1..Len(cb.infos) : j # 1 /\ v = cb.infos[j]
        BY <2>2, <4>1, GoesOn
      <4> QED
        BY <2>1, <3>2, <4>2 DEF ToPlace
    <3> QED
      BY <3>1, <3>2
  <2>4. \A v : InQueue(v)' <=> InQueue(v)
    BY <2>2 DEF InQueue
  <2>5. a \in known => \A v : UnderWay(v, a)' <=> UnderWay(v, a)
    BY <2>3, <2>4 DEF UnderWay
  <2>6. AssetFollows(a, last)'
    BY <2>2, <2>3, <2>5 DEF AssetFollows, TradedHere
  <2> QED
    BY <2>2, <2>6 DEF AssetInv
<1>6. CASE HandlePosition
  <2> DEFINE info == Head(cb.infos)
             new == [ts |-> info.ts, qty |-> Taken(info.held, info.qty, position[info.asset].qty)]
  <2>1. cb.infos \in Seq(Info) /\ info = cb.infos[1] /\ info \in Info /\ 1 \in 1..Len(cb.infos)
    BY <1>6 DEF HandlePosition, Types, Running
  <2>2. /\ UNCHANGED <<net, filled, time, updates, known>>
        /\ cb' = Infos(Tail(cb.infos)) /\ cb.pc # "idle"
        /\ position' = IF info.ts < position[info.asset].ts THEN position
                       ELSE [position EXCEPT ![info.asset] = new]
    BY <1>6 DEF HandlePosition, exchange
  <2>3. ToPlace(info) /\ \A v : InQueue(v)' <=> InQueue(v)
    BY <2>1, <2>2 DEF ToPlace, InQueue
  <2>4. \A v : (ToPlace(v)' => ToPlace(v)) /\ (ToPlace(v) => ToPlace(v)' \/ v = info)
    <3>1. \A v : ToPlace(v)' <=> \E j \in 1..Len(cb.infos) : j # 1 /\ v = cb.infos[j]
      BY <2>2, GoesOn
    <3> QED
      BY <2>1, <3>1 DEF ToPlace
  <2>5. new.ts = info.ts
        /\ new.qty = IF Places(info) THEN Placed(info) ELSE position[info.asset].qty
    BY <2>1, InfoTypes DEF Taken, Places, Placed, States
  <2>6. info.ts \in Nat /\ last \in Nat /\ 1 <= last /\ 1 <= info.ts
    BY <1>0, <2>1
  <2> HIDE DEF info, new
  <2>7. position \in [Assets -> Position] /\ info.asset \in Assets
    BY <2>1, InfoTypes DEF Types, Books
  <2>8. \A v : (UnderWay(v, a)' => UnderWay(v, a)) /\ (UnderWay(v, a) => UnderWay(v, a)' \/ v = info)
    BY <2>3, <2>4 DEF UnderWay
  <2>9. CASE position'[a] = position[a]
    <3>1. ASSUME last # 1, info.asset = a, info.ts = last, Places(info)
          PROVE  last <= position[a].ts
      <4>1. info.ts < position[a].ts \/ position[a].ts = info.ts
        BY <2>2, <2>5, <2>7, <2>9, <3>1
      <4> QED
        BY <1>0, <2>6, <3>1, <4>1
    <3>2. AssetFollows(a, last)'
      <4>1. last # 1 => \/ last <= position[a].ts
                        \/ \E v \in Info : UnderWay(v, a)' /\ Places(v) /\ v.ts = last
        BY <2>8, <3>1 DEF AssetFollows, UnderWay
      <4> QED
        BY <2>2, <2>4, <2>8, <2>9, <4>1 DEF AssetFollows, TradedHere
    <3> QED
      BY <2>2, <3>2 DEF AssetInv
  <2>10. CASE info.asset = a /\ ~(info.ts < position[a].ts)
    <3>1. position'[a].ts = info.ts /\ position[a].ts <= info.ts
          /\ position'[a].qty = IF Places(info) THEN Placed(info) ELSE position[a].qty
      BY <1>0, <2>2, <2>5, <2>6, <2>7, <2>10
    <3>2. UnderWay(info, a)
      BY <2>3, <2>10 DEF UnderWay
    <3>3. CASE info.ts < last
      <4>1. ~(last <= position[a].ts) /\ ~(last <= position'[a].ts)
        BY <1>0, <2>6, <3>1, <3>3
      <4>2. last # 1 => \E v \in Info : UnderWay(v, a)' /\ Places(v) /\ v.ts = last
        BY <1>0, <2>6, <2>8, <3>3, <4>1 DEF AssetFollows
      <4> QED
        BY <2>2, <2>4, <2>8, <4>1, <4>2 DEF AssetFollows, TradedHere, AssetInv
    <3>4. CASE ~(info.ts < last)
      <4>1. last # 1 => position'[a].qty = net[a]
        <5>1. CASE Places(info)
          BY <2>1, <2>6, <3>1, <3>2, <3>4, <5>1 DEF AssetFollows
        <5>2. CASE ~Places(info)
          BY <2>1, <2>3, <2>6, <2>10, <3>1, <3>4, <5>2 DEF AssetFollows
        <5> QED
          BY <5>1, <5>2
      <4>2. last <= position'[a].ts
        BY <2>6, <3>1, <3>4
      <4> QED
        BY <2>2, <2>4, <2>8, <4>1, <4>2 DEF AssetFollows, TradedHere, AssetInv
    <3> QED
      BY <3>3, <3>4
  <2> QED
    BY <2>2, <2>7, <2>9, <2>10
<1>7. CASE UNCHANGED vars
  BY <1>3, <1>7 DEF vars
<1>8. CASE Next
  <2>1. CASE \E t \in Trades : LineUpdate(t) \/ RetrieveOrder(t)
    BY <1>3, <2>1 DEF LineUpdate, RetrieveOrder, exchange
  <2>2. CASE \E b \in Assets : Subscribe(b)
    BY <1>3, <2>2 DEF Subscribe, exchange
  <2> QED
    BY <1>1, <1>2, <1>4, <1>5, <1>6, <1>8, <2>1, <2>2 DEF Next, Callback
<1> QED
  BY <1>7, <1>8

LEMMA AssetInitially ==
    ASSUME Init, NEW a \in Assets
    PROVE  AssetInv(a)
<1>1. time = 1 /\ filled = Earlier
  BY DEF Init
<1>2. AssetFollows(a, 1)
  BY <1>1 DEF AssetFollows, TradedHere, Own
<1> QED
  BY <1>1, <1>2 DEF AssetInv

-----------------------------------------------------------------------------
(* The updates under way, as sets.                                         *)
LEMMA UnderWayFacts ==
    ASSUME Types
    PROVE  \A v : /\ InQueue(v) \/ ToBook(v) => v \in Unbooked
                  /\ InQueue(v) \/ ToPlace(v) => v \in Unplaced
<1>1. /\ DOMAIN updates = 1..Len(updates) /\ DOMAIN cb.infos = 1..Len(cb.infos)
      /\ \A i \in 1..Len(updates) : DOMAIN updates[i] = 1..Len(updates[i])
  BY DEF Types, Queue, Running
<1>2. \A v : InQueue(v) => v \in Undelivered
  BY <1>1 DEF InQueue, Undelivered, Range
<1>3. \A v : ToBook(v) => v \in Unbooked
  BY <1>1 DEF ToBook, Unbooked
<1>4. \A v : ToPlace(v) => v \in Unplaced
  BY <1>1 DEF ToPlace, Unplaced, Range
<1> QED
  BY <1>2, <1>3, <1>4 DEF Unbooked, Unplaced

Inv == Types /\ AccountInv /\ \A a \in Assets : AssetInv(a)

LEMMA Invariance == Spec => []Inv
<1>1. Init => Inv
  BY TypesInitially, AccountInitially, AssetInitially DEF Inv
<1>2. Inv /\ [Next]_vars => Inv'
  BY TypesStep, AccountStep, AssetStep DEF Inv
<1> QED
  BY <1>1, <1>2, PTL DEF Spec

(* Positions, balance and what is under way of them have their types.      *)
THEOREM PositionsTypeCorrect == Spec => []TypeOK
<1>1. Inv => TypeOK
  BY TypesSuffice DEF Inv
<1> QED
  BY <1>1, Invariance, PTL

(* The two loops of handlePnlInfo leave the balance that the exchange has, *)
(* as soon as none is under way, for any number of assets and trades,      *)
(* although updates of different assets overtake each other and share one  *)
(* time stamp. This is so after a fill of a subscribed asset: a balance    *)
(* that comes with another, that of the login first of all, is dropped.    *)
THEOREM BalanceAgreesOnceTold == Spec => []BalanceAgrees
<1>1. Inv => BalanceAgrees
  <2> SUFFICES ASSUME Inv, watched, \A v \in Unbooked : v.balanced # "Use"
               PROVE  pnl.balance = Balance
    BY DEF BalanceAgrees
  <2>1. PICK last \in 1..time : BalanceFollows(last)
    BY DEF Inv, AccountInv
  <2> QED
    BY <2>1, UnderWayFacts DEF Inv, BalanceFollows, Booked
<1> QED
  BY <1>1, Invariance, PTL

(* Once no position of its asset is under way, BrokerTrade calls a trade   *)
(* of this session closed, and a retrieved one that was bought, exactly    *)
(* when the exchange holds no position of its side.                        *)
THEOREM VerdictAgreesOnceTold == Spec => []VerdictAgrees
<1>1. Inv => VerdictAgrees
  <2> SUFFICES ASSUME Inv, NEW t \in Judged, PositionTold(AssetOf[t])
               PROVE  BrokerTrade(t) = -1 <=> t \notin OpenTrades
    BY DEF VerdictAgrees
  <2> DEFINE a == AssetOf[t]
  <2>1. t \in Trades /\ a \in Assets /\ Side[t] \in {"Buy", "Sell"}
    BY TradeAssumption, EarlierAssumption DEF Inv, Types, Exchange, Judged, Own
  <2>2. TradedHere(a)
    BY DEF Judged, ToldBy, TradedHere, Own
  <2>3. PICK last \in 1..time : AssetFollows(a, last)
    BY <2>1 DEF Inv, AssetInv
  <2>4. time \in Nat /\ position[a].ts \in Nat
    BY <2>1, TimeAssumption DEF Inv, Types, Exchange, Books, Position
  <2>5. ~\E v \in Info : UnderWay(v, a) /\ Places(v)
    BY UnderWayFacts DEF Inv, PositionTold, UnderWay, Places
  <2>6. last <= position[a].ts /\ position[a].qty = net[a] /\ position[a].ts # 0
    BY <2>2, <2>3, <2>4, <2>5 DEF AssetFollows
  <2>7. t \in exec
    BY DEF Judged, Own, Inv, Types, Books
  <2>8. SideOfOrder(t) = Side[t]
    BY DEF Judged, Own, SideOfOrder
  <2>9. net[a] \in Int
    BY <2>1 DEF Inv, Types, Exchange
  <2>10. BrokerTrade(t) = -1 <=> Closes(t, net[a])
    BY <2>6, <2>7 DEF BrokerTrade
  <2> QED
    BY <2>1, <2>8, <2>9, <2>10 DEF Closes, OpenTrades
<1> QED
  BY <1>1, Invariance, PTL
=============================================================================
