-------------------------- MODULE BenchmarkProofs ---------------------------
(***************************************************************************)
(* Proofs about the benchmark, for any trips, trains, load and number of   *)
(* scenarios: its idea of two reservations in each other's way agrees with *)
(* the reservation handler's and with the line; its books and those of the *)
(* application agree; and what a good application is blamed for.           *)
(***************************************************************************)
EXTENDS Benchmark, SectionsProofs

-----------------------------------------------------------------------------
(* The cache's overlap test.                                               *)

(* Turning an up journey round makes canReserveWithOverwrap the handler's  *)
(* duplicate test of the same direction.                                   *)
LEMMA OverwrapsIsSectionDup ==
  ASSUME NEW held, NEW req,
         held.from \in Int, held.to \in Int, req.from \in Int, req.to \in Int,
         IsKudari(req.from, req.to) = IsKudari(held.from, held.to)
  PROVE  Overwraps(held, req)
           <=> SectionDup(~IsKudari(req.from, req.to), req.from, req.to, held.from, held.to)
<1>1. CASE IsKudari(req.from, req.to)
  BY <1>1 DEF Overwraps, KudariOverwrap, SectionDup
<1>2. CASE ~IsKudari(req.from, req.to)
  BY <1>2 DEF Overwraps, KudariOverwrap, SectionDup
<1> QED BY <1>1, <1>2

(* The two implementations of the overlap test, the application's          *)
(* (main.go, secdup) and the benchmark's (reservation_cache.go, station.go), *)
(* agree with each other and with the line: two journeys of one train are  *)
(* in each other's way exactly when they share a segment.                  *)
THEOREM OverwrapsExact ==
  ASSUME NEW held, NEW req,
         held.from \in Int, held.to \in Int, req.from \in Int, req.to \in Int,
         held.from # held.to, req.from # req.to
  PROVE  Overwraps(held, req)
           <=> /\ IsKudari(req.from, req.to) = IsKudari(held.from, held.to)
               /\ Overlap(req.from, req.to, held.from, held.to)
<1>1. CASE IsKudari(req.from, req.to) = IsKudari(held.from, held.to)
  <2> DEFINE up == ~IsKudari(req.from, req.to)
  <2>1. up \in BOOLEAN
    BY DEF IsKudari
  <2>2. Forward(up, req.from, req.to) /\ Forward(up, held.from, held.to)
    BY <1>1 DEF IsKudari, Forward
  <2>3. Overwraps(held, req) <=> SectionDup(up, req.from, req.to, held.from, held.to)
    BY <1>1, OverwrapsIsSectionDup
  <2> HIDE DEF up
  <2>4. SectionDup(up, req.from, req.to, held.from, held.to)
          <=> Overlap(req.from, req.to, held.from, held.to)
    BY <2>1, <2>2, SectionDupExact
  <2> QED BY <1>1, <2>3, <2>4
<1>2. CASE IsKudari(req.from, req.to) # IsKudari(held.from, held.to)
  BY <1>2 DEF Overwraps
<1> QED BY <1>1, <1>2

(* CanReserve refuses exactly the requests that want a seat of their train *)
(* on a segment where some reservation in the cache has it, at the same    *)
(* instant and in the same direction (reservation_cache.go:176).           *)
THEOREM CanReserveExact ==
  ASSUME NEW memory, NEW req,
         req.from \in Int, req.to \in Int, req.from # req.to,
         \A i \in DOMAIN memory.added :
            /\ memory.added[i].from \in Int /\ memory.added[i].to \in Int
            /\ memory.added[i].from # memory.added[i].to
  PROVE  CanReserve(memory, req)
           <=> ~ \E i \in DOMAIN memory.added :
                   /\ <<memory.added[i].day, memory.added[i].time>> = <<req.day, req.time>>
                   /\ memory.added[i].train = req.train
                   /\ IsKudari(req.from, req.to) = IsKudari(memory.added[i].from, memory.added[i].to)
                   /\ Overlap(req.from, req.to, memory.added[i].from, memory.added[i].to)
                   /\ memory.added[i].seats \cap req.seats # {}
<1>1. \A i \in DOMAIN memory.added :
        Overwraps(memory.added[i], req)
          <=> /\ IsKudari(req.from, req.to) = IsKudari(memory.added[i].from, memory.added[i].to)
              /\ Overlap(req.from, req.to, memory.added[i].from, memory.added[i].to)
  BY OverwrapsExact
<1> QED BY <1>1 DEF CanReserve

-----------------------------------------------------------------------------
(* What is left of a scenario.  Its facts are such that they stay true as  *)
(* calls are taken from its front.                                         *)

CallName == {"signup", "login", "logout", "stations", "search", "list", "show", "card", "refused",
             "foreignCancel", "map", "reserve", "vague", "racer", "commit", "cancel", "count",
             "wrongSeat"}

BlockType == [calls : Seq(CallName), fatal : BOOLEAN, adds : Nat]
ReserveCalls == {"reserve", "vague", "racer"}
Has(calls, names) == \E k \in DOMAIN calls : calls[k] \in names

(* Every commit comes after a reservation of the same block.               *)
Covered(calls) ==
  \A k \in DOMAIN calls : calls[k] = "commit" => \E j \in 1 .. (k - 1) : calls[j] \in {"reserve", "vague"}

(* A block commits once and cancels only afterwards.                       *)
CommitFirst(calls) ==
  \A j, k \in DOMAIN calls : j < k /\ calls[k] = "commit" => calls[j] \notin {"commit", "cancel", "racer"}

(* Seats are spoiled right after the map that showed them.                 *)
AfterMap(calls) ==
  \A k \in DOMAIN calls : k > 1 /\ calls[k] = "wrongSeat" => calls[k - 1] = "map"

(* A card is registered right before the commit it is for.                 *)
CardThenCommit(calls) ==
  \A k \in DOMAIN calls : calls[k] = "card" => k + 1 \in DOMAIN calls /\ calls[k + 1] = "commit"

BlockOK(b) == /\ b \in BlockType /\ b.calls # << >>
              /\ CommitFirst(b.calls) /\ AfterMap(b.calls) /\ CardThenCommit(b.calls)
NotBegun(b) == Covered(b.calls) /\ b.calls[1] # "wrongSeat"

TodoOK(todo, trip) ==
  /\ todo \in Seq(BlockType) /\ todo # << >>
  /\ \A m \in DOMAIN todo : BlockOK(todo[m]) /\ (m > 1 => NotBegun(todo[m]))
  /\ \A m, n \in DOMAIN todo : m <= n /\ Has(todo[m].calls, {"racer"}) => ~ Has(todo[n].calls, {"map"})
  /\ \A m \in DOMAIN todo : Has(todo[m].calls, {"wrongSeat"}) => trip = PretestTrip

(* The todo of Past.                                                       *)
Rest(todo, n) ==
  LET calls == Head(todo).calls
  IN  IF n = Len(calls) THEN Tail(todo)
      ELSE [todo EXCEPT ![1].calls = SubSeq(@, n + 1, Len(@))]

(* What taking the first n calls of a block leaves of the whole.           *)
LEMMA RestOfBlock ==
  ASSUME NEW todo \in Seq(BlockType), todo # << >>, NEW n \in 1 .. (Len(todo[1].calls) - 1)
  PROVE  LET rest == Rest(todo, n)
             calls == todo[1].calls
         IN  /\ rest \in Seq(BlockType) /\ Len(rest) = Len(todo)
             /\ Len(rest[1].calls) = Len(calls) - n /\ rest[1].calls \in Seq(CallName)
             /\ \A k \in 1 .. (Len(calls) - n) : rest[1].calls[k] = calls[k + n]
             /\ \A m \in 2 .. Len(todo) : rest[m] = todo[m]
<1> DEFINE calls == todo[1].calls
           b == [todo[1] EXCEPT !.calls = SubSeq(calls, n + 1, Len(calls))]
<1>1. todo[1] \in BlockType /\ Head(todo) = todo[1] /\ 1 \in DOMAIN todo
  OBVIOUS
<1>2. calls \in Seq(CallName) /\ Len(calls) \in Nat
  BY <1>1 DEF BlockType
<1>3. /\ SubSeq(calls, n + 1, Len(calls)) \in Seq(CallName)
      /\ Len(SubSeq(calls, n + 1, Len(calls))) = Len(calls) - n
      /\ \A k \in 1 .. (Len(calls) - n) : SubSeq(calls, n + 1, Len(calls))[k] = calls[k + n]
  BY <1>2
<1>4. b \in BlockType /\ b.calls = SubSeq(calls, n + 1, Len(calls))
  BY <1>1, <1>3 DEF BlockType
<1>5. Rest(todo, n) = [todo EXCEPT ![1] = b]
  BY <1>1 DEF Rest
<1> HIDE DEF b
<1>6. /\ [todo EXCEPT ![1] = b] \in Seq(BlockType) /\ Len([todo EXCEPT ![1] = b]) = Len(todo)
      /\ [todo EXCEPT ![1] = b][1] = b
      /\ \A m \in 2 .. Len(todo) : [todo EXCEPT ![1] = b][m] = todo[m]
  BY <1>1, <1>4
<1> QED BY <1>3, <1>4, <1>5, <1>6

LEMMA RestAfterBlock ==
  ASSUME NEW todo \in Seq(BlockType), todo # << >>
  PROVE  LET rest == Rest(todo, Len(todo[1].calls))
         IN  /\ rest = Tail(todo) /\ rest \in Seq(BlockType) /\ Len(rest) = Len(todo) - 1
             /\ \A m \in 1 .. (Len(todo) - 1) : rest[m] = todo[m + 1]
<1>1. Head(todo) = todo[1]
  OBVIOUS
<1>2. Rest(todo, Len(todo[1].calls)) = Tail(todo)
  BY <1>1 DEF Rest
<1>3. /\ Tail(todo) \in Seq(BlockType) /\ Len(Tail(todo)) = Len(todo) - 1
      /\ \A m \in 1 .. (Len(todo) - 1) : Tail(todo)[m] = todo[m + 1]
  OBVIOUS
<1> QED BY <1>2, <1>3

(* The facts about a block are facts about what is left of it, unless its  *)
(* reservation has been made.                                              *)
LEMMA FewerCalls ==
  ASSUME NEW calls \in Seq(CallName), NEW less \in Seq(CallName), NEW n \in Nat, n >= 1, n < Len(calls),
         Len(less) = Len(calls) - n, \A k \in 1 .. (Len(calls) - n) : less[k] = calls[k + n],
         CommitFirst(calls), AfterMap(calls), CardThenCommit(calls)
  PROVE  /\ less # << >> /\ CommitFirst(less) /\ AfterMap(less) /\ CardThenCommit(less)
         /\ \A names : Has(less, names) => Has(calls, names)
         /\ (\A k \in 1 .. n : calls[k] \notin {"reserve", "vague"}) /\ Covered(calls) => Covered(less)
         /\ (\E k \in 1 .. n : calls[k] \in {"commit", "cancel", "racer"}) => Covered(less)
         /\ calls[n] # "map" => less[1] # "wrongSeat"
<1>1. Len(calls) \in Nat /\ DOMAIN calls = 1 .. Len(calls) /\ DOMAIN less = 1 .. (Len(calls) - n)
  OBVIOUS
<1>2. \A k \in DOMAIN less : /\ k \in Nat /\ k >= 1 /\ less[k] = calls[k + n]
                             /\ k + n \in DOMAIN calls
  BY <1>1
<1>3. 1 \in DOMAIN less /\ 1 .. n \subseteq DOMAIN calls
  BY <1>1
<1>a. \A k \in DOMAIN less : k > 1 => k - 1 \in DOMAIN less /\ k + n > 1 /\ (k - 1) + n = (k + n) - 1
  BY <1>1
<1>4. CommitFirst(less)
  <2> SUFFICES ASSUME NEW j \in DOMAIN less, NEW k \in DOMAIN less, j < k, less[k] = "commit"
               PROVE  less[j] \notin {"commit", "cancel", "racer"}
    BY DEF CommitFirst
  <2>1. j + n \in DOMAIN calls /\ k + n \in DOMAIN calls /\ j + n < k + n
    BY <1>2
  <2>2. less[j] = calls[j + n] /\ less[k] = calls[k + n]
    BY <1>2
  <2> QED BY <2>1, <2>2 DEF CommitFirst
<1>5. AfterMap(less)
  <2> SUFFICES ASSUME NEW k \in DOMAIN less, k > 1, less[k] = "wrongSeat"  PROVE less[k - 1] = "map"
    BY DEF AfterMap
  <2>1. k - 1 \in DOMAIN less /\ k + n > 1 /\ (k - 1) + n = (k + n) - 1
    BY <1>a
  <2>2. less[k - 1] = calls[(k + n) - 1] /\ calls[k + n] = "wrongSeat" /\ k + n \in DOMAIN calls
    BY <1>1, <1>2, <2>1
  <2> QED BY <2>1, <2>2 DEF AfterMap
<1>b. CardThenCommit(less)
  <2> SUFFICES ASSUME NEW k \in DOMAIN less, less[k] = "card"
               PROVE  k + 1 \in DOMAIN less /\ less[k + 1] = "commit"
    BY DEF CardThenCommit
  <2>1. k + n \in DOMAIN calls /\ calls[k + n] = "card" /\ k \in Nat
    BY <1>2
  <2>2. (k + n) + 1 \in DOMAIN calls /\ calls[(k + n) + 1] = "commit"
    BY <2>1 DEF CardThenCommit
  <2>3. k + 1 \in 1 .. (Len(calls) - n) /\ (k + 1) + n = (k + n) + 1
    BY <1>1, <2>1, <2>2
  <2> QED BY <1>1, <2>2, <2>3
<1>6. ASSUME NEW names, Has(less, names)  PROVE Has(calls, names)
  BY <1>2, <1>6 DEF Has
<1>7. ASSUME \A k \in 1 .. n : calls[k] \notin {"reserve", "vague"}, Covered(calls)  PROVE Covered(less)
  <2> SUFFICES ASSUME NEW k \in DOMAIN less, less[k] = "commit"
               PROVE  \E j \in 1 .. (k - 1) : less[j] \in {"reserve", "vague"}
    BY DEF Covered
  <2>1. k + n \in DOMAIN calls /\ calls[k + n] = "commit" /\ k \in Nat /\ k <= Len(calls) - n
    BY <1>1, <1>2
  <2>2. PICK j \in 1 .. ((k + n) - 1) : calls[j] \in {"reserve", "vague"}
    BY <1>7, <2>1 DEF Covered
  <2>3. j > n
    BY <1>7, <2>1, <2>2
  <2>4. j - n \in 1 .. (k - 1) /\ (j - n) + n = j /\ j - n \in DOMAIN less
    BY <1>1, <2>1, <2>3
  <2>5. less[j - n] = calls[j]
    BY <1>2, <2>4
  <2> QED BY <2>2, <2>4, <2>5
<1>8. ASSUME NEW k \in 1 .. n, calls[k] \in {"commit", "cancel", "racer"}  PROVE Covered(less)
  <2> SUFFICES ASSUME NEW j \in DOMAIN less, less[j] = "commit"  PROVE FALSE
    BY DEF Covered
  <2>1. j + n \in DOMAIN calls /\ k \in DOMAIN calls /\ k < j + n /\ calls[j + n] = "commit"
    BY <1>2, <1>3
  <2> QED BY <1>8, <2>1 DEF CommitFirst
<1>9. ASSUME calls[n] # "map"  PROVE less[1] # "wrongSeat"
  <2>1. 1 + n \in DOMAIN calls /\ less[1] = calls[1 + n] /\ 1 + n > 1 /\ (1 + n) - 1 = n
    BY <1>2, <1>3
  <2> QED BY <1>9, <2>1 DEF AfterMap
<1>10. less # << >>
  BY <1>1
<1>11. (\A k \in 1 .. n : calls[k] \notin {"reserve", "vague"}) /\ Covered(calls) => Covered(less)
  BY <1>7
<1>12. (\E k \in 1 .. n : calls[k] \in {"commit", "cancel", "racer"}) => Covered(less)
  BY <1>8
<1> HIDE DEF Has, Covered, CommitFirst, AfterMap, CardThenCommit
<1> QED BY <1>4, <1>5, <1>b, <1>6, <1>9, <1>10, <1>11, <1>12

(* The facts about a scenario are facts about what is left of it.          *)
LEMMA RestOK ==
  ASSUME NEW todo, NEW trip, TodoOK(todo, trip), NEW n \in 1 .. Len(todo[1].calls),
         Rest(todo, n) # << >>
  PROVE  /\ TodoOK(Rest(todo, n), trip)
         /\ (\A k \in 1 .. n : todo[1].calls[k] \notin {"reserve", "vague"}) /\ Covered(todo[1].calls)
              => Covered(Rest(todo, n)[1].calls)
         /\ (\E k \in 1 .. n : todo[1].calls[k] \in {"commit", "cancel", "racer"})
              => Covered(Rest(todo, n)[1].calls)
         /\ todo[1].calls[n] # "map" => Rest(todo, n)[1].calls[1] # "wrongSeat"
         /\ n = Len(todo[1].calls) => NotBegun(Rest(todo, n)[1])
<1> DEFINE calls == todo[1].calls
           rest == Rest(todo, n)
           less == rest[1].calls
<1>1. /\ todo \in Seq(BlockType) /\ todo # << >> /\ todo[1] \in BlockType /\ 1 \in DOMAIN todo
      /\ CommitFirst(calls) /\ AfterMap(calls) /\ CardThenCommit(calls)
  <2>1. todo \in Seq(BlockType) /\ todo # << >>
    BY DEF TodoOK
  <2>2. 1 \in DOMAIN todo
    BY <2>1
  <2>3. BlockOK(todo[1])
    BY <2>2 DEF TodoOK
  <2> QED BY <2>1, <2>2, <2>3 DEF BlockOK
<1>2. calls \in Seq(CallName) /\ Len(calls) \in Nat /\ n \in Nat /\ n >= 1 /\ n <= Len(calls)
  BY <1>1 DEF BlockType
<1>3. CASE n = Len(calls)
  <2> HIDE DEF rest
  <2>a. /\ rest \in Seq(BlockType) /\ Len(rest) = Len(todo) - 1 /\ rest # << >>
        /\ \A m \in 1 .. (Len(todo) - 1) : rest[m] = todo[m + 1]
    BY <1>1, <1>3, RestAfterBlock DEF rest
  <2>1. /\ rest \in Seq(BlockType) /\ rest # << >> /\ DOMAIN rest = 1 .. (Len(todo) - 1) /\ 1 \in DOMAIN rest
        /\ \A m \in DOMAIN rest : rest[m] = todo[m + 1] /\ m + 1 \in DOMAIN todo /\ m + 1 > 1
    BY <1>1, <2>a
  <2>2. \A m \in DOMAIN rest : BlockOK(rest[m]) /\ NotBegun(rest[m])
    BY <2>1 DEF TodoOK
  <2>3. \A m, k \in DOMAIN rest :
          m <= k /\ Has(rest[m].calls, {"racer"}) => ~ Has(rest[k].calls, {"map"})
    <3> SUFFICES ASSUME NEW m \in DOMAIN rest, NEW k \in DOMAIN rest, m <= k,
                        Has(rest[m].calls, {"racer"})
                 PROVE  ~ Has(rest[k].calls, {"map"})
      OBVIOUS
    <3>1. m + 1 \in DOMAIN todo /\ k + 1 \in DOMAIN todo /\ m + 1 <= k + 1
      BY <2>1
    <3> QED BY <2>1, <3>1 DEF TodoOK
  <2>4. \A m \in DOMAIN rest : Has(rest[m].calls, {"wrongSeat"}) => trip = PretestTrip
    BY <2>1 DEF TodoOK
  <2>5. TodoOK(rest, trip)
    BY <2>1, <2>2, <2>3, <2>4 DEF TodoOK
  <2> QED BY <2>1, <2>2, <2>5 DEF NotBegun, rest
<1>4. CASE n # Len(calls)
  <2> HIDE DEF rest, calls, less
  <2>1. n < Len(calls) /\ n \in 1 .. (Len(calls) - 1)
    BY <1>2, <1>4
  <2>2. /\ rest \in Seq(BlockType) /\ Len(rest) = Len(todo)
        /\ Len(less) = Len(calls) - n /\ less \in Seq(CallName)
        /\ \A k \in 1 .. (Len(calls) - n) : less[k] = calls[k + n]
        /\ \A m \in 2 .. Len(todo) : rest[m] = todo[m]
    BY <1>1, <2>1, RestOfBlock DEF rest, calls, less
  <2>3. /\ less # << >> /\ CommitFirst(less) /\ AfterMap(less) /\ CardThenCommit(less)
        /\ \A names : Has(less, names) => Has(calls, names)
        /\ (\A k \in 1 .. n : calls[k] \notin {"reserve", "vague"}) /\ Covered(calls) => Covered(less)
        /\ (\E k \in 1 .. n : calls[k] \in {"commit", "cancel", "racer"}) => Covered(less)
        /\ calls[n] # "map" => less[1] # "wrongSeat"
    BY <1>1, <1>2, <2>1, <2>2, FewerCalls
  <2>4. /\ rest # << >> /\ DOMAIN rest = DOMAIN todo /\ 1 \in DOMAIN rest
        /\ \A m \in DOMAIN rest : m = 1 \/ (m > 1 /\ rest[m] = todo[m])
    BY <1>1, <2>2
  <2>a. rest[1] \in BlockType
    BY <2>2, <2>4
  <2>5. BlockOK(rest[1])
    BY <2>3, <2>a DEF BlockOK, less
  <2>6. \A m \in DOMAIN rest : \A names : Has(rest[m].calls, names) => Has(todo[m].calls, names)
    BY <2>3, <2>4 DEF less, calls
  <2>7. \A m \in DOMAIN rest : BlockOK(rest[m]) /\ (m > 1 => NotBegun(rest[m]))
    <3>1. ~ (1 > 1)
      OBVIOUS
    <3> QED BY <2>4, <2>5, <3>1 DEF TodoOK
  <2>8. \A m, k \in DOMAIN rest :
          m <= k /\ Has(rest[m].calls, {"racer"}) => ~ Has(rest[k].calls, {"map"})
    BY <2>4, <2>6 DEF TodoOK
  <2>9. \A m \in DOMAIN rest : Has(rest[m].calls, {"wrongSeat"}) => trip = PretestTrip
    BY <2>4, <2>6 DEF TodoOK
  <2>10. TodoOK(rest, trip)
    BY <2>2, <2>4, <2>7, <2>8, <2>9 DEF TodoOK
  <2> QED BY <1>4, <2>3, <2>10 DEF rest, calls, less
<1> QED BY <1>3, <1>4
-----------------------------------------------------------------------------
(* Who has which reservation: the first part of the invariant.             *)

Passengers == Load \cup {driver}
Call(s) == s.todo[1].calls[1]

SlotType == [pc : {"calling", "served", "approved", "added"}, todo : Seq(BlockType), trip : AnyTrip,
             asked : SUBSET Nat, id : Nat, kept : SUBSET Nat, won : Nat]

SlotCore(s) == /\ s \in SlotType /\ TodoOK(s.todo, s.trip)
               /\ IsFiniteSet(s.asked) /\ Cardinality(s.asked) <= People

(* It is busy with a reservation, or has one that it will not pay for any  *)
(* more: after a commit none is to come without a reservation before it.   *)
HasId(s) == \/ s.pc \in {"approved", "added"}
            \/ s.pc = "served" /\ Call(s) \notin ReserveCalls
            \/ s.pc = "calling" /\ ~ Covered(s.todo[1].calls)

SlotOK(s) == /\ SlotCore(s)
             /\ s.pc = "served" => Call(s) \in ReserveCalls \cup {"commit", "cancel"}
             /\ s.pc = "approved" => Call(s) \in ReserveCalls
             /\ s.pc = "added" => Call(s) \in {"reserve", "vague"}
             /\ HasId(s) => s.id # 0

(* A passenger has the reservations it has paid for and is still to        *)
(* cancel, and the one it is busy with.                                    *)
Holds(s) == s.id # 0 /\ (s.pc # "calling" \/ ~ Covered(s.todo[1].calls))
Owns(s) == IF s = Done THEN {} ELSE s.kept \cup (IF Holds(s) THEN {s.id} ELSE {})

Standing(s) == IF s.pc = "served" /\ Call(s) = "cancel" THEN "gone"
               ELSE IF s.pc = "served" /\ Call(s) = "commit" THEN "paid" ELSE "held"

OwnsOK(s, books, canceled) ==
  /\ \A i \in Owns(s) : i \in DOMAIN books /\ i \notin canceled /\ books[i].trip = s.trip
  /\ s # Done => /\ \A i \in s.kept : books[i].status = "paid"
                 /\ Holds(s) => s.id \notin s.kept /\ books[s.id].status = Standing(s)

(* The tester asks for seats it saw on a map.                              *)
Signs == {"plenty", "few", "none"}
Watching == [pc : {"look", "looking", "map", "over"}, want : Signs, remain : Int]
Reserving == [pc : {"reserve"}, want : Signs, remain : Int, asked : SUBSET Nat]
TesterTyped(s) ==
  \/ s \in Watching
  \/ s \in Reserving /\ IsFiniteSet(s.asked) /\ Cardinality(s.asked) <= People

(* No reservation has two owners.                                          *)
Owners ==
  /\ slot = [g \in Goroutine |-> slot[g]]
  /\ \A g \in Passengers : slot[g] = Done \/ SlotOK(slot[g])
  /\ \A g \in Passengers : OwnsOK(slot[g], booked, cache.canceled)
  /\ \A g, h \in Passengers : g # h => Owns(slot[g]) \cap Owns(slot[h]) = {}
  /\ TesterTyped(slot[tester])

(* The books of the application and of the benchmark.                      *)
Books ==
  /\ booked \in Seq(Booking)
  /\ cache = [added |-> cache.added, committed |-> cache.committed, canceled |-> cache.canceled]
  /\ DOMAIN cache.added \subseteq DOMAIN booked
  /\ cache.committed \cup cache.canceled \subseteq DOMAIN cache.added
  /\ cache.committed \cap cache.canceled = {}
  /\ \A i \in cache.committed : booked[i].status \in {"paid", "gone"}
  /\ \A i \in cache.canceled : booked[i].status = "gone"

Party == {"tester", "main"}
ErrsType == [pretest : BOOLEAN, msgs : SUBSET Critical, application : Nat,
             final : {"none", "blamed", "fine", "lost"}]

Stages ==
  /\ phase \in {"off", "payment", "initialize", "reads", "refusals", "pretest",
                "pretest vague", "account", "load", "final", "over"}
  /\ deadline \in BOOLEAN /\ hurt \subseteq Party
  /\ busy \in 0 .. MaxBusy
  /\ errs \in ErrsType
  /\ errs.final # "none" => phase = "over"
  /\ verdict \in {"none", "pass", "fail", "crash"}
  /\ verdict # "none" <=> phase = "over"

(* The reservations a step of a goroutine may change.                      *)
Mine(g) == IF g = tester THEN {} ELSE Owns(slot[g])

LEMMA SomeGoroutine == tester \notin Passengers /\ Passengers \subseteq Goroutine
                       /\ Goroutine = Passengers \cup {tester}
BY BenchAssumption DEF Passengers, Goroutine

(* A passenger whose reservations are left alone.                          *)
LEMMA OwnsFrame ==
  ASSUME NEW s, NEW books, NEW canceled, NEW books2, NEW canceled2,
         OwnsOK(s, books, canceled),
         \A i \in Owns(s) : i \in DOMAIN books2 /\ books2[i] = books[i] /\ i \notin canceled2
  PROVE  OwnsOK(s, books2, canceled2)
<1>1. s # Done => /\ \A i \in s.kept : i \in Owns(s)
                  /\ Holds(s) => s.id \in Owns(s)
  BY DEF Owns
<1> HIDE DEF Owns, Holds, Standing
<1> QED BY <1>1 DEF OwnsOK

(* A step of one goroutine that touches only what is its own.              *)
LEMMA OwnersStep ==
  ASSUME Owners, NEW g \in Goroutine, NEW x,
         slot' = [slot EXCEPT ![g] = x],
         g = tester => TesterTyped(x),
         g # tester => /\ x = Done \/ SlotOK(x)
                       /\ OwnsOK(x, booked', cache'.canceled)
                       /\ Owns(x) \subseteq Mine(g) \cup (DOMAIN booked' \ DOMAIN booked),
         DOMAIN booked \subseteq DOMAIN booked',
         \A i \in DOMAIN booked \ Mine(g) : booked'[i] = booked[i],
         cache'.canceled \subseteq cache.canceled \cup Mine(g)
  PROVE  Owners'
<1>1. slot' = [h \in Goroutine |-> slot'[h]] /\ slot'[g] = x
      /\ \A h \in Goroutine : h # g => slot'[h] = slot[h]
  BY DEF Owners
<1>2. \A h \in Passengers : h # g => Owns(slot[h]) \cap Mine(g) = {} /\ Owns(slot[h]) \subseteq DOMAIN booked
  <2> SUFFICES ASSUME NEW h \in Passengers, h # g
               PROVE  Owns(slot[h]) \cap Mine(g) = {} /\ Owns(slot[h]) \subseteq DOMAIN booked
    OBVIOUS
  <2>1. OwnsOK(slot[h], booked, cache.canceled)
    BY DEF Owners
  <2>2. Owns(slot[h]) \subseteq DOMAIN booked
    BY <2>1 DEF OwnsOK
  <2>3. CASE g = tester
    BY <2>2, <2>3 DEF Mine
  <2>4. CASE g # tester
    <3>1. g \in Passengers /\ Mine(g) = Owns(slot[g])
      BY <2>4, SomeGoroutine DEF Mine
    <3> QED BY <2>2, <3>1 DEF Owners
  <2> QED BY <2>3, <2>4
<1>3. \A h \in Passengers : slot'[h] = Done \/ SlotOK(slot'[h])
  <2> SUFFICES ASSUME NEW h \in Passengers  PROVE slot'[h] = Done \/ SlotOK(slot'[h])
    OBVIOUS
  <2>1. CASE h = g
    BY <1>1, <2>1, SomeGoroutine
  <2>2. CASE h # g
    BY <1>1, <2>2, SomeGoroutine DEF Owners
  <2> QED BY <2>1, <2>2
<1>4. \A h \in Passengers : OwnsOK(slot'[h], booked', cache'.canceled)
  <2> SUFFICES ASSUME NEW h \in Passengers  PROVE OwnsOK(slot'[h], booked', cache'.canceled)
    OBVIOUS
  <2>1. CASE h = g
    BY <1>1, <2>1, SomeGoroutine
  <2>2. CASE h # g
    <3>1. slot'[h] = slot[h] /\ OwnsOK(slot[h], booked, cache.canceled)
      BY <1>1, <2>2, SomeGoroutine DEF Owners
    <3>2. \A i \in Owns(slot[h]) : i \in DOMAIN booked' /\ booked'[i] = booked[i] /\ i \notin cache'.canceled
      <4>1. \A i \in Owns(slot[h]) : i \notin cache.canceled
        BY <3>1 DEF OwnsOK
      <4> QED BY <1>2, <2>2, <4>1
    <3> QED BY <3>1, <3>2, OwnsFrame
  <2> QED BY <2>1, <2>2
<1>5. \A h \in Passengers : h # g /\ g # tester => Owns(x) \cap Owns(slot[h]) = {}
  BY <1>2
<1>6. \A h, k \in Passengers : h # k => Owns(slot'[h]) \cap Owns(slot'[k]) = {}
  <2> SUFFICES ASSUME NEW h \in Passengers, NEW k \in Passengers, h # k
               PROVE  Owns(slot'[h]) \cap Owns(slot'[k]) = {}
    OBVIOUS
  <2>1. CASE h = g
    <3>1. slot'[h] = x /\ slot'[k] = slot[k] /\ k # g /\ g # tester
      BY <1>1, <2>1, SomeGoroutine
    <3> QED BY <1>5, <3>1
  <2>2. CASE k = g
    <3>1. slot'[k] = x /\ slot'[h] = slot[h] /\ h # g /\ g # tester
      BY <1>1, <2>2, SomeGoroutine
    <3> QED BY <1>5, <3>1
  <2>3. CASE h # g /\ k # g
    <3>1. slot'[k] = slot[k] /\ slot'[h] = slot[h]
      BY <1>1, <2>3, SomeGoroutine
    <3> QED BY <3>1 DEF Owners
  <2> QED BY <2>1, <2>2, <2>3
<1>7. TesterTyped(slot'[tester])
  <2>1. CASE g = tester
    BY <1>1, <2>1
  <2>2. CASE g # tester
    BY <1>1, <2>2, SomeGoroutine DEF Owners
  <2> QED BY <2>1, <2>2
<1> QED BY <1>1, <1>3, <1>4, <1>6, <1>7 DEF Owners

(* What an action that waits for the turn of a passenger knows of it.      *)
LEMMA OnFacts ==
  ASSUME Owners, NEW g \in Goroutine, NEW pc, pc # "done", NEW names, On(g, pc, names)
  PROVE  /\ g \in Passengers /\ g # tester /\ Awake(g) /\ Mine(g) = Owns(slot[g])
         /\ slot[g] # Done /\ SlotOK(slot[g]) /\ OwnsOK(slot[g], booked, cache.canceled)
         /\ slot[g].pc = pc /\ Call(slot[g]) \in names
         /\ Head(slot[g].todo) = slot[g].todo[1]
         /\ slot[g].todo[1].calls \in Seq(CallName) /\ 1 \in DOMAIN slot[g].todo[1].calls
<1>1. g \in Passengers /\ g # tester /\ Awake(g) /\ slot[g].pc = pc
  BY SomeGoroutine DEF On
<1>2. slot[g] # Done
  BY <1>1 DEF Done
<1>3. SlotOK(slot[g]) /\ OwnsOK(slot[g], booked, cache.canceled)
  BY <1>1, <1>2 DEF Owners
<1>4. slot[g].todo \in Seq(BlockType) /\ slot[g].todo # << >> /\ BlockOK(slot[g].todo[1])
  <2>1. slot[g].todo \in Seq(BlockType) /\ slot[g].todo # << >> /\ \A m \in DOMAIN slot[g].todo : BlockOK(slot[g].todo[m])
    BY <1>3 DEF SlotOK, SlotCore, TodoOK
  <2> QED BY <2>1
<1>5. Head(slot[g].todo) = slot[g].todo[1]
  BY <1>4
<1>6. slot[g].todo[1].calls \in Seq(CallName) /\ slot[g].todo[1].calls # << >>
  BY <1>4 DEF BlockOK, BlockType
<1>7. 1 \in DOMAIN slot[g].todo[1].calls /\ Head(slot[g].todo[1].calls) = slot[g].todo[1].calls[1]
  BY <1>6
<1>8. Call(slot[g]) \in names
  BY <1>5, <1>7 DEF On, Call
<1> QED BY <1>1, <1>2, <1>3, <1>5, <1>6, <1>7, <1>8 DEF Mine

(* A passenger goes on behind its first n calls.                           *)
LEMMA PastOK ==
  ASSUME NEW s, SlotCore(s), NEW n \in 1 .. Len(s.todo[1].calls), Past(s, n) # Done
  PROVE  LET t == Past(s, n)
             calls == s.todo[1].calls
         IN  /\ SlotCore(t) /\ t.pc = "calling" /\ t.todo = Rest(s.todo, n) /\ Rest(s.todo, n) # << >>
             /\ t.trip = s.trip /\ t.asked = s.asked /\ t.id = s.id /\ t.kept = s.kept /\ t.won = s.won
             /\ (\A k \in 1 .. n : calls[k] \notin {"reserve", "vague"}) /\ Covered(calls)
                  => Covered(t.todo[1].calls)
             /\ (\E k \in 1 .. n : calls[k] \in {"commit", "cancel", "racer"}) => Covered(t.todo[1].calls)
             /\ calls[n] # "map" => Call(t) # "wrongSeat"
             /\ n = Len(calls) => NotBegun(t.todo[1])
<1> DEFINE t == Past(s, n)
           rest == Rest(s.todo, n)
<1>1. t = Settled(s, rest)
  BY DEF Past, Rest
<1> HIDE DEF rest, t
<1>2. rest # << >> /\ t = [s EXCEPT !.pc = "calling", !.todo = rest]
  BY <1>1 DEF Settled, t
<1>3. s \in SlotType /\ TodoOK(s.todo, s.trip)
  BY DEF SlotCore
<1>4. /\ TodoOK(rest, s.trip)
      /\ (\A k \in 1 .. n : s.todo[1].calls[k] \notin {"reserve", "vague"}) /\ Covered(s.todo[1].calls)
           => Covered(rest[1].calls)
      /\ (\E k \in 1 .. n : s.todo[1].calls[k] \in {"commit", "cancel", "racer"})
           => Covered(rest[1].calls)
      /\ s.todo[1].calls[n] # "map" => rest[1].calls[1] # "wrongSeat"
      /\ n = Len(s.todo[1].calls) => NotBegun(rest[1])
  BY <1>2, <1>3, RestOK DEF rest
<1>5. rest \in Seq(BlockType)
  BY <1>4 DEF TodoOK
<1>6. /\ t \in SlotType /\ t.pc = "calling" /\ t.todo = rest
      /\ t.trip = s.trip /\ t.asked = s.asked /\ t.id = s.id /\ t.kept = s.kept /\ t.won = s.won
  BY <1>2, <1>3, <1>5 DEF SlotType
<1>7. SlotCore(t)
  BY <1>4, <1>6 DEF SlotCore
<1>8. s.todo[1].calls[n] # "map" => Call(t) # "wrongSeat"
  BY <1>4, <1>6 DEF Call
<1>9. /\ (\A k \in 1 .. n : s.todo[1].calls[k] \notin {"reserve", "vague"}) /\ Covered(s.todo[1].calls)
           => Covered(t.todo[1].calls)
      /\ (\E k \in 1 .. n : s.todo[1].calls[k] \in {"commit", "cancel", "racer"})
           => Covered(t.todo[1].calls)
      /\ n = Len(s.todo[1].calls) => NotBegun(t.todo[1])
  BY <1>4, <1>6
<1> HIDE DEF Call, SlotCore, NotBegun, Covered
<1> QED BY <1>2, <1>6, <1>7, <1>8, <1>9 DEF t, rest

-----------------------------------------------------------------------------
(* Helpers of the passengers' steps.                                       *)

BenchIInv == Owners /\ Books /\ Stages

(* The numbered calls of a row of plain ones.                              *)
LEMMA PlainRow ==
  ASSUME NEW calls \in Seq(CallName), 1 \in DOMAIN calls, calls[1] \in Plain
  PROVE  \E n \in 1 .. Len(calls) : /\ \A i \in 1 .. n : calls[i] \in Plain
                                    /\ n < Len(calls) => calls[n + 1] \notin Plain
<1> DEFINE T == {k \in 1 .. Len(calls) : k = Len(calls) \/ calls[k + 1] \notin Plain}
<1>1. Len(calls) \in Nat /\ Len(calls) >= 1
  OBVIOUS
<1>2. T \subseteq Nat /\ Len(calls) \in T
  BY <1>1
<1>3. PICK n \in T : \A k \in T : n <= k
  BY <1>2, LeastNumber
<1>4. n \in 1 .. Len(calls) /\ (n = Len(calls) \/ calls[n + 1] \notin Plain)
  OBVIOUS
<1>5. ASSUME NEW i \in 1 .. n  PROVE calls[i] \in Plain
  <2>1. CASE i = 1
    BY <2>1
  <2>2. CASE i # 1
    <3>1. i - 1 \in 1 .. Len(calls) /\ i - 1 # Len(calls) /\ ~ (n <= i - 1) /\ (i - 1) + 1 = i
      BY <1>1, <1>4, <2>2
    <3>2. i - 1 \notin T
      BY <1>3, <3>1
    <3> QED BY <3>1, <3>2
  <2> QED BY <2>1, <2>2
<1> QED BY <1>1, <1>4, <1>5

LEMMA AsksOK ==
  ASSUME Owners, NEW g \in Goroutine, Asks(g)
  PROVE  \E n \in 1 .. Len(slot[g].todo[1].calls) :
            /\ slot' = [slot EXCEPT ![g] = Past(slot[g], n)]
            /\ \A i \in 1 .. n : slot[g].todo[1].calls[i] \in Plain
<1> DEFINE calls == slot[g].todo[1].calls
<1>1. On(g, "calling", Plain)
  BY DEF Asks
<1>2. /\ Head(slot[g].todo) = slot[g].todo[1] /\ calls \in Seq(CallName) /\ 1 \in DOMAIN calls
      /\ calls[1] \in Plain
  BY <1>1, OnFacts DEF Call
<1>3. PlainCalls(calls) \in 1 .. Len(calls) /\ \A i \in 1 .. PlainCalls(calls) : calls[i] \in Plain
  BY <1>2, PlainRow DEF PlainCalls
<1>4. slot' = [slot EXCEPT ![g] = Past(slot[g], PlainCalls(calls))]
  BY <1>2 DEF Asks
<1> QED BY <1>3, <1>4

(* What a passenger has behind some of its calls.                          *)
LEMMA PastOwns ==
  ASSUME NEW s, SlotCore(s), NEW n \in 1 .. Len(s.todo[1].calls), NEW books, NEW canceled,
         \A i \in s.kept : /\ i \in DOMAIN books /\ i \notin canceled /\ books[i].trip = s.trip
                           /\ books[i].status = "paid",
         Past(s, n) # Done /\ ~ Covered(Past(s, n).todo[1].calls) =>
            /\ s.id # 0 /\ s.id \notin s.kept /\ s.id \in DOMAIN books /\ s.id \notin canceled
            /\ books[s.id].trip = s.trip /\ books[s.id].status = "held"
  PROVE  LET t == Past(s, n)
         IN  /\ t = Done \/ SlotOK(t)
             /\ OwnsOK(t, books, canceled)
             /\ Owns(t) \subseteq s.kept \cup {s.id}
             /\ t # Done /\ Covered(t.todo[1].calls) => Owns(t) = s.kept
<1> DEFINE t == Past(s, n)
<1>1. CASE t = Done
  BY <1>1 DEF OwnsOK, Owns
<1>2. CASE t # Done
  <2>1. /\ SlotCore(t) /\ t.pc = "calling" /\ t.trip = s.trip /\ t.id = s.id /\ t.kept = s.kept
    BY <1>2, PastOK
  <2>2. Holds(t) => ~ Covered(t.todo[1].calls)
    BY <2>1 DEF Holds
  <2> HIDE DEF t
  <2>3. Owns(t) = s.kept \cup (IF Holds(t) THEN {s.id} ELSE {})
    BY <1>2, <2>1 DEF Owns
  <2>4. Standing(t) = "held"
    BY <2>1 DEF Standing
  <2>5. SlotOK(t)
    <3>1. HasId(t) => ~ Covered(t.todo[1].calls)
      BY <2>1 DEF HasId
    <3> QED BY <1>2, <2>1, <3>1 DEF SlotOK, t
  <2>6. Holds(t) => /\ s.id # 0 /\ s.id \notin s.kept /\ s.id \in DOMAIN books /\ s.id \notin canceled
                    /\ books[s.id].trip = s.trip /\ books[s.id].status = "held"
    BY <1>2, <2>2 DEF t
  <2> HIDE DEF Holds
  <2>7. OwnsOK(t, books, canceled)
    BY <2>1, <2>3, <2>4, <2>6 DEF OwnsOK
  <2> QED BY <2>2, <2>3, <2>5, <2>7 DEF t
<1> QED BY <1>1, <1>2

(* What every passenger knows of its own.                                  *)
LEMMA KeptOK ==
  ASSUME NEW s, s # Done, NEW books, NEW canceled, OwnsOK(s, books, canceled)
  PROVE  \A i \in s.kept : /\ i \in Owns(s) /\ i \in DOMAIN books /\ i \notin canceled
                           /\ books[i].trip = s.trip /\ books[i].status = "paid"
<1>1. \A i \in s.kept : i \in Owns(s)
  BY DEF Owns
<1> QED BY <1>1 DEF OwnsOK

LEMMA HeldOK ==
  ASSUME NEW s, s # Done, NEW books, NEW canceled, OwnsOK(s, books, canceled), Holds(s)
  PROVE  /\ s.id \in Owns(s) /\ s.id \notin s.kept /\ s.id \in DOMAIN books /\ s.id \notin canceled
         /\ books[s.id].trip = s.trip /\ books[s.id].status = Standing(s)
<1>1. s.id \in Owns(s)
  BY DEF Owns
<1> QED BY <1>1 DEF OwnsOK

(* An error leaves a passenger with nothing more to do, or with the next   *)
(* block.                                                                  *)
LEMMA FailsOK ==
  ASSUME Owners, Stages, NEW g \in Passengers, slot[g] # Done,
         NEW kind \in Critical \cup {"timeout", "application"}, Fails(g, kind)
  PROVE  /\ \/ slot' = [slot EXCEPT ![g] = Done]
            \/ slot' = [slot EXCEPT ![g] = Past(slot[g], Len(slot[g].todo[1].calls))]
         /\ Len(slot[g].todo[1].calls) \in 1 .. Len(slot[g].todo[1].calls)
         /\ errs' = WithError(g, kind, slot[g].todo[1].adds) /\ slot[g].todo[1].adds \in Nat
<1>1. SlotOK(slot[g])
  BY DEF Owners
<1>2. slot[g].todo \in Seq(BlockType) /\ slot[g].todo # << >> /\ BlockOK(slot[g].todo[1])
  <2>1. slot[g].todo \in Seq(BlockType) /\ slot[g].todo # << >> /\ \A m \in DOMAIN slot[g].todo : BlockOK(slot[g].todo[m])
    BY <1>1 DEF SlotOK, SlotCore, TodoOK
  <2> QED BY <2>1
<1>3. /\ Head(slot[g].todo) = slot[g].todo[1] /\ slot[g].todo[1].fatal \in BOOLEAN
      /\ slot[g].todo[1].adds \in Nat
      /\ slot[g].todo[1].calls \in Seq(CallName) /\ slot[g].todo[1].calls # << >>
  BY <1>2 DEF BlockOK, BlockType
<1>4. Past(slot[g], Len(slot[g].todo[1].calls)) = Settled(slot[g], Tail(slot[g].todo))
  BY <1>3 DEF Past
<1>5. Settled(slot[g], << >>) = Done
  BY DEF Settled
<1>6. slot' = [slot EXCEPT ![g] = IF slot[g].todo[1].fatal THEN Settled(slot[g], << >>)
                                   ELSE Settled(slot[g], Tail(slot[g].todo))]
  BY <1>3 DEF Fails
<1>7. Len(slot[g].todo[1].calls) \in 1 .. Len(slot[g].todo[1].calls)
  BY <1>3
<1>8. errs' = WithError(g, kind, slot[g].todo[1].adds)
  BY <1>3 DEF Fails
<1> QED BY <1>3, <1>4, <1>5, <1>6, <1>7, <1>8

LEMMA WithErrorOK ==
  ASSUME errs \in ErrsType, NEW g, NEW kind \in Critical \cup {"timeout", "application"}, NEW adds \in Nat
  PROVE  /\ WithError(g, kind, adds) \in ErrsType
         /\ WithError(g, kind, adds).final = errs.final
         /\ WithError(g, kind, adds).msgs \subseteq errs.msgs \cup {kind}
         /\ g = driver => WithError(g, kind, adds).pretest /\ WithError(g, kind, adds).msgs = errs.msgs
         /\ g # driver => WithError(g, kind, adds).pretest = errs.pretest
<1>0. AppLimit \in Nat
  BY BenchAssumption
<1>1. CASE g = driver
  <2>1. WithError(g, kind, adds) = [errs EXCEPT !.pretest = TRUE]
    BY <1>1, Zenon DEF WithError
  <2> QED BY <1>1, <2>1 DEF ErrsType
<1>2. CASE g # driver /\ phase # "load"
  <2>1. WithError(g, kind, adds) = errs
    BY <1>2, Zenon DEF WithError
  <2> QED BY <1>2, <2>1 DEF ErrsType
<1>3. CASE g # driver /\ phase = "load" /\ kind = "timeout"
  <2>0. kind # "application" /\ kind \notin Critical
    BY <1>3 DEF Critical
  <2>1. WithError(g, kind, adds) = errs
    BY <1>3, <2>0, Zenon DEF WithError
  <2> QED BY <1>3, <2>1 DEF ErrsType
<1>4. CASE g # driver /\ phase = "load" /\ kind = "application"
  <2>0. kind # "timeout" /\ kind \notin Critical
    BY <1>4 DEF Critical
  <2>1. WithError(g, kind, adds)
          = [errs EXCEPT !.application = IF errs.application + adds > AppLimit THEN AppLimit
                                         ELSE errs.application + adds]
    BY <1>4, <2>0, Zenon DEF WithError
  <2> QED BY <1>0, <1>4, <2>1 DEF ErrsType
<1>5. CASE g # driver /\ phase = "load" /\ kind \in Critical
  <2>0. kind # "timeout" /\ kind # "application"
    BY <1>5 DEF Critical
  <2>1. WithError(g, kind, adds) = [errs EXCEPT !.msgs = errs.msgs \cup {kind}]
    BY <1>5, <2>0, Zenon DEF WithError
  <2> HIDE DEF Critical
  <2> QED BY <1>5, <2>1 DEF ErrsType
<1> QED BY <1>1, <1>2, <1>3, <1>4, <1>5

-----------------------------------------------------------------------------
(* The owners, step by step.                                               *)

LEMMA BooksSame == ASSUME Books, UNCHANGED <<booked, cache>>  PROVE Books'
BY DEF Books

LEMMA StagesSame ==
  ASSUME Stages, UNCHANGED <<phase, deadline, errs, busy, verdict>>,
         hurt' \subseteq Party
  PROVE  Stages'
BY DEF Stages

(* A passenger goes on; what it has behind its calls it had before.        *)
LEMMA PastStep ==
  ASSUME Owners, NEW g \in Passengers, slot[g] # Done, NEW s, SlotCore(s), s.trip = slot[g].trip,
         NEW n \in 1 .. Len(s.todo[1].calls),
         slot' = [slot EXCEPT ![g] = Past(s, n)], booked' = booked,
         cache'.canceled \subseteq cache.canceled \cup Owns(slot[g]),
         \A i \in s.kept : i \in Owns(slot[g]) /\ booked[i].status = "paid" /\ i \notin cache'.canceled,
         Past(s, n) # Done /\ ~ Covered(Past(s, n).todo[1].calls) =>
            /\ s.id # 0 /\ s.id \notin s.kept /\ s.id \in Owns(slot[g])
            /\ booked[s.id].status = "held" /\ s.id \notin cache'.canceled
  PROVE  Owners'
<1> DEFINE x == Past(s, n)
<1>1. OwnsOK(slot[g], booked, cache.canceled)
  BY DEF Owners
<1>2. \A i \in Owns(slot[g]) : i \in DOMAIN booked /\ booked[i].trip = s.trip
  BY <1>1 DEF OwnsOK
<1>3. /\ x = Done \/ SlotOK(x)
      /\ OwnsOK(x, booked, cache'.canceled)
      /\ Owns(x) \subseteq s.kept \cup {s.id}
      /\ x # Done /\ Covered(x.todo[1].calls) => Owns(x) = s.kept
  <2>1. \A i \in s.kept : /\ i \in DOMAIN booked /\ i \notin cache'.canceled /\ booked[i].trip = s.trip
                          /\ booked[i].status = "paid"
    BY <1>2
  <2>2. Past(s, n) # Done /\ ~ Covered(Past(s, n).todo[1].calls) =>
            /\ s.id # 0 /\ s.id \notin s.kept /\ s.id \in DOMAIN booked /\ s.id \notin cache'.canceled
            /\ booked[s.id].trip = s.trip /\ booked[s.id].status = "held"
    BY <1>2
  <2> QED BY <2>1, <2>2, PastOwns
<1>4. Owns(x) \subseteq Owns(slot[g])
  <2>1. CASE x = Done
    BY <2>1 DEF Owns
  <2>2. CASE x # Done
    BY <1>3, <2>2
  <2> QED BY <2>1, <2>2
<1> HIDE DEF x
<1>5. g \in Goroutine /\ g # tester /\ Mine(g) = Owns(slot[g])
  BY SomeGoroutine DEF Mine
<1>6. slot' = [slot EXCEPT ![g] = x]
  BY DEF x
<1>7. /\ Owns(x) \subseteq Mine(g) \cup (DOMAIN booked' \ DOMAIN booked)
      /\ DOMAIN booked \subseteq DOMAIN booked'
      /\ \A i \in DOMAIN booked \ Mine(g) : booked'[i] = booked[i]
      /\ cache'.canceled \subseteq cache.canceled \cup Mine(g)
      /\ OwnsOK(x, booked', cache'.canceled)
  BY <1>3, <1>4, <1>5
<1> QED BY <1>3, <1>5, <1>6, <1>7, OwnersStep

(* Calls that reserve nothing.                                             *)
LEMMA QuietPast ==
  ASSUME Owners, NEW g \in Passengers, slot[g] # Done, slot[g].pc = "calling", NEW s, SlotCore(s),
         s.trip = slot[g].trip, s.id = slot[g].id, s.kept = slot[g].kept, s.todo = slot[g].todo,
         NEW n \in 1 .. Len(slot[g].todo[1].calls),
         \A k \in 1 .. n : slot[g].todo[1].calls[k] \notin {"reserve", "vague"},
         slot' = [slot EXCEPT ![g] = Past(s, n)], UNCHANGED <<booked, cache>>
  PROVE  Owners'
<1>1. SlotOK(slot[g]) /\ OwnsOK(slot[g], booked, cache.canceled)
  BY DEF Owners
<1>2. \A i \in s.kept : i \in Owns(slot[g]) /\ booked[i].status = "paid" /\ i \notin cache'.canceled
  BY <1>1, KeptOK
<1>3. ASSUME Past(s, n) # Done, ~ Covered(Past(s, n).todo[1].calls)
      PROVE  /\ s.id # 0 /\ s.id \notin s.kept /\ s.id \in Owns(slot[g])
             /\ booked[s.id].status = "held" /\ s.id \notin cache'.canceled
  <2>1. ~ Covered(slot[g].todo[1].calls)
    BY <1>3, PastOK
  <2>2. s.id # 0
    BY <1>1, <2>1 DEF SlotOK, HasId
  <2>3. Holds(slot[g]) /\ Standing(slot[g]) = "held"
    BY <2>1, <2>2 DEF Holds, Standing
  <2> QED BY <1>1, <2>2, <2>3, HeldOK
<1>4. cache'.canceled \subseteq cache.canceled \cup Owns(slot[g])
  OBVIOUS
<1> QED BY <1>2, <1>3, <1>4, PastStep

(* The reservation a passenger was busy with is left to itself.            *)
LEMMA ReleasedPast ==
  ASSUME Owners, NEW g \in Passengers, slot[g] # Done, NEW s, SlotCore(s),
         s.trip = slot[g].trip, s.kept = slot[g].kept, s.todo = slot[g].todo,
         NEW n \in 1 .. Len(slot[g].todo[1].calls),
         \/ n = Len(slot[g].todo[1].calls)
         \/ \E k \in 1 .. n : slot[g].todo[1].calls[k] \in {"commit", "cancel", "racer"},
         slot' = [slot EXCEPT ![g] = Past(s, n)], booked' = booked, cache'.canceled = cache.canceled
  PROVE  Owners'
<1>1. OwnsOK(slot[g], booked, cache.canceled)
  BY DEF Owners
<1>2. \A i \in s.kept : i \in Owns(slot[g]) /\ booked[i].status = "paid" /\ i \notin cache'.canceled
  BY <1>1, KeptOK
<1>3. Past(s, n) # Done => Covered(Past(s, n).todo[1].calls)
  BY PastOK DEF NotBegun
<1>4. cache'.canceled \subseteq cache.canceled \cup Owns(slot[g])
  OBVIOUS
<1> QED BY <1>2, <1>3, <1>4, PastStep

LEMMA DoneStep ==
  ASSUME Owners, NEW g \in Passengers, slot' = [slot EXCEPT ![g] = Done], UNCHANGED <<booked, cache>>
  PROVE  Owners'
<1>1. OwnsOK(Done, booked', cache'.canceled) /\ Owns(Done) = {}
  BY DEF OwnsOK, Owns
<1>2. g \in Goroutine /\ g # tester
  BY SomeGoroutine
<1> QED BY <1>1, <1>2, OwnersStep

(* An error.                                                               *)
LEMMA FailsInv ==
  ASSUME BenchIInv, NEW g \in Goroutine, NEW pc, pc # "done", NEW names, On(g, pc, names),
         NEW kind \in Critical \cup {"timeout", "application"}, Fails(g, kind),
         UNCHANGED <<phase, deadline, cache, booked, busy, verdict>>,
         hurt' \subseteq Party
  PROVE  BenchIInv'
<1>1. g \in Passengers /\ slot[g] # Done /\ SlotOK(slot[g])
  BY OnFacts DEF BenchIInv
<1>2. /\ \/ slot' = [slot EXCEPT ![g] = Done]
         \/ slot' = [slot EXCEPT ![g] = Past(slot[g], Len(slot[g].todo[1].calls))]
      /\ Len(slot[g].todo[1].calls) \in 1 .. Len(slot[g].todo[1].calls)
      /\ errs' = WithError(g, kind, slot[g].todo[1].adds) /\ slot[g].todo[1].adds \in Nat
  BY <1>1, FailsOK DEF BenchIInv
<1>3. Owners'
  <2>1. CASE slot' = [slot EXCEPT ![g] = Done]
    BY <1>1, <2>1, DoneStep DEF BenchIInv
  <2>2. CASE slot' = [slot EXCEPT ![g] = Past(slot[g], Len(slot[g].todo[1].calls))]
    BY <1>1, <1>2, <2>2, ReleasedPast DEF BenchIInv, SlotOK
  <2> QED BY <1>2, <2>1, <2>2
<1>4. errs \in ErrsType
  BY DEF BenchIInv, Stages
<1>5. errs' \in ErrsType /\ errs'.final = errs.final
  <2>1. \A adds \in Nat : WithError(g, kind, adds) \in ErrsType /\ WithError(g, kind, adds).final = errs.final
    BY <1>4, WithErrorOK
  <2> QED BY <1>2, <2>1
<1>6. Stages'
  BY <1>5 DEF BenchIInv, Stages
<1> QED BY <1>3, <1>6, BooksSame DEF BenchIInv

(* A booking changes its status.                                           *)
LEMMA StatusOK ==
  ASSUME booked \in Seq(Booking), NEW i \in DOMAIN booked, NEW st \in {"held", "paid", "gone"},
         booked' = [booked EXCEPT ![i].status = st]
  PROVE  /\ booked' \in Seq(Booking) /\ DOMAIN booked' = DOMAIN booked
         /\ booked'[i].status = st /\ booked'[i].trip = booked[i].trip /\ booked'[i].seats = booked[i].seats
         /\ \A k \in DOMAIN booked : k # i => booked'[k] = booked[k]
<1> DEFINE b == [booked[i] EXCEPT !.status = st]
<1>1. booked[i] \in Booking
  OBVIOUS
<1>2. b \in Booking /\ b.status = st /\ b.trip = booked[i].trip /\ b.seats = booked[i].seats
  BY <1>1 DEF Booking
<1>3. booked' = [booked EXCEPT ![i] = b]
  OBVIOUS
<1> HIDE DEF b
<1> QED BY <1>2, <1>3

LEMMA AppendOK ==
  ASSUME booked \in Seq(Booking), NEW b \in Booking, booked' = Append(booked, b)
  PROVE  /\ booked' \in Seq(Booking) /\ DOMAIN booked' = DOMAIN booked \cup {Len(booked) + 1}
         /\ booked'[Len(booked) + 1] = b /\ \A k \in DOMAIN booked : booked'[k] = booked[k]
         /\ Len(booked') = Len(booked) + 1 /\ Len(booked) + 1 \notin DOMAIN booked
         /\ Len(booked) + 1 \in Nat /\ Len(booked) + 1 # 0
<1> HIDE DEF Booking
<1> QED OBVIOUS

-----------------------------------------------------------------------------
(* What the application gives.                                             *)

LEMMA FreeInCar == ASSUME NEW trip, NEW car  PROVE Free(trip, car) \subseteq car
BY DEF Free

LEMMA FirstOfFew ==
  ASSUME NEW S, S \subseteq Nat, IsFiniteSet(S)
  PROVE  /\ FirstOf(S, 2) \subseteq S /\ IsFiniteSet(FirstOf(S, 2)) /\ Cardinality(FirstOf(S, 2)) <= 2
<1>1. 2 \in Nat
  OBVIOUS
<1> QED BY <1>1, LowestAreFew DEF FirstOf

(* The places of a car are numbered, and few.                              *)
LEMMA FreePlaces ==
  ASSUME NEW trip \in AnyTrip, NEW c \in DOMAIN CarsOf[trip.train]
  PROVE  LET S == Free(trip, CarsOf[trip.train][c])
         IN  S \subseteq Nat /\ IsFiniteSet(S) /\ S \subseteq Seats
<1>1. trip.train \in DOMAIN CarsOf
  BY BenchAssumption
<1>2. CarsOf[trip.train][c] \subseteq Nat /\ IsFiniteSet(CarsOf[trip.train][c])
  BY <1>1, BenchAssumption
<1>3. CarsOf[trip.train][c] \subseteq Seats
  BY <1>1 DEF Seats
<1> QED BY <1>2, <1>3, FreeInCar, FS_Subset

(* The application gives free seats of one car, two at most, and those     *)
(* asked for if any were.                                                  *)
LEMMA GivenOK ==
  ASSUME NEW trip \in AnyTrip, NEW asked, IsFiniteSet(asked), Cardinality(asked) <= People
  PROVE  LET given == GivenSeats(trip, asked)
         IN  /\ given # {} => trip \in Served
             /\ given = {} \/ \E c \in DOMAIN CarsOf[trip.train] : given \subseteq Free(trip, CarsOf[trip.train][c])
             /\ given \in SUBSET Seats /\ IsFiniteSet(given) /\ Cardinality(given) <= People
             /\ asked # {} /\ given # {} => given = asked
             /\ trip \in Served /\ asked # {}
                  /\ (\E c \in DOMAIN CarsOf[trip.train] : asked \subseteq Free(trip, CarsOf[trip.train][c]))
                  => given = asked
<1> DEFINE given == GivenSeats(trip, asked)
           F(c) == Free(trip, CarsOf[trip.train][c])
<1>1. IsFiniteSet({}) /\ Cardinality({}) <= People /\ {} \in SUBSET Seats
  BY FS_EmptySet DEF People
<1>2. DOMAIN CarsOf[trip.train] \subseteq Nat
  BY BenchAssumption
<1>0. CASE trip \notin Served
  BY <1>0, <1>1 DEF GivenSeats
<1>3. CASE trip \in Served /\ asked = {}
  <2> DEFINE roomy == {c \in DOMAIN CarsOf[trip.train] : Cardinality(F(c)) >= People}
             first == CHOOSE c \in roomy : \A d \in roomy : c <= d
  <2>1. given = IF roomy = {} THEN {} ELSE FirstOf(F(first), People)
    BY <1>3 DEF GivenSeats, VagueSeats
  <2>2. CASE roomy = {}
    BY <1>1, <1>3, <2>1, <2>2
  <2>3. CASE roomy # {}
    <3>1. first \in roomy
      BY <1>2, <2>3, LeastNumber
    <3> HIDE DEF first
    <3>2. first \in DOMAIN CarsOf[trip.train] /\ given = FirstOf(F(first), 2)
      BY <2>1, <2>3, <3>1 DEF People
    <3>3. F(first) \subseteq Nat /\ IsFiniteSet(F(first)) /\ F(first) \subseteq Seats
      BY <3>2, FreePlaces
    <3> HIDE DEF roomy, F
    <3>4. given \subseteq F(first) /\ IsFiniteSet(given) /\ Cardinality(given) <= 2
      BY <3>2, <3>3, FirstOfFew
    <3> QED BY <1>3, <3>2, <3>3, <3>4 DEF F, People
  <2> QED BY <2>2, <2>3
<1>4. CASE trip \in Served /\ asked # {}
  <2>1. given = IF \E c \in DOMAIN CarsOf[trip.train] : asked \subseteq F(c) THEN asked ELSE {}
    BY <1>4 DEF GivenSeats
  <2>2. \A c \in DOMAIN CarsOf[trip.train] : F(c) \subseteq Seats
    BY FreePlaces
  <2> HIDE DEF F
  <2>3. CASE \E c \in DOMAIN CarsOf[trip.train] : asked \subseteq F(c)
    BY <1>4, <2>1, <2>2, <2>3 DEF F
  <2>4. CASE ~ \E c \in DOMAIN CarsOf[trip.train] : asked \subseteq F(c)
    BY <1>1, <1>4, <2>1, <2>4 DEF F
  <2> QED BY <2>3, <2>4
<1> QED BY <1>0, <1>3, <1>4

-----------------------------------------------------------------------------
(* A passenger's steps.                                                    *)

LEMMA AsksInv == ASSUME BenchIInv, NEW g \in Goroutine, Asks(g)  PROVE BenchIInv'
<1>1. On(g, "calling", Plain) /\ UNCHANGED <<phase, deadline, errs, cache, booked, busy, hurt, verdict>>
  BY DEF Asks
<1>2. g \in Passengers /\ slot[g] # Done /\ SlotOK(slot[g]) /\ slot[g].pc = "calling"
  BY <1>1, OnFacts DEF BenchIInv
<1>3. PICK n \in 1 .. Len(slot[g].todo[1].calls) :
         /\ slot' = [slot EXCEPT ![g] = Past(slot[g], n)]
         /\ \A i \in 1 .. n : slot[g].todo[1].calls[i] \in Plain
  BY AsksOK DEF BenchIInv
<1>4. \A i \in 1 .. n : slot[g].todo[1].calls[i] \notin {"reserve", "vague"}
  BY <1>3 DEF Plain, AccountCalls, TimetableCalls, ViewCalls
<1>5. Owners'
  BY <1>1, <1>2, <1>3, <1>4, QuietPast DEF BenchIInv, SlotOK
<1>6. Stages'
  BY <1>1, StagesSame DEF BenchIInv, Stages
<1> QED BY <1>1, <1>5, <1>6, BooksSame DEF BenchIInv

(* One call that reserves nothing, with a fact about the map remembered.   *)
LEMMA QuietCall ==
  ASSUME BenchIInv, NEW g \in Goroutine, NEW names, On(g, "calling", names),
         names \cap {"reserve", "vague"} = {},
         NEW s, SlotCore(s), s.trip = slot[g].trip, s.id = slot[g].id, s.kept = slot[g].kept,
         s.todo = slot[g].todo,
         slot' = [slot EXCEPT ![g] = Past(s, 1)], UNCHANGED <<booked, cache>>
  PROVE  Owners'
<1>1. g \in Passengers /\ slot[g] # Done /\ slot[g].pc = "calling" /\ Call(slot[g]) \in names
      /\ slot[g].todo[1].calls \in Seq(CallName) /\ 1 \in DOMAIN slot[g].todo[1].calls
  BY OnFacts DEF BenchIInv
<1>2. 1 \in 1 .. Len(slot[g].todo[1].calls)
      /\ \A k \in 1 .. 1 : slot[g].todo[1].calls[k] \notin {"reserve", "vague"}
  BY <1>1 DEF Call
<1> QED BY <1>1, <1>2, QuietPast DEF BenchIInv

LEMMA MapsInv == ASSUME BenchIInv, NEW g \in Goroutine, Maps(g)  PROVE BenchIInv'
<1> DEFINE s == [slot[g] EXCEPT !.asked = FilterTrainSeats(slot[g].trip)]
<1>1. On(g, "calling", {"map"}) /\ UNCHANGED <<phase, deadline, errs, cache, booked, busy, hurt, verdict>>
      /\ slot' = [slot EXCEPT ![g] = Past(s, 1)]
  BY DEF Maps
<1>2. g \in Passengers /\ SlotCore(slot[g])
  BY <1>1, OnFacts DEF BenchIInv, SlotOK
<1>3. slot[g] \in SlotType
  BY <1>2 DEF SlotCore
<1>4. slot[g].trip \in AnyTrip /\ 1 \in DOMAIN CarsOf[slot[g].trip.train]
  BY <1>3, BenchAssumption DEF SlotType
<1> DEFINE seats == FilterTrainSeats(slot[g].trip)
<1>5. seats \subseteq Nat /\ IsFiniteSet(seats) /\ Cardinality(seats) <= 2
  BY <1>4, FreePlaces, FirstOfFew DEF FilterTrainSeats
<1> HIDE DEF seats
<1>6. s \in SlotType /\ s.trip = slot[g].trip /\ s.id = slot[g].id /\ s.kept = slot[g].kept
      /\ s.todo = slot[g].todo /\ s.asked = seats
  BY <1>3, <1>5 DEF SlotType, seats
<1> HIDE DEF s
<1>7. SlotCore(s)
  BY <1>2, <1>5, <1>6 DEF SlotCore, People
<1>8. Owners'
  BY <1>1, <1>6, <1>7, QuietCall
<1>9. Stages'
  BY <1>1, StagesSame DEF BenchIInv, Stages
<1> QED BY <1>1, <1>8, <1>9, BooksSame DEF BenchIInv

(* A request is served: the passenger gets seats that are free, those it   *)
(* asked for if it asked for any, or nothing.                              *)
LEMMA ReservesCases ==
  ASSUME BenchIInv, NEW g \in Goroutine, Reserves(g)
  PROVE  LET s == slot[g]
             given == GivenSeats(s.trip, Asked(g))
             b == [trip |-> s.trip, seats |-> given, status |-> "held"]
             id == IF given = {} THEN 0 ELSE Len(booked) + 1
             x == [s EXCEPT !.pc = "served", !.id = id]
         IN  /\ On(g, "calling", ReserveCalls)
             /\ UNCHANGED <<phase, deadline, errs, cache, busy, hurt, verdict>>
             /\ booked' = IF given = {} THEN booked ELSE Append(booked, b)
             /\ (given # {} => b \in Booking) /\ IsFiniteSet(given) /\ Cardinality(given) <= People
             /\ given = {} \/ \E c \in DOMAIN CarsOf[s.trip.train] : given \subseteq Free(s.trip, CarsOf[s.trip.train][c])
             /\ Asked(g) # {} /\ given # {} => given = Asked(g)
             /\ slot' = [slot EXCEPT ![g] = x]
             /\ (given # {} => id = Len(booked) + 1 /\ id # 0) /\ (given = {} => id = 0)
             /\ x # Done /\ SlotOK(x) /\ x.pc = "served" /\ x.id = id /\ x.trip = s.trip /\ x.todo = s.todo
             /\ x.asked = s.asked /\ x.kept = s.kept /\ x.won = s.won /\ Call(x) = Call(s)
             /\ Owns(x) = s.kept \cup (IF id # 0 THEN {id} ELSE {}) /\ OwnsOK(x, booked', cache'.canceled)
             /\ booked' \in Seq(Booking)
             /\ \A k \in DOMAIN booked : k \in DOMAIN booked' /\ booked'[k] = booked[k]
             /\ id # 0 => id \in DOMAIN booked' /\ id \notin DOMAIN booked /\ booked'[id] = b
<1> DEFINE s == slot[g]
           given == GivenSeats(s.trip, Asked(g))
           b == [trip |-> s.trip, seats |-> given, status |-> "held"]
           id == IF given = {} THEN 0 ELSE Len(booked) + 1
           x == [s EXCEPT !.pc = "served", !.id = id]
<1>1. /\ On(g, "calling", ReserveCalls) /\ UNCHANGED <<phase, deadline, errs, cache, busy, hurt, verdict>>
      /\ booked' = IF given = {} THEN booked ELSE Append(booked, b)
      /\ slot' = [slot EXCEPT ![g].pc = "served", ![g].id = id]
  BY DEF Reserves, ReserveCalls
<1>2. /\ g \in Passengers /\ g # tester /\ s # Done /\ SlotCore(s) /\ OwnsOK(s, booked, cache.canceled)
      /\ Mine(g) = Owns(s) /\ Call(s) \in ReserveCalls
  BY <1>1, OnFacts DEF BenchIInv, SlotOK
<1>3. s \in SlotType /\ s.trip \in AnyTrip
  BY <1>2 DEF SlotCore, SlotType
<1>4. IsFiniteSet(Asked(g)) /\ Cardinality(Asked(g)) <= People
  <2>1. IsFiniteSet({}) /\ Cardinality({}) <= People
    BY FS_EmptySet DEF People
  <2> QED BY <1>2, <2>1 DEF Asked, SlotCore
<1>5. /\ given \in SUBSET Seats /\ IsFiniteSet(given) /\ Cardinality(given) <= People
      /\ given # {} => s.trip \in Served
      /\ given = {} \/ \E c \in DOMAIN CarsOf[s.trip.train] : given \subseteq Free(s.trip, CarsOf[s.trip.train][c])
      /\ Asked(g) # {} /\ given # {} => given = Asked(g)
  BY <1>3, <1>4, GivenOK
<1>6. given # {} => b \in Booking
  BY <1>5 DEF Booking
<1>7. booked \in Seq(Booking) /\ slot = [h \in Goroutine |-> slot[h]]
  BY DEF BenchIInv, Books, Owners
<1>8. slot' = [slot EXCEPT ![g] = x]
  BY <1>1, <1>7
<1>9. b.trip = s.trip /\ b.status = "held" /\ b.seats = given
  OBVIOUS
<1> HIDE DEF given, b
<1>10. /\ id \in Nat /\ (given # {} => id = Len(booked) + 1 /\ id # 0) /\ (given = {} => id = 0)
  BY <1>7
<1> HIDE DEF id
<1>11. /\ x \in SlotType /\ x.pc = "served" /\ x.id = id /\ x.trip = s.trip /\ x.todo = s.todo
       /\ x.asked = s.asked /\ x.kept = s.kept /\ x.won = s.won
  BY <1>3, <1>10 DEF SlotType
<1> HIDE DEF x
<1>12. Call(x) = Call(s)
  BY <1>11 DEF Call
<1>13. SlotOK(x) /\ Standing(x) = "held" /\ x # Done
  <2>1. SlotCore(x)
    BY <1>2, <1>11 DEF SlotCore
  <2>2. ~ HasId(x)
    BY <1>2, <1>11, <1>12 DEF HasId
  <2>3. x # Done /\ Standing(x) = "held"
    BY <1>2, <1>11, <1>12 DEF Done, Standing, ReserveCalls
  <2> QED BY <1>2, <1>11, <1>12, <2>1, <2>2, <2>3 DEF SlotOK
<1>14. Owns(x) = s.kept \cup (IF id # 0 THEN {id} ELSE {}) /\ (Holds(x) <=> id # 0)
  BY <1>11, <1>13 DEF Owns, Holds
<1>15. /\ \A k \in DOMAIN booked : k \in DOMAIN booked' /\ booked'[k] = booked[k]
       /\ booked' \in Seq(Booking)
       /\ id # 0 => /\ id \in DOMAIN booked' /\ id \notin DOMAIN booked
                    /\ booked'[id] = b
  <2>1. CASE given = {}
    BY <1>1, <1>7, <1>10, <2>1
  <2>2. CASE given # {}
    BY <1>1, <1>6, <1>7, <1>10, <2>2, AppendOK
  <2> QED BY <2>1, <2>2
<1>16. \A i \in s.kept : i \in Owns(s) /\ i \in DOMAIN booked /\ i \notin cache.canceled
                         /\ booked[i].trip = s.trip /\ booked[i].status = "paid"
  BY <1>2, KeptOK
<1>17. cache.canceled \subseteq DOMAIN booked
  BY DEF BenchIInv, Books
<1>18. OwnsOK(x, booked', cache'.canceled)
  BY <1>1, <1>9, <1>11, <1>13, <1>14, <1>15, <1>16, <1>17 DEF OwnsOK
<1> QED BY <1>1, <1>5, <1>6, <1>8, <1>10, <1>11, <1>12, <1>13, <1>14, <1>15, <1>18 DEF given, b, id, x

LEMMA ReservesInv == ASSUME BenchIInv, NEW g \in Goroutine, Reserves(g)  PROVE BenchIInv'
<1> DEFINE s == slot[g]
           given == GivenSeats(s.trip, Asked(g))
           id == IF given = {} THEN 0 ELSE Len(booked) + 1
           x == [s EXCEPT !.pc = "served", !.id = id]
<1>1. /\ On(g, "calling", ReserveCalls) /\ UNCHANGED <<phase, deadline, errs, cache, busy, hurt, verdict>>
      /\ slot' = [slot EXCEPT ![g] = x] /\ SlotOK(x) /\ OwnsOK(x, booked', cache'.canceled)
      /\ Owns(x) = s.kept \cup (IF id # 0 THEN {id} ELSE {})
      /\ booked' \in Seq(Booking) /\ \A k \in DOMAIN booked : k \in DOMAIN booked' /\ booked'[k] = booked[k]
      /\ id # 0 => id \in DOMAIN booked' /\ id \notin DOMAIN booked
  BY ReservesCases
<1> HIDE DEF given, id, x
<1>2. g \in Passengers /\ g # tester /\ s # Done /\ OwnsOK(s, booked, cache.canceled) /\ Mine(g) = Owns(s)
  BY <1>1, OnFacts DEF BenchIInv
<1>3. \A i \in s.kept : i \in Owns(s)
  BY <1>2, KeptOK
<1>4. Owners'
  <2>1. /\ Owns(x) \subseteq Mine(g) \cup (DOMAIN booked' \ DOMAIN booked)
        /\ DOMAIN booked \subseteq DOMAIN booked'
        /\ \A i \in DOMAIN booked \ Mine(g) : booked'[i] = booked[i]
        /\ cache'.canceled \subseteq cache.canceled \cup Mine(g)
    BY <1>1, <1>2, <1>3
  <2> QED BY <1>1, <1>2, <2>1, OwnersStep DEF BenchIInv
<1>5. Books'
  BY <1>1 DEF BenchIInv, Books
<1>6. Stages'
  BY <1>1, StagesSame DEF BenchIInv, Stages
<1> QED BY <1>4, <1>5, <1>6 DEF BenchIInv

(* One call of a race, lost or refused.                                    *)
LEMMA RacerGoesOn ==
  ASSUME BenchIInv, NEW g \in Goroutine, NEW pc, pc # "done", On(g, pc, {"racer"}),
         NEW s, SlotCore(s), s.trip = slot[g].trip, s.kept = slot[g].kept, s.todo = slot[g].todo,
         slot' = [slot EXCEPT ![g] = Past(s, 1)], booked' = booked, cache'.canceled = cache.canceled
  PROVE  Owners'
<1>1. g \in Passengers /\ slot[g] # Done /\ SlotCore(slot[g]) /\ Call(slot[g]) = "racer"
      /\ slot[g].todo[1].calls \in Seq(CallName) /\ 1 \in DOMAIN slot[g].todo[1].calls
  BY OnFacts DEF BenchIInv, SlotOK
<1>2. 1 \in 1 .. Len(slot[g].todo[1].calls)
      /\ \E k \in 1 .. 1 : slot[g].todo[1].calls[k] \in {"commit", "cancel", "racer"}
  BY <1>1 DEF Call
<1> QED BY <1>1, <1>2, ReleasedPast DEF BenchIInv

(* The four outcomes of a reserve request.                                 *)
LEMMA HearsReserveCases ==
  ASSUME NEW g, HearsReserve(g)
  PROVE  /\ On(g, "served", ReserveCalls)
         /\ UNCHANGED <<phase, deadline, cache, booked, busy, hurt, verdict>>
         /\ \/ slot[g].id = 0 /\ On(g, "served", {"racer"}) /\ Next1(g) /\ errs' = errs
            \/ slot[g].id = 0 /\ ~ On(g, "served", {"racer"}) /\ Fails(g, "application")
            \/ /\ slot[g].id # 0
               /\ On(g, "served", {"racer"}) \/ CanReserve(cache, Request(g))
               /\ slot' = [slot EXCEPT ![g].pc = "approved"] /\ errs' = errs
            \/ /\ slot[g].id # 0 /\ ~ On(g, "served", {"racer"}) /\ ~ CanReserve(cache, Request(g))
               /\ Fails(g, "taken seat sold")
<1> DEFINE racing == On(g, "served", {"racer"})
           free == CanReserve(cache, Request(g))
<1>1. On(g, "served", ReserveCalls) /\ UNCHANGED <<phase, deadline, cache, booked, busy, hurt, verdict>>
  BY DEF HearsReserve, ReserveCalls
<1>2. CASE slot[g].id = 0 /\ racing
  <2>1. Next1(g) /\ UNCHANGED errs
    BY <1>2, Zenon DEF HearsReserve
  <2> QED BY <1>1, <1>2, <2>1
<1>3. CASE slot[g].id = 0 /\ ~racing
  <2>1. Fails(g, "application")
    BY <1>3, Zenon DEF HearsReserve
  <2> QED BY <1>1, <1>3, <2>1
<1>4. CASE slot[g].id # 0 /\ (racing \/ free)
  <2>1. slot' = [slot EXCEPT ![g].pc = "approved"] /\ UNCHANGED errs
    BY <1>4, Zenon DEF HearsReserve
  <2> QED BY <1>1, <1>4, <2>1
<1>5. CASE slot[g].id # 0 /\ ~racing /\ ~free
  <2>1. Fails(g, "taken seat sold")
    BY <1>5, Zenon DEF HearsReserve
  <2> QED BY <1>1, <1>5, <2>1
<1> QED BY <1>2, <1>3, <1>4, <1>5

LEMMA HearsReserveInv == ASSUME BenchIInv, NEW g \in Goroutine, HearsReserve(g)  PROVE BenchIInv'
<1>1. /\ On(g, "served", ReserveCalls)
      /\ UNCHANGED <<phase, deadline, cache, booked, busy, hurt, verdict>>
  BY HearsReserveCases
<1>2. hurt' \subseteq Party
  BY <1>1 DEF BenchIInv, Stages
<1>3. CASE On(g, "served", {"racer"}) /\ Next1(g) /\ errs' = errs
  <2>1. Owners'
    <3>1. SlotCore(slot[g])
      BY <1>3, OnFacts DEF BenchIInv, SlotOK
    <3> QED BY <1>1, <1>3, <3>1, RacerGoesOn DEF Next1
  <2>2. Stages'
    BY <1>1, <1>2, <1>3, StagesSame DEF BenchIInv
  <2> QED BY <1>1, <2>1, <2>2, BooksSame DEF BenchIInv
<1>4. ASSUME NEW kind \in {"application", "taken seat sold"}, Fails(g, kind)  PROVE BenchIInv'
  <2>1. kind \in Critical \cup {"timeout", "application"}
    BY DEF Critical
  <2> QED BY <1>1, <1>2, <1>4, <2>1, FailsInv
<1>5. CASE slot[g].id # 0 /\ slot' = [slot EXCEPT ![g].pc = "approved"] /\ errs' = errs
  <2> DEFINE s == slot[g]
             x == [s EXCEPT !.pc = "approved"]
  <2>1. /\ g \in Passengers /\ g # tester /\ s # Done /\ SlotCore(s) /\ OwnsOK(s, booked, cache.canceled)
        /\ Mine(g) = Owns(s) /\ Call(s) \in ReserveCalls /\ s.pc = "served"
    BY <1>1, OnFacts DEF BenchIInv, SlotOK
  <2>2. s \in SlotType
    BY <2>1 DEF SlotCore
  <2>3. slot' = [slot EXCEPT ![g] = x]
    BY <1>5 DEF BenchIInv, Owners
  <2>4. /\ x \in SlotType /\ x.pc = "approved" /\ x.id = s.id /\ x.trip = s.trip /\ x.todo = s.todo
        /\ x.asked = s.asked /\ x.kept = s.kept
    BY <2>2 DEF SlotType
  <2> HIDE DEF x
  <2>5. SlotOK(x) /\ Standing(x) = "held" /\ x # Done
    <3>1. Call(x) = Call(s)
      BY <2>4 DEF Call
    <3>2. SlotCore(x) /\ x # Done
      BY <2>1, <2>4 DEF SlotCore, Done
    <3> QED BY <1>5, <2>1, <2>4, <3>1, <3>2 DEF SlotOK, Standing
  <2>6. Standing(s) = "held" /\ Holds(s) /\ Holds(x) /\ Owns(x) = Owns(s)
    <3>1. Standing(s) = "held"
      BY <2>1 DEF Standing, ReserveCalls
    <3>2. Holds(s) /\ Holds(x)
      BY <1>5, <2>1, <2>4 DEF Holds
    <3> QED BY <2>1, <2>4, <2>5, <3>1, <3>2 DEF Owns
  <2>7. OwnsOK(x, booked', cache'.canceled)
    BY <1>1, <2>1, <2>4, <2>5, <2>6 DEF OwnsOK
  <2>8. Owners'
    <3>1. /\ Owns(x) \subseteq Mine(g) \cup (DOMAIN booked' \ DOMAIN booked)
          /\ DOMAIN booked \subseteq DOMAIN booked'
          /\ \A i \in DOMAIN booked \ Mine(g) : booked'[i] = booked[i]
          /\ cache'.canceled \subseteq cache.canceled \cup Mine(g)
      BY <1>1, <2>1, <2>6
    <3> QED BY <2>1, <2>3, <2>5, <2>7, <3>1, OwnersStep DEF BenchIInv
  <2>9. Stages'
    BY <1>1, <1>2, <1>5, StagesSame DEF BenchIInv
  <2> QED BY <1>1, <2>8, <2>9, BooksSame DEF BenchIInv
<1> QED BY <1>3, <1>4, <1>5, HearsReserveCases

(* The cache learns of a reservation of the application's.                 *)
LEMMA AddOK ==
  ASSUME Books, NEW id, id \in DOMAIN booked', NEW req, cache' = CacheAdd(cache, id, req),
         \A i \in DOMAIN booked : i \in DOMAIN booked' /\ booked'[i] = booked[i],
         booked' \in Seq(Booking)
  PROVE  /\ Books' /\ cache'.canceled = cache.canceled /\ cache'.committed = cache.committed
         /\ DOMAIN cache'.added = DOMAIN cache.added \cup {id} /\ cache'.added[id] = req
         /\ \A i \in DOMAIN cache.added : i # id => cache'.added[i] = cache.added[i]
<1> DEFINE added == [i \in DOMAIN cache.added \cup {id} |-> IF i = id THEN req ELSE cache.added[i]]
<1>1. cache' = [cache EXCEPT !.added = added]
  BY DEF CacheAdd
<1>2. /\ DOMAIN added = DOMAIN cache.added \cup {id} /\ added[id] = req
      /\ \A i \in DOMAIN cache.added : i # id => added[i] = cache.added[i]
  OBVIOUS
<1> HIDE DEF added
<1>3. cache' = [added |-> added, committed |-> cache.committed, canceled |-> cache.canceled]
  BY <1>1 DEF Books
<1>4. cache'.added = added /\ cache'.canceled = cache.canceled /\ cache'.committed = cache.committed
  BY <1>3
<1>5. cache' = [added |-> cache'.added, committed |-> cache'.committed, canceled |-> cache'.canceled]
  BY <1>3, <1>4
<1>6. Books'
  BY <1>2, <1>4, <1>5 DEF Books
<1> QED BY <1>2, <1>4, <1>6

LEMMA AddsInv == ASSUME BenchIInv, NEW g \in Goroutine, Adds(g)  PROVE BenchIInv'
<1> DEFINE s == slot[g]
<1>1. /\ On(g, "approved", ReserveCalls) /\ UNCHANGED <<phase, deadline, errs, booked, busy, hurt, verdict>>
      /\ cache' = CacheAdd(cache, s.id, Request(g))
      /\ slot' = [slot EXCEPT ![g] = IF On(g, "approved", {"racer"})
                                       THEN Past([s EXCEPT !.won = s.won + 1], 1)
                                       ELSE [s EXCEPT !.pc = "added"]]
  BY DEF Adds, ReserveCalls
<1>2. /\ g \in Passengers /\ g # tester /\ s # Done /\ SlotOK(s) /\ SlotCore(s) /\ OwnsOK(s, booked, cache.canceled)
      /\ Mine(g) = Owns(s) /\ Call(s) \in ReserveCalls /\ s.pc = "approved"
      /\ Head(s.todo) = s.todo[1] /\ s.todo[1].calls \in Seq(CallName) /\ 1 \in DOMAIN s.todo[1].calls
  BY <1>1, OnFacts DEF BenchIInv, SlotOK
<1>3. s \in SlotType
  BY <1>2 DEF SlotCore
<1>4. s.id # 0 /\ Holds(s)
  BY <1>2 DEF SlotOK, HasId, Holds
<1>5. s.id \in DOMAIN booked
  BY <1>2, <1>4, HeldOK
<1>6. Books' /\ cache'.canceled = cache.canceled
  <2>1. booked' \in Seq(Booking) /\ \A i \in DOMAIN booked : i \in DOMAIN booked' /\ booked'[i] = booked[i]
    BY <1>1 DEF BenchIInv, Books
  <2> QED BY <1>1, <1>5, <2>1, AddOK DEF BenchIInv
<1>7. Stages'
  BY <1>1, StagesSame DEF BenchIInv, Stages
<1>8. CASE On(g, "approved", {"racer"})
  <2> DEFINE t == [s EXCEPT !.won = s.won + 1]
  <2>1. /\ t \in SlotType /\ t.trip = s.trip /\ t.kept = s.kept /\ t.todo = s.todo /\ t.asked = s.asked
    BY <1>3 DEF SlotType
  <2>2. slot' = [slot EXCEPT ![g] = Past(t, 1)]
    BY <1>1, <1>8
  <2> HIDE DEF t
  <2>3. SlotCore(t)
    BY <1>2, <2>1 DEF SlotCore
  <2>6. Owners'
    BY <1>1, <1>6, <1>8, <2>1, <2>2, <2>3, RacerGoesOn
  <2> QED BY <1>6, <1>7, <2>6 DEF BenchIInv
<1>9. CASE ~ On(g, "approved", {"racer"})
  <2> DEFINE x == [s EXCEPT !.pc = "added"]
  <2>1. slot' = [slot EXCEPT ![g] = x]
    BY <1>1, <1>9
  <2>2. /\ x \in SlotType /\ x.pc = "added" /\ x.id = s.id /\ x.trip = s.trip /\ x.todo = s.todo
        /\ x.asked = s.asked /\ x.kept = s.kept
    BY <1>3 DEF SlotType
  <2> HIDE DEF x
  <2>3. Call(s) # "racer"
    <3>1. Call(s) = Head(Head(s.todo).calls)
      BY <1>2 DEF Call
    <3>2. Awake(g) /\ s.pc = "approved" /\ g # tester
      BY <1>1 DEF On
    <3> QED BY <1>9, <3>1, <3>2 DEF On
  <2>4. SlotOK(x) /\ Standing(x) = "held" /\ x # Done
    <3>1. Call(x) = Call(s) /\ Call(s) \in {"reserve", "vague"}
      BY <1>2, <2>2, <2>3 DEF Call, ReserveCalls
    <3>2. SlotCore(x) /\ x # Done
      BY <1>2, <2>2 DEF SlotCore, Done
    <3> QED BY <1>4, <2>2, <3>1, <3>2 DEF SlotOK, Standing
  <2>5. Standing(s) = "held" /\ Holds(x) /\ Owns(x) = Owns(s)
    <3>1. Standing(s) = "held"
      BY <1>2 DEF Standing
    <3>2. Holds(x)
      BY <1>4, <2>2 DEF Holds
    <3> QED BY <1>2, <1>4, <2>2, <2>4, <3>1, <3>2 DEF Owns
  <2>6. OwnsOK(x, booked', cache'.canceled)
    BY <1>1, <1>2, <1>4, <1>6, <2>2, <2>4, <2>5 DEF OwnsOK
  <2>7. Owners'
    <3>1. /\ Owns(x) \subseteq Mine(g) \cup (DOMAIN booked' \ DOMAIN booked)
          /\ DOMAIN booked \subseteq DOMAIN booked'
          /\ \A i \in DOMAIN booked \ Mine(g) : booked'[i] = booked[i]
          /\ cache'.canceled \subseteq cache.canceled \cup Mine(g)
      BY <1>1, <1>2, <1>6, <2>5
    <3> QED BY <1>2, <2>1, <2>4, <2>6, <3>1, OwnersStep DEF BenchIInv
  <2> QED BY <1>6, <1>7, <2>7 DEF BenchIInv
<1> QED BY <1>8, <1>9

LEMMA FirstReleases ==
  ASSUME NEW s, SlotCore(s), 1 \in 1 .. Len(s.todo[1].calls),
         s.todo[1].calls[1] \in {"commit", "cancel", "racer"}
  PROVE  Past(s, 1) # Done => Covered(Past(s, 1).todo[1].calls)
<1>1. \E k \in 1 .. 1 : s.todo[1].calls[k] \in {"commit", "cancel", "racer"}
  OBVIOUS
<1> QED BY <1>1, PastOK

LEMMA AssertsReserveInv == ASSUME BenchIInv, NEW g \in Goroutine, AssertsReserve(g)  PROVE BenchIInv'
<1> DEFINE s == slot[g]
<1>1. /\ On(g, "added", {"reserve", "vague"})
      /\ UNCHANGED <<phase, deadline, cache, booked, busy, hurt, verdict>>
      /\ \/ slot' = [slot EXCEPT ![g] = Past(s, 1)] /\ errs' = errs
         \/ Fails(g, "too few seats")
  BY DEF AssertsReserve, Next1
<1>2. hurt' \subseteq Party
  BY <1>1 DEF BenchIInv, Stages
<1>3. CASE Fails(g, "too few seats")
  <2>1. "too few seats" \in Critical \cup {"timeout", "application"}
    BY DEF Critical
  <2> QED BY <1>1, <1>2, <1>3, <2>1, FailsInv
<1>4. CASE slot' = [slot EXCEPT ![g] = Past(s, 1)] /\ errs' = errs
  <2>1. /\ g \in Passengers /\ s # Done /\ SlotOK(s) /\ SlotCore(s) /\ OwnsOK(s, booked, cache.canceled)
        /\ s.pc = "added" /\ s.todo[1].calls \in Seq(CallName) /\ 1 \in DOMAIN s.todo[1].calls
    BY <1>1, OnFacts DEF BenchIInv, SlotOK
  <2>2. s.id # 0 /\ Holds(s) /\ Standing(s) = "held"
    BY <2>1 DEF SlotOK, HasId, Holds, Standing
  <2>a. cache' = cache /\ booked' = booked
    BY <1>1
  <2>3. \A i \in s.kept : i \in Owns(s) /\ booked[i].status = "paid" /\ i \notin cache'.canceled
    BY <2>1, <2>a, KeptOK
  <2>4. /\ s.id # 0 /\ s.id \notin s.kept /\ s.id \in Owns(s)
        /\ booked[s.id].status = "held" /\ s.id \notin cache'.canceled
    BY <2>1, <2>2, <2>a, HeldOK
  <2>5. 1 \in 1 .. Len(s.todo[1].calls) /\ cache'.canceled \subseteq cache.canceled \cup Owns(s)
    BY <2>1, <2>a
  <2>6. Owners'
    BY <1>4, <2>a, <2>1, <2>3, <2>4, <2>5, PastStep DEF BenchIInv
  <2>7. Stages'
    BY <1>1, <1>2, <1>4, StagesSame DEF BenchIInv
  <2> QED BY <1>1, <2>6, <2>7, BooksSame DEF BenchIInv
<1> QED BY <1>1, <1>3, <1>4

(* The status of a booking of its own changes, and the cache hears nothing *)
(* of it yet.                                                              *)
LEMMA StatusBooks ==
  ASSUME Books, NEW i \in DOMAIN booked, NEW st \in {"paid", "gone"}, i \notin cache.canceled \/ st = "gone",
         booked' = [booked EXCEPT ![i].status = st], cache' = cache
  PROVE  Books'
<1>1. /\ booked' \in Seq(Booking) /\ DOMAIN booked' = DOMAIN booked /\ booked'[i].status = st
      /\ \A k \in DOMAIN booked : k # i => booked'[k] = booked[k]
  BY StatusOK DEF Books
<1>2. \A k \in cache.committed \cup cache.canceled : k \in DOMAIN booked
  BY DEF Books
<1> QED BY <1>1, <1>2 DEF Books

LEMMA CommitsInv == ASSUME BenchIInv, NEW g \in Goroutine, Commits(g)  PROVE BenchIInv'
<1> DEFINE s == slot[g]
           x == [s EXCEPT !.pc = "served"]
<1>1. /\ On(g, "calling", {"commit"}) /\ UNCHANGED <<phase, deadline, errs, cache, busy, hurt, verdict>>
      /\ booked' = [booked EXCEPT ![s.id].status = "paid"]
      /\ slot' = [slot EXCEPT ![g].pc = "served"]
  BY DEF Commits
<1>2. /\ g \in Passengers /\ g # tester /\ s # Done /\ SlotOK(s) /\ SlotCore(s) /\ OwnsOK(s, booked, cache.canceled)
      /\ Mine(g) = Owns(s) /\ Call(s) = "commit" /\ s.pc = "calling"
      /\ s.todo[1].calls \in Seq(CallName) /\ 1 \in DOMAIN s.todo[1].calls
  BY <1>1, OnFacts DEF BenchIInv, SlotOK
<1>3. s \in SlotType
  BY <1>2 DEF SlotCore
<1>4. ~ Covered(s.todo[1].calls)
  BY <1>2 DEF Covered, Call
<1>5. s.id # 0 /\ Holds(s)
  BY <1>2, <1>4 DEF SlotOK, HasId, Holds
<1>6. s.id \in Owns(s) /\ s.id \notin s.kept /\ s.id \in DOMAIN booked /\ s.id \notin cache.canceled
      /\ booked[s.id].trip = s.trip
  BY <1>2, <1>5, HeldOK
<1>7. booked \in Seq(Booking)
  BY DEF BenchIInv, Books
<1>8. /\ DOMAIN booked' = DOMAIN booked
      /\ booked'[s.id].status = "paid" /\ booked'[s.id].trip = booked[s.id].trip
      /\ \A k \in DOMAIN booked : k # s.id => booked'[k] = booked[k]
  BY <1>1, <1>6, <1>7, StatusOK
<1>9. slot' = [slot EXCEPT ![g] = x]
  BY <1>1 DEF BenchIInv, Owners
<1>10. /\ x \in SlotType /\ x.pc = "served" /\ x.id = s.id /\ x.trip = s.trip /\ x.todo = s.todo
       /\ x.asked = s.asked /\ x.kept = s.kept
  BY <1>3 DEF SlotType
<1> HIDE DEF x
<1>11. SlotOK(x) /\ Standing(x) = "paid" /\ x # Done
  <2>1. Call(x) = "commit"
    BY <1>2, <1>10 DEF Call
  <2>2. SlotCore(x) /\ x # Done
    BY <1>2, <1>10 DEF SlotCore, Done
  <2> QED BY <1>5, <1>10, <2>1, <2>2 DEF SlotOK, Standing
<1>12. Holds(x) /\ Owns(x) = Owns(s) /\ Owns(s) = s.kept \cup {s.id}
  <2>1. Holds(x)
    BY <1>5, <1>10 DEF Holds
  <2> QED BY <1>2, <1>5, <1>10, <1>11, <2>1 DEF Owns
<1>13. \A i \in s.kept : i \in DOMAIN booked /\ i \notin cache.canceled
                         /\ booked[i].trip = s.trip /\ booked[i].status = "paid"
  BY <1>2, KeptOK
<1>14. OwnsOK(x, booked', cache'.canceled)
  BY <1>1, <1>6, <1>8, <1>10, <1>11, <1>12, <1>13 DEF OwnsOK
<1>15. Owners'
  <2>1. /\ Owns(x) \subseteq Mine(g) \cup (DOMAIN booked' \ DOMAIN booked)
        /\ DOMAIN booked \subseteq DOMAIN booked'
        /\ \A i \in DOMAIN booked \ Mine(g) : booked'[i] = booked[i]
        /\ cache'.canceled \subseteq cache.canceled \cup Mine(g)
    BY <1>1, <1>2, <1>8, <1>12
  <2> QED BY <1>2, <1>9, <1>11, <1>14, <2>1, OwnersStep DEF BenchIInv
<1>16. Books'
  BY <1>1, <1>6, StatusBooks DEF BenchIInv
<1>17. Stages'
  BY <1>1, StagesSame DEF BenchIInv, Stages
<1> QED BY <1>15, <1>16, <1>17 DEF BenchIInv

LEMMA HearsCommitInv == ASSUME BenchIInv, NEW g \in Goroutine, HearsCommit(g)  PROVE BenchIInv'
<1> DEFINE s == slot[g]
           t == [s EXCEPT !.kept = s.kept \cup {s.id}]
<1>1. /\ On(g, "served", {"commit"}) /\ UNCHANGED <<phase, deadline, errs, booked, busy, hurt, verdict>>
      /\ cache' = CacheCommit(cache, s.id) /\ slot' = [slot EXCEPT ![g] = Past(t, 1)]
  BY DEF HearsCommit
<1>2. /\ g \in Passengers /\ s # Done /\ SlotOK(s) /\ SlotCore(s) /\ OwnsOK(s, booked, cache.canceled)
      /\ Call(s) = "commit" /\ s.pc = "served"
      /\ s.todo[1].calls \in Seq(CallName) /\ 1 \in DOMAIN s.todo[1].calls
  BY <1>1, OnFacts DEF BenchIInv, SlotOK
<1>3. s \in SlotType
  BY <1>2 DEF SlotCore
<1>4. s.id # 0 /\ Holds(s) /\ Standing(s) = "paid"
  BY <1>2 DEF SlotOK, HasId, Holds, Standing, ReserveCalls
<1>5. s.id \in Owns(s) /\ s.id \in DOMAIN booked /\ s.id \notin cache.canceled /\ booked[s.id].status = "paid"
  BY <1>2, <1>4, HeldOK
<1>6. /\ t \in SlotType /\ t.trip = s.trip /\ t.todo = s.todo /\ t.asked = s.asked
      /\ t.kept = s.kept \cup {s.id}
  BY <1>3 DEF SlotType
<1> HIDE DEF t
<1>7. SlotCore(t)
  BY <1>2, <1>6 DEF SlotCore
<1>8. /\ cache' = [added |-> cache'.added, committed |-> cache'.committed, canceled |-> cache'.canceled]
      /\ cache'.added = cache.added /\ cache'.canceled = cache.canceled
      /\ cache'.committed = IF s.id \in DOMAIN cache.added THEN cache.committed \cup {s.id} ELSE cache.committed
  BY <1>1 DEF CacheCommit, BenchIInv, Books
<1>9. \A i \in t.kept : i \in Owns(s) /\ booked[i].status = "paid" /\ i \notin cache'.canceled
  BY <1>2, <1>5, <1>6, <1>8, KeptOK
<1>10. 1 \in 1 .. Len(t.todo[1].calls) /\ t.todo[1].calls[1] = "commit"
  BY <1>2, <1>6 DEF Call
<1>11. Past(t, 1) # Done => Covered(Past(t, 1).todo[1].calls)
  BY <1>7, <1>10, FirstReleases
<1>12. Owners'
  BY <1>1, <1>2, <1>6, <1>7, <1>8, <1>9, <1>10, <1>11, PastStep DEF BenchIInv
<1>13. Books'
  BY <1>1, <1>5, <1>8 DEF BenchIInv, Books
<1>14. Stages'
  BY <1>1, StagesSame DEF BenchIInv, Stages
<1> QED BY <1>12, <1>13, <1>14 DEF BenchIInv

LEMMA CancelsInv == ASSUME BenchIInv, NEW g \in Goroutine, Cancels(g)  PROVE BenchIInv'
<1> DEFINE s == slot[g]
           i == NextKept(g)
           x == [s EXCEPT !.pc = "served", !.id = i, !.kept = s.kept \ {i}]
<1>1. /\ On(g, "calling", {"cancel"}) /\ UNCHANGED <<phase, deadline, errs, cache, busy, hurt, verdict>>
      /\ s.kept # {} /\ booked' = [booked EXCEPT ![i].status = "gone"]
      /\ slot' = [slot EXCEPT ![g].pc = "served", ![g].id = i, ![g].kept = @ \ {i}]
  BY DEF Cancels
<1>2. /\ g \in Passengers /\ g # tester /\ s # Done /\ SlotOK(s) /\ SlotCore(s) /\ OwnsOK(s, booked, cache.canceled)
      /\ Mine(g) = Owns(s) /\ Call(s) = "cancel" /\ s.pc = "calling"
  BY <1>1, OnFacts DEF BenchIInv, SlotOK
<1>3. s \in SlotType /\ s.kept \subseteq Nat
  BY <1>2 DEF SlotCore, SlotType
<1>4. i \in s.kept
  BY <1>1, <1>3, LeastNumber DEF NextKept
<1>5. \A k \in s.kept : /\ k \in Owns(s) /\ k \in DOMAIN booked /\ k \notin cache.canceled
                        /\ booked[k].trip = s.trip /\ booked[k].status = "paid"
  BY <1>2, KeptOK
<1>6. booked \in Seq(Booking) /\ slot = [h \in Goroutine |-> slot[h]]
  BY DEF BenchIInv, Books, Owners
<1> HIDE DEF i
<1>7. i \in Nat /\ i # 0
  BY <1>4, <1>5, <1>6
<1>8. slot' = [slot EXCEPT ![g] = x]
  BY <1>1, <1>6
<1>9. /\ DOMAIN booked' = DOMAIN booked
      /\ booked'[i].status = "gone" /\ booked'[i].trip = booked[i].trip
      /\ \A k \in DOMAIN booked : k # i => booked'[k] = booked[k]
  BY <1>1, <1>4, <1>5, <1>6, StatusOK
<1>10. /\ x \in SlotType /\ x.pc = "served" /\ x.id = i /\ x.trip = s.trip /\ x.todo = s.todo
       /\ x.asked = s.asked /\ x.kept = s.kept \ {i}
  BY <1>3, <1>7 DEF SlotType
<1> HIDE DEF x
<1>11. SlotOK(x) /\ Standing(x) = "gone" /\ x # Done
  <2>1. Call(x) = "cancel"
    BY <1>2, <1>10 DEF Call
  <2>2. SlotCore(x) /\ x # Done
    BY <1>2, <1>10 DEF SlotCore, Done
  <2> QED BY <1>7, <1>10, <2>1, <2>2 DEF SlotOK, Standing
<1>12. Holds(x) /\ Owns(x) = s.kept
  <2>1. Holds(x)
    BY <1>7, <1>10 DEF Holds
  <2> QED BY <1>4, <1>10, <1>11, <2>1 DEF Owns
<1>13. OwnsOK(x, booked', cache'.canceled)
  BY <1>1, <1>4, <1>5, <1>9, <1>10, <1>11, <1>12 DEF OwnsOK
<1>14. Owners'
  <2>1. /\ Owns(x) \subseteq Mine(g) \cup (DOMAIN booked' \ DOMAIN booked)
        /\ DOMAIN booked \subseteq DOMAIN booked'
        /\ \A k \in DOMAIN booked \ Mine(g) : booked'[k] = booked[k]
        /\ cache'.canceled \subseteq cache.canceled \cup Mine(g)
    BY <1>1, <1>2, <1>4, <1>5, <1>9, <1>12
  <2> QED BY <1>2, <1>8, <1>11, <1>13, <2>1, OwnersStep DEF BenchIInv
<1>15. Books'
  BY <1>1, <1>4, <1>5, StatusBooks DEF BenchIInv
<1>16. Stages'
  BY <1>1, StagesSame DEF BenchIInv, Stages
<1> QED BY <1>14, <1>15, <1>16 DEF BenchIInv

LEMMA HearsCancelInv == ASSUME BenchIInv, NEW g \in Goroutine, HearsCancel(g)  PROVE BenchIInv'
<1> DEFINE s == slot[g]
<1>1. /\ On(g, "served", {"cancel"}) /\ UNCHANGED <<phase, deadline, errs, booked, busy, hurt, verdict>>
      /\ cache' = CacheCancel(cache, s.id) /\ slot' = [slot EXCEPT ![g] = Past(s, 1)]
  BY DEF HearsCancel, Next1
<1>2. /\ g \in Passengers /\ s # Done /\ SlotOK(s) /\ SlotCore(s) /\ OwnsOK(s, booked, cache.canceled)
      /\ Call(s) = "cancel" /\ s.pc = "served"
      /\ s.todo[1].calls \in Seq(CallName) /\ 1 \in DOMAIN s.todo[1].calls
  BY <1>1, OnFacts DEF BenchIInv, SlotOK
<1>3. s.id # 0 /\ Holds(s) /\ Standing(s) = "gone"
  BY <1>2 DEF SlotOK, HasId, Holds, Standing, ReserveCalls
<1>4. s.id \in Owns(s) /\ s.id \notin s.kept /\ s.id \in DOMAIN booked /\ booked[s.id].status = "gone"
  BY <1>2, <1>3, HeldOK
<1>5. \/ cache' = cache
      \/ /\ s.id \in DOMAIN cache.added
         /\ cache' = [added |-> cache'.added, committed |-> cache'.committed, canceled |-> cache'.canceled]
         /\ cache'.added = cache.added /\ cache'.canceled = cache.canceled \cup {s.id}
         /\ cache'.committed = cache.committed \ {s.id}
  BY <1>1 DEF CacheCancel, BenchIInv, Books
<1>6. \A i \in s.kept : i \in Owns(s) /\ booked[i].status = "paid" /\ i \notin cache'.canceled
  BY <1>2, <1>4, <1>5, KeptOK
<1>7. 1 \in 1 .. Len(s.todo[1].calls) /\ s.todo[1].calls[1] = "cancel"
  BY <1>2 DEF Call
<1>8. Past(s, 1) # Done => Covered(Past(s, 1).todo[1].calls)
  BY <1>2, <1>7, FirstReleases
<1>9. cache'.canceled \subseteq cache.canceled \cup Owns(s)
  BY <1>4, <1>5
<1>10. Owners'
  BY <1>1, <1>2, <1>6, <1>7, <1>8, <1>9, PastStep DEF BenchIInv
<1>11. Books'
  BY <1>1, <1>4, <1>5 DEF BenchIInv, Books
<1>12. Stages'
  BY <1>1, StagesSame DEF BenchIInv, Stages
<1> QED BY <1>10, <1>11, <1>12 DEF BenchIInv

-----------------------------------------------------------------------------
(* The scenarios.                                                          *)

CallsOK(calls) ==
  /\ calls \in Seq(CallName) /\ calls # << >>
  /\ CommitFirst(calls) /\ AfterMap(calls) /\ CardThenCommit(calls) /\ Covered(calls)
  /\ calls[1] # "wrongSeat"

(* The calls of most blocks: neither a race nor spoilt seats.              *)
OrdinaryName == {"signup", "login", "logout", "stations", "search", "list", "show", "card", "refused",
                 "foreignCancel", "map", "reserve", "vague", "commit", "cancel", "count"}
Ordinary(calls) == CallsOK(calls) /\ \A k \in DOMAIN calls : calls[k] \in OrdinaryName

LEMMA OrdinaryOK ==
  ASSUME NEW calls, calls \in Seq(CallName), calls # << >>, CommitFirst(calls), CardThenCommit(calls), Covered(calls),
         \A k \in DOMAIN calls : calls[k] \in OrdinaryName
  PROVE  Ordinary(calls)
<1>1. 1 \in DOMAIN calls
  OBVIOUS
<1>2. \A name \in OrdinaryName : name # "wrongSeat"
  BY DEF OrdinaryName
<1>3. AfterMap(calls) /\ calls[1] # "wrongSeat"
  BY <1>1, <1>2 DEF AfterMap
<1> QED BY <1>3 DEF Ordinary, CallsOK

LEMMA CallsOfNormal == Ordinary(Register \o Specified \o <<"list", "show", "logout">>)
<1> DEFINE L == Register \o Specified \o <<"list", "show", "logout">>
<1>1. L \in Seq(CallName) /\ L # << >>
  BY DEF Register, Specified, CallName
<1>a. \A k \in DOMAIN L : L[k] \in OrdinaryName
  BY DEF Register, Specified, OrdinaryName, CallName
<1>2. CommitFirst(L)
  BY DEF Register, Specified, CommitFirst
<1>3. Covered(L)
  BY DEF Register, Specified, Covered
<1>4. CardThenCommit(L)
  BY DEF Register, Specified, CardThenCommit
<1> QED BY <1>1, <1>a, <1>2, <1>3, <1>4, OrdinaryOK
LEMMA CallsOfNormalCancel == Ordinary(Register \o Specified \o <<"list", "show", "cancel", "logout">>)
<1> DEFINE L == Register \o Specified \o <<"list", "show", "cancel", "logout">>
<1>1. L \in Seq(CallName) /\ L # << >>
  BY DEF Register, Specified, CallName
<1>a. \A k \in DOMAIN L : L[k] \in OrdinaryName
  BY DEF Register, Specified, OrdinaryName, CallName
<1>2. CommitFirst(L)
  BY DEF Register, Specified, CommitFirst
<1>3. Covered(L)
  BY DEF Register, Specified, Covered
<1>4. CardThenCommit(L)
  BY DEF Register, Specified, CardThenCommit
<1> QED BY <1>1, <1>a, <1>2, <1>3, <1>4, OrdinaryOK
LEMMA CallsOfNormalVague == Ordinary(Register \o Register \o <<"vague">>)
<1> DEFINE L == Register \o Register \o <<"vague">>
<1>1. L \in Seq(CallName) /\ L # << >>
  BY DEF Register, CallName
<1>a. \A k \in DOMAIN L : L[k] \in OrdinaryName
  BY DEF Register, OrdinaryName, CallName
<1>2. CommitFirst(L)
  BY DEF Register, CommitFirst
<1>3. Covered(L)
  BY DEF Register, Covered
<1>4. CardThenCommit(L)
  BY DEF Register, CardThenCommit
<1> QED BY <1>1, <1>a, <1>2, <1>3, <1>4, OrdinaryOK
LEMMA CallsOfStations == Ordinary(Stations)
<1> DEFINE L == Stations
<1>1. L \in Seq(CallName) /\ L # << >>
  BY DEF Stations, Register, CallName
<1>a. \A k \in DOMAIN L : L[k] \in OrdinaryName
  BY DEF Stations, Register, OrdinaryName, CallName
<1>2. CommitFirst(L)
  BY DEF Stations, Register, CommitFirst
<1>3. Covered(L)
  BY DEF Stations, Register, Covered
<1>4. CardThenCommit(L)
  BY DEF Stations, Register, CardThenCommit
<1> QED BY <1>1, <1>a, <1>2, <1>3, <1>4, OrdinaryOK
LEMMA CallsOfSimple == Ordinary(Simple)
<1> DEFINE L == Simple
<1>1. L \in Seq(CallName) /\ L # << >>
  BY DEF Simple, CallName
<1>a. \A k \in DOMAIN L : L[k] \in OrdinaryName
  BY DEF Simple, OrdinaryName, CallName
<1>2. CommitFirst(L)
  BY DEF Simple, CommitFirst
<1>3. Covered(L)
  BY DEF Simple, Covered
<1>4. CardThenCommit(L)
  BY DEF Simple, CardThenCommit
<1> QED BY <1>1, <1>a, <1>2, <1>3, <1>4, OrdinaryOK
LEMMA CallsOfSpecified == Ordinary(Specified)
<1> DEFINE L == Specified
<1>1. L \in Seq(CallName) /\ L # << >>
  BY DEF Specified, CallName
<1>a. \A k \in DOMAIN L : L[k] \in OrdinaryName
  BY DEF Specified, OrdinaryName, CallName
<1>2. CommitFirst(L)
  BY DEF Specified, CommitFirst
<1>3. Covered(L)
  BY DEF Specified, Covered
<1>4. CardThenCommit(L)
  BY DEF Specified, CardThenCommit
<1> QED BY <1>1, <1>a, <1>2, <1>3, <1>4, OrdinaryOK
LEMMA CallsOfCancel == Ordinary(<<"cancel">>)
<1> DEFINE L == <<"cancel">>
<1>1. L \in Seq(CallName) /\ L # << >>
  BY DEF CallName
<1>a. \A k \in DOMAIN L : L[k] \in OrdinaryName
  BY DEF OrdinaryName, CallName
<1>2. CommitFirst(L)
  BY DEF CommitFirst
<1>3. Covered(L)
  BY DEF Covered
<1>4. CardThenCommit(L)
  BY DEF CardThenCommit
<1> QED BY <1>1, <1>a, <1>2, <1>3, <1>4, OrdinaryOK
LEMMA CallsOfLogout == Ordinary(<<"logout">>)
<1> DEFINE L == <<"logout">>
<1>1. L \in Seq(CallName) /\ L # << >>
  BY DEF CallName
<1>a. \A k \in DOMAIN L : L[k] \in OrdinaryName
  BY DEF OrdinaryName, CallName
<1>2. CommitFirst(L)
  BY DEF CommitFirst
<1>3. Covered(L)
  BY DEF Covered
<1>4. CardThenCommit(L)
  BY DEF CardThenCommit
<1> QED BY <1>1, <1>a, <1>2, <1>3, <1>4, OrdinaryOK
LEMMA CallsOfCount == Ordinary(<<"count">>)
<1> DEFINE L == <<"count">>
<1>1. L \in Seq(CallName) /\ L # << >>
  BY DEF CallName
<1>a. \A k \in DOMAIN L : L[k] \in OrdinaryName
  BY DEF OrdinaryName, CallName
<1>2. CommitFirst(L)
  BY DEF CommitFirst
<1>3. Covered(L)
  BY DEF Covered
<1>4. CardThenCommit(L)
  BY DEF CardThenCommit
<1> QED BY <1>1, <1>a, <1>2, <1>3, <1>4, OrdinaryOK
LEMMA CallsOfAttackRace == Ordinary(Stations \o <<"search", "map">>)
<1> DEFINE L == Stations \o <<"search", "map">>
<1>1. L \in Seq(CallName) /\ L # << >>
  BY DEF Stations, Register, CallName
<1>a. \A k \in DOMAIN L : L[k] \in OrdinaryName
  BY DEF Stations, Register, OrdinaryName, CallName
<1>2. CommitFirst(L)
  BY DEF Stations, Register, CommitFirst
<1>3. Covered(L)
  BY DEF Stations, Register, Covered
<1>4. CardThenCommit(L)
  BY DEF Stations, Register, CardThenCommit
<1> QED BY <1>1, <1>a, <1>2, <1>3, <1>4, OrdinaryOK
LEMMA CallsOfWrongSection == Ordinary(Stations \o <<"search", "map", "refused">>)
<1> DEFINE L == Stations \o <<"search", "map", "refused">>
<1>1. L \in Seq(CallName) /\ L # << >>
  BY DEF Stations, Register, CallName
<1>a. \A k \in DOMAIN L : L[k] \in OrdinaryName
  BY DEF Stations, Register, OrdinaryName, CallName
<1>2. CommitFirst(L)
  BY DEF Stations, Register, CommitFirst
<1>3. Covered(L)
  BY DEF Stations, Register, Covered
<1>4. CardThenCommit(L)
  BY DEF Stations, Register, CardThenCommit
<1> QED BY <1>1, <1>a, <1>2, <1>3, <1>4, OrdinaryOK
LEMMA CallsOfSeasonVague == Ordinary(Stations \o Simple)
<1> DEFINE L == Stations \o Simple
<1>1. L \in Seq(CallName) /\ L # << >>
  BY DEF Stations, Register, Simple, CallName
<1>a. \A k \in DOMAIN L : L[k] \in OrdinaryName
  BY DEF Stations, Register, Simple, OrdinaryName, CallName
<1>2. CommitFirst(L)
  BY DEF Stations, Register, Simple, CommitFirst
<1>3. Covered(L)
  BY DEF Stations, Register, Simple, Covered
<1>4. CardThenCommit(L)
  BY DEF Stations, Register, Simple, CardThenCommit
<1> QED BY <1>1, <1>a, <1>2, <1>3, <1>4, OrdinaryOK
LEMMA CallsOfPretestNormal ==
  Ordinary(Stations \o <<"search", "map", "reserve", "show", "list", "card", "commit", "cancel">>)
<1> DEFINE L == Stations \o <<"search", "map", "reserve", "show", "list", "card", "commit", "cancel">>
<1>1. L \in Seq(CallName) /\ L # << >>
  BY DEF Stations, Register, CallName
<1>a. \A k \in DOMAIN L : L[k] \in OrdinaryName
  BY DEF Stations, Register, OrdinaryName, CallName
<1>2. CommitFirst(L)
  BY DEF Stations, Register, CommitFirst
<1>3. Covered(L)
  BY DEF Stations, Register, Covered
<1>4. CardThenCommit(L)
  BY DEF Stations, Register, CardThenCommit
<1> QED BY <1>1, <1>a, <1>2, <1>3, <1>4, OrdinaryOK
LEMMA CallsOfPretestReserveVague == Ordinary(Register \o <<"vague", "logout">>)
<1> DEFINE L == Register \o <<"vague", "logout">>
<1>1. L \in Seq(CallName) /\ L # << >>
  BY DEF Register, CallName
<1>a. \A k \in DOMAIN L : L[k] \in OrdinaryName
  BY DEF Register, OrdinaryName, CallName
<1>2. CommitFirst(L)
  BY DEF Register, CommitFirst
<1>3. Covered(L)
  BY DEF Register, Covered
<1>4. CardThenCommit(L)
  BY DEF Register, CardThenCommit
<1> QED BY <1>1, <1>a, <1>2, <1>3, <1>4, OrdinaryOK
LEMMA CallsOfRacer == CallsOK(<<"racer">>)
<1> DEFINE L == <<"racer">>
<1>1. L \in Seq(CallName) /\ L # << >> /\ L[1] = "racer" /\ DOMAIN L = 1 .. 1
  BY DEF CallName
<1> HIDE DEF L
<1>2. \A k \in DOMAIN L : k = 1 /\ L[k] = "racer"
  BY <1>1
<1> QED BY <1>1, <1>2 DEF L, CallsOK, CommitFirst, AfterMap, CardThenCommit, Covered
LEMMA CallsOfAttackOther ==
  Ordinary(Register \o Simple \o <<"logout">> \o Register \o <<"foreignCancel">>)
<1> DEFINE L == Register \o Simple \o <<"logout">> \o Register \o <<"foreignCancel">>
<1>1. L \in Seq(CallName) /\ L # << >>
  BY DEF Register, Simple, CallName
<1>2. \A k \in DOMAIN L : L[k] = "commit" => k = 7
  BY DEF Register, Simple
<1>3. \A k \in 1 .. 6 : L[k] \in {"signup", "login", "stations", "search", "vague", "card"}
  BY DEF Register, Simple
<1>4. L[5] = "vague" /\ L[7] = "commit" /\ DOMAIN L = 1 .. 11
  BY DEF Register, Simple
<1>5. \A k \in DOMAIN L : L[k] \in OrdinaryName
  BY DEF Register, Simple, OrdinaryName, CallName
<1>b. \A k \in DOMAIN L : L[k] = "card" => k = 6
  BY DEF Register, Simple
<1> HIDE DEF L
<1>6. CommitFirst(L)
  BY <1>2, <1>3, <1>4 DEF CommitFirst
<1>7. Covered(L)
  BY <1>2, <1>4 DEF Covered
<1>8. CardThenCommit(L)
  BY <1>4, <1>b DEF CardThenCommit
<1> QED BY <1>1, <1>5, <1>6, <1>7, <1>8, OrdinaryOK DEF L
LEMMA CallsOfWrongSeat == CallsOK(Register \o <<"search", "map", "wrongSeat">>)
<1> DEFINE L == Register \o <<"search", "map", "wrongSeat">>
<1>1. L \in Seq(CallName) /\ L # << >>
  BY DEF Register, CallName
<1>2. DOMAIN L = 1 .. 5 /\ L[4] = "map"
  BY DEF Register
<1>3. \A k \in 1 .. 4 : L[k] \in {"signup", "login", "search", "map"}
  BY DEF Register
<1>4. L[5] = "wrongSeat"
  BY DEF Register
<1> HIDE DEF L
<1>5. \A k \in DOMAIN L : L[k] # "commit" /\ L[k] # "card"
  BY <1>2, <1>3, <1>4
<1>6. L[1] # "wrongSeat" /\ AfterMap(L)
  BY <1>2, <1>3 DEF AfterMap
<1> QED BY <1>1, <1>5, <1>6 DEF L, CallsOK, CommitFirst, CardThenCommit, Covered

(* A scenario before it begins.                                            *)
ScenarioOK(blocks, trip) == TodoOK(blocks, trip) /\ NotBegun(blocks[1])

OrdinaryBlocks == {b \in BlockType : Ordinary(b.calls)}

LEMMA OrdinaryBlock ==
  ASSUME NEW b \in OrdinaryBlocks
  PROVE  /\ BlockOK(b) /\ NotBegun(b) /\ ~ Has(b.calls, {"racer"}) /\ ~ Has(b.calls, {"wrongSeat"})
<1>1. b \in BlockType /\ Ordinary(b.calls)
  BY DEF OrdinaryBlocks
<1>2. \A name \in OrdinaryName : name # "racer" /\ name # "wrongSeat"
  BY DEF OrdinaryName
<1>3. ~ Has(b.calls, {"racer"}) /\ ~ Has(b.calls, {"wrongSeat"})
  BY <1>1, <1>2 DEF Ordinary, Has
<1> QED BY <1>1, <1>3 DEF Ordinary, CallsOK, BlockOK, NotBegun

LEMMA OrdinaryScenario ==
  ASSUME NEW blocks \in Seq(OrdinaryBlocks), blocks # << >>
  PROVE  \A trip : ScenarioOK(blocks, trip)
<1>1. blocks \in Seq(BlockType)
  <2>1. \A m \in DOMAIN blocks : blocks[m] \in BlockType
    BY DEF OrdinaryBlocks
  <2> QED BY <2>1
<1>2. \A m \in DOMAIN blocks : /\ BlockOK(blocks[m]) /\ NotBegun(blocks[m])
                               /\ ~ Has(blocks[m].calls, {"racer"}) /\ ~ Has(blocks[m].calls, {"wrongSeat"})
  BY OrdinaryBlock
<1>3. 1 \in DOMAIN blocks
  OBVIOUS
<1> HIDE DEF OrdinaryBlocks, BlockType
<1> QED BY <1>1, <1>2, <1>3 DEF ScenarioOK, TodoOK

LEMMA BlocksAreOrdinary ==
  ASSUME NEW calls, Ordinary(calls), NEW fatal \in BOOLEAN, NEW adds \in Nat
  PROVE  [calls |-> calls, fatal |-> fatal, adds |-> adds] \in OrdinaryBlocks
BY DEF OrdinaryBlocks, BlockType, Ordinary, CallsOK

LEMMA BlockAndTry ==
  ASSUME NEW calls, Ordinary(calls)
  PROVE  Block(calls) \in OrdinaryBlocks /\ Try(calls) \in OrdinaryBlocks
BY BlocksAreOrdinary DEF Block, Try

LEMMA OneBlock ==
  ASSUME NEW calls, Ordinary(calls)
  PROVE  \A trip : ScenarioOK(<<Block(calls)>>, trip)
<1>1. Block(calls) \in OrdinaryBlocks
  BY BlockAndTry
<1>2. <<Block(calls)>> \in Seq(OrdinaryBlocks) /\ <<Block(calls)>> # << >>
  BY <1>1
<1> QED BY <1>2, OrdinaryScenario

LEMMA SimpleScenarios ==
  \A trip : /\ ScenarioOK(Normal, trip) /\ ScenarioOK(NormalCancel, trip) /\ ScenarioOK(NormalVague, trip)
            /\ ScenarioOK(AttackOther, trip) /\ ScenarioOK(WrongSection, trip) /\ ScenarioOK(SeasonVague, trip)
            /\ ScenarioOK(<<PretestNormal>>, trip) /\ ScenarioOK(<<PretestReserveVague>>, trip)
<1>1. \A trip : ScenarioOK(Normal, trip) /\ ScenarioOK(NormalCancel, trip) /\ ScenarioOK(NormalVague, trip)
  BY OneBlock, CallsOfNormal, CallsOfNormalCancel, CallsOfNormalVague DEF Normal, NormalCancel, NormalVague
<1>2. \A trip : ScenarioOK(AttackOther, trip) /\ ScenarioOK(WrongSection, trip) /\ ScenarioOK(SeasonVague, trip)
  BY OneBlock, CallsOfAttackOther, CallsOfWrongSection, CallsOfSeasonVague DEF AttackOther, WrongSection, SeasonVague
<1>3. \A trip : ScenarioOK(<<PretestNormal>>, trip) /\ ScenarioOK(<<PretestReserveVague>>, trip)
  BY OneBlock, CallsOfPretestNormal, CallsOfPretestReserveVague DEF PretestNormal, PretestReserveVague
<1> QED BY <1>1, <1>2, <1>3

LEMMA LongScenarios ==
  \A trip : /\ ScenarioOK(NormalManyCancel, trip) /\ ScenarioOK(NormalManySearch, trip)
            /\ ScenarioOK(SeasonSpecified, trip)
<1>1. /\ Block(Stations) \in OrdinaryBlocks /\ Try(Simple) \in OrdinaryBlocks
      /\ Try(<<"cancel">>) \in OrdinaryBlocks /\ Try(<<"logout">>) \in OrdinaryBlocks
      /\ [calls |-> Specified, fatal |-> TRUE, adds |-> 2] \in OrdinaryBlocks
  BY BlockAndTry, BlocksAreOrdinary, CallsOfStations, CallsOfSimple, CallsOfCancel, CallsOfLogout, CallsOfSpecified
<1>2. Many \in Nat /\ Many # 0
  BY BenchAssumption
<1>3. NormalManyCancel \in Seq(OrdinaryBlocks) /\ NormalManyCancel # << >>
  <2> DEFINE A == <<Block(Stations)>>
             B == Times(Many, Try(Simple))
             C == Times(Many, Try(<<"cancel">>))
             D == <<Try(<<"logout">>)>>
  <2>1. A \in Seq(OrdinaryBlocks) /\ A # << >> /\ D \in Seq(OrdinaryBlocks)
    BY <1>1
  <2>2. B \in Seq(OrdinaryBlocks) /\ C \in Seq(OrdinaryBlocks)
    BY <1>1, <1>2 DEF Times
  <2>3. NormalManyCancel = A \o B \o C \o D
    BY DEF NormalManyCancel
  <2> HIDE DEF A, B, C, D
  <2>4. A \o B \in Seq(OrdinaryBlocks) /\ A \o B # << >>
    BY <2>1, <2>2
  <2>5. (A \o B) \o C \in Seq(OrdinaryBlocks) /\ (A \o B) \o C # << >>
    BY <2>2, <2>4
  <2>6. ((A \o B) \o C) \o D \in Seq(OrdinaryBlocks) /\ ((A \o B) \o C) \o D # << >>
    BY <2>1, <2>5
  <2> QED BY <2>3, <2>6
<1>4. NormalManySearch \in Seq(OrdinaryBlocks) /\ NormalManySearch # << >>
  <2>1. 2 * Many \in Nat /\ 2 * Many # 0
    BY <1>2
  <2> QED BY <1>1, <2>1 DEF NormalManySearch
<1>5. SeasonSpecified \in Seq(OrdinaryBlocks) /\ SeasonSpecified # << >>
  BY <1>1 DEF SeasonSpecified
<1> QED BY <1>3, <1>4, <1>5, OrdinaryScenario

(* The race: after its map nobody looks at one again.                      *)
LEMMA AttackRaceOK == \A trip : ScenarioOK(AttackRace, trip)
<1> DEFINE A == Block(Stations \o <<"search", "map">>)
           R == Try(<<"racer">>)
           C == Block(<<"count">>)
           rest == Times(Racers, R) \o <<C>>
           Plainly == {b \in BlockType : BlockOK(b) /\ NotBegun(b) /\ ~ Has(b.calls, {"wrongSeat"})}
           NoMap == {b \in Plainly : ~ Has(b.calls, {"map"})}
<1>1. A \in OrdinaryBlocks /\ C \in OrdinaryBlocks
  BY BlockAndTry, CallsOfAttackRace, CallsOfCount
<1>2. A \in Plainly /\ C \in Plainly /\ ~ Has(A.calls, {"racer"})
  BY <1>1, OrdinaryBlock DEF OrdinaryBlocks
<1>3. C \in NoMap
  <2>1. C.calls = <<"count">>
    BY DEF Block
  <2>2. ~ Has(<<"count">>, {"map"})
    BY DEF Has
  <2> QED BY <1>2, <2>1, <2>2
<1>4. R \in NoMap
  <2>1. R.calls = <<"racer">> /\ R = [calls |-> <<"racer">>, fatal |-> FALSE, adds |-> 1]
    BY DEF Try
  <2>2. ~ Has(<<"racer">>, {"map"}) /\ ~ Has(<<"racer">>, {"wrongSeat"})
    BY DEF Has
  <2>3. R \in BlockType
    <3>1. <<"racer">> \in Seq(CallName)
      BY CallsOfRacer DEF CallsOK
    <3> DEFINE calls == <<"racer">>
    <3>2. calls \in Seq(CallName) /\ R = [calls |-> calls, fatal |-> FALSE, adds |-> 1]
      BY <2>1, <3>1
    <3> HIDE DEF calls, R
    <3> QED BY <3>2 DEF BlockType
  <2> QED BY <2>1, <2>2, <2>3, CallsOfRacer DEF CallsOK, BlockOK, NotBegun
<1> HIDE DEF A, R, C, NoMap
<1>5. rest \in Seq(NoMap)
  <2>1. Racers \in Nat
    BY BenchAssumption
  <2>2. Times(Racers, R) \in Seq(NoMap) /\ <<C>> \in Seq(NoMap)
    BY <1>3, <1>4, <2>1 DEF Times
  <2> QED BY <2>2
<1>6. AttackRace = <<A>> \o Times(Racers, R) \o <<C>>
  BY DEF AttackRace, A, R, C
<1>7. /\ AttackRace \in Seq(Plainly) /\ AttackRace # << >> /\ AttackRace[1] = A
      /\ \A m \in DOMAIN AttackRace : m # 1 => AttackRace[m] \in NoMap
  <2> DEFINE T == Times(Racers, R)
             L == <<A>> \o T
  <2>1. T \in Seq(NoMap)
    <3>1. Racers \in Nat
      BY BenchAssumption
    <3> QED BY <1>4, <3>1 DEF Times
  <2> HIDE DEF T
  <2>2. \A b \in NoMap : b \in Plainly
    BY DEF NoMap
  <2> HIDE DEF Plainly
  <2>3. \A m \in DOMAIN T : T[m] \in NoMap /\ T[m] \in Plainly
    BY <2>1, <2>2
  <2>4. T \in Seq(Plainly) /\ Len(T) \in Nat
    BY <2>1, <2>3
  <2>5. /\ L \in Seq(Plainly) /\ Len(L) = Len(T) + 1 /\ L[1] = A
        /\ \A m \in 2 .. Len(L) : L[m] = T[m - 1]
    BY <1>2, <2>4
  <2>6. \A m \in 2 .. Len(L) : L[m] \in NoMap
    <3>1. \A m \in 2 .. Len(L) : m - 1 \in DOMAIN T
      BY <2>1, <2>5
    <3> QED BY <2>3, <2>5, <3>1
  <2> HIDE DEF L
  <2>7. /\ L \o <<C>> \in Seq(Plainly) /\ Len(L \o <<C>>) = Len(L) + 1 /\ (L \o <<C>>)[1] = A
        /\ \A m \in 1 .. Len(L) : (L \o <<C>>)[m] = L[m]
        /\ (L \o <<C>>)[Len(L) + 1] = C
    BY <1>2, <2>4, <2>5
  <2>8. AttackRace = L \o <<C>>
    BY <1>6 DEF L, T
  <2>9. \A m \in DOMAIN AttackRace : m # 1 => AttackRace[m] \in NoMap
    BY <1>3, <2>4, <2>5, <2>6, <2>7, <2>8
  <2>10. L \o <<C>> # << >>
    BY <2>4, <2>5, <2>7
  <2> QED BY <2>7, <2>8, <2>9, <2>10
<1>8. \A m \in DOMAIN AttackRace : /\ AttackRace[m] \in BlockType /\ BlockOK(AttackRace[m])
                                   /\ NotBegun(AttackRace[m]) /\ ~ Has(AttackRace[m].calls, {"wrongSeat"})
  BY <1>7
<1>9. AttackRace \in Seq(BlockType)
  BY <1>7, <1>8
<1>10. \A m, n \in DOMAIN AttackRace :
         m <= n /\ Has(AttackRace[m].calls, {"racer"}) => ~ Has(AttackRace[n].calls, {"map"})
  <2> SUFFICES ASSUME NEW m \in DOMAIN AttackRace, NEW n \in DOMAIN AttackRace, m <= n,
                      Has(AttackRace[m].calls, {"racer"})
               PROVE  ~ Has(AttackRace[n].calls, {"map"})
    OBVIOUS
  <2>1. m # 1
    BY <1>2, <1>7
  <2>2. n # 1
    BY <1>9, <2>1
  <2> QED BY <1>7, <2>2 DEF NoMap
<1>11. 1 \in DOMAIN AttackRace
  BY <1>7, <1>9
<1> HIDE DEF BlockType
<1> QED BY <1>7, <1>8, <1>9, <1>10, <1>11 DEF ScenarioOK, TodoOK

LEMMA WrongSeatScenario == ScenarioOK(WrongSeat, PretestTrip)
<1> DEFINE calls == Register \o <<"search", "map", "wrongSeat">>
           b == Block(calls)
<1>1. CallsOK(calls) /\ b = [calls |-> calls, fatal |-> TRUE, adds |-> 1]
  BY CallsOfWrongSeat DEF Block
<1>2. \A k \in DOMAIN calls : calls[k] # "racer"
  BY DEF Register
<1> HIDE DEF calls
<1>3. /\ b \in BlockType /\ BlockOK(b) /\ NotBegun(b) /\ ~ Has(b.calls, {"racer"})
  BY <1>1, <1>2 DEF CallsOK, BlockType, BlockOK, NotBegun, Has
<1>4. WrongSeat = <<b>>
  BY DEF WrongSeat, calls
<1> HIDE DEF b, BlockType
<1>5. /\ <<b>> \in Seq(BlockType) /\ <<b>> # << >> /\ DOMAIN <<b>> = {1} /\ <<b>>[1] = b
  BY <1>3
<1> QED BY <1>3, <1>4, <1>5 DEF ScenarioOK, TodoOK

(* What a load may begin.                                                  *)
Scenarios == {Normal, NormalCancel, NormalVague, NormalManyCancel, NormalManySearch, AttackOther, AttackRace,
              WrongSection, WrongSeat, SeasonVague, SeasonSpecified}

LEMMA LoadPlanType == LoadPlan \in Seq(Scenarios)
<1> DEFINE A == <<Normal, NormalCancel, AttackOther, AttackRace, WrongSection, WrongSeat>>
           B == IF Month > 3 THEN <<NormalManySearch, NormalManyCancel>> ELSE << >>
           C == <<NormalVague>>
           D == IF AvailableDays >= 119 THEN <<SeasonVague>> ELSE << >>
           E == IF AvailableDays >= 127 THEN <<SeasonVague>> ELSE << >>
           F == IF AvailableDays >= 205 THEN <<SeasonSpecified, SeasonVague>> ELSE << >>
<1>0. /\ Normal \in Scenarios /\ NormalCancel \in Scenarios /\ NormalVague \in Scenarios
      /\ NormalManyCancel \in Scenarios /\ NormalManySearch \in Scenarios /\ AttackOther \in Scenarios
      /\ AttackRace \in Scenarios /\ WrongSection \in Scenarios /\ WrongSeat \in Scenarios
      /\ SeasonVague \in Scenarios /\ SeasonSpecified \in Scenarios
  BY DEF Scenarios
<1> HIDE DEF Scenarios
<1>1. A \in Seq(Scenarios) /\ B \in Seq(Scenarios) /\ C \in Seq(Scenarios)
  BY <1>0
<1>2. D \in Seq(Scenarios) /\ E \in Seq(Scenarios) /\ F \in Seq(Scenarios)
  BY <1>0
<1>3. LoadPlan = A \o B \o C \o D \o E \o F
  BY DEF LoadPlan
<1> HIDE DEF A, B, C, D, E, F, Scenarios
<1>4. A \o B \in Seq(Scenarios)
  BY <1>1
<1>5. (A \o B) \o C \in Seq(Scenarios)
  BY <1>1, <1>4
<1>6. ((A \o B) \o C) \o D \in Seq(Scenarios)
  BY <1>2, <1>5
<1>7. (((A \o B) \o C) \o D) \o E \in Seq(Scenarios)
  BY <1>2, <1>6
<1>8. ((((A \o B) \o C) \o D) \o E) \o F \in Seq(Scenarios)
  BY <1>2, <1>7
<1> QED BY <1>3, <1>8

LEMMA TripsOfOK ==
  ASSUME NEW blocks, NEW trip \in TripsOf(blocks)
  PROVE  /\ trip \in AnyTrip
         /\ blocks = WrongSeat => trip = PretestTrip
         /\ blocks # WrongSeat => trip \in Trip \cup {VagueTrip}
<1>1. CASE blocks = WrongSeat
  <2>1. WrongSeat # NormalVague
    <3>1. WrongSeat[1].calls[3] = "search"
      BY DEF WrongSeat, Block, Register
    <3>2. NormalVague[1].calls[3] = "signup"
      BY DEF NormalVague, Block, Register
    <3> QED BY <3>1, <3>2
  <2>2. trip \in {PretestTrip}
    BY <1>1, <2>1, Zenon DEF TripsOf
  <2> QED BY <1>1, <2>2 DEF AnyTrip
<1>2. CASE blocks # WrongSeat /\ blocks = NormalVague
  <2>1. trip \in {VagueTrip}
    BY <1>2, Zenon DEF TripsOf
  <2> QED BY <1>2, <2>1 DEF AnyTrip
<1>3. CASE blocks # WrongSeat /\ blocks # NormalVague
  <2>1. trip \in Trip
    BY <1>3, Zenon DEF TripsOf
  <2> QED BY <1>3, <2>1 DEF AnyTrip
<1> QED BY <1>1, <1>2, <1>3

LEMMA PlannedOK ==
  ASSUME NEW n \in DOMAIN LoadPlan, NEW trip \in TripsOf(LoadPlan[n])
  PROVE  /\ LoadPlan[n] \in Scenarios /\ trip \in AnyTrip /\ ScenarioOK(LoadPlan[n], trip)
         /\ LoadPlan[n] = WrongSeat \/ trip \in Trip \cup {VagueTrip}
<1> DEFINE blocks == LoadPlan[n]
<1>1. blocks \in Scenarios
  <2> HIDE DEF Scenarios
  <2> QED BY LoadPlanType
<1>2. /\ trip \in AnyTrip
      /\ blocks = WrongSeat => trip = PretestTrip
      /\ blocks # WrongSeat => trip \in Trip \cup {VagueTrip}
  BY TripsOfOK
<1> HIDE DEF blocks
<1>3. blocks # WrongSeat => ScenarioOK(blocks, trip)
  BY <1>1, SimpleScenarios, LongScenarios, AttackRaceOK DEF Scenarios
<1>4. blocks = WrongSeat => ScenarioOK(blocks, trip)
  BY <1>2, WrongSeatScenario
<1> QED BY <1>1, <1>2, <1>3, <1>4 DEF blocks

(* A goroutine that begins has nothing yet.                                *)
LEMMA StartOK ==
  ASSUME NEW blocks, NEW trip \in AnyTrip, ScenarioOK(blocks, trip), NEW books, NEW canceled
  PROVE  /\ SlotOK(Start(blocks, trip)) /\ Start(blocks, trip) # Done
         /\ OwnsOK(Start(blocks, trip), books, canceled) /\ Owns(Start(blocks, trip)) = {}
<1> DEFINE x == Start(blocks, trip)
<1>1. /\ x.pc = "calling" /\ x.todo = blocks /\ x.trip = trip /\ x.asked = {} /\ x.id = 0 /\ x.kept = {}
      /\ x.won = 0 /\ x # Done
  BY DEF Start, Done
<1>2. TodoOK(blocks, trip) /\ Covered(blocks[1].calls) /\ blocks \in Seq(BlockType)
  BY DEF ScenarioOK, NotBegun, TodoOK
<1>3. x \in SlotType
  BY <1>2 DEF Start, SlotType
<1> HIDE DEF x
<1>4. IsFiniteSet(x.asked) /\ Cardinality(x.asked) <= People
  BY <1>1, FS_EmptySet DEF People
<1>5. SlotCore(x) /\ ~ HasId(x) /\ ~ Holds(x)
  BY <1>1, <1>2, <1>3, <1>4 DEF SlotCore, HasId, Holds
<1>6. SlotOK(x) /\ Owns(x) = {}
  BY <1>1, <1>5 DEF SlotOK, Owns
<1>7. OwnsOK(x, books, canceled)
  BY <1>1, <1>5, <1>6 DEF OwnsOK
<1> QED BY <1>1, <1>6, <1>7 DEF x

LEMMA Begins ==
  ASSUME Owners, NEW g \in Passengers, NEW blocks, NEW trip \in AnyTrip, ScenarioOK(blocks, trip),
         slot' = [slot EXCEPT ![g] = Start(blocks, trip)], UNCHANGED <<booked, cache>>
  PROVE  Owners'
<1> DEFINE x == Start(blocks, trip)
<1>1. SlotOK(x) /\ OwnsOK(x, booked', cache'.canceled) /\ Owns(x) = {}
  BY StartOK
<1>2. g \in Goroutine /\ g # tester
  BY SomeGoroutine
<1> HIDE DEF x
<1>3. slot' = [slot EXCEPT ![g] = x]
  BY DEF x
<1> QED BY <1>1, <1>2, <1>3, OwnersStep

LEMMA StartScenarioInv == ASSUME BenchIInv, StartScenario  PROVE BenchIInv'
<1>1. /\ \E g \in Load : slot[g] = Done
      /\ busy < MaxBusy /\ busy' = busy + 1
      /\ UNCHANGED <<phase, deadline, errs, cache, booked, hurt, verdict>>
  BY DEF StartScenario
<1>2. PICK n \in DOMAIN LoadPlan : \E trip \in TripsOf(LoadPlan[n]) :
        slot' = [slot EXCEPT ![FreeSlot] = Start(LoadPlan[n], trip)]
  BY DEF StartScenario
<1>3. PICK trip \in TripsOf(LoadPlan[n]) : slot' = [slot EXCEPT ![FreeSlot] = Start(LoadPlan[n], trip)]
  BY <1>2
<1>4. FreeSlot \in Passengers
  BY <1>1 DEF FreeSlot, Passengers
<1>5. Owners'
  BY <1>1, <1>3, <1>4, PlannedOK, Begins DEF BenchIInv
<1>6. Stages'
  <2>1. busy' \in 0 .. MaxBusy
    <3>1. MaxBusy \in Nat /\ busy \in 0 .. MaxBusy
      BY BenchAssumption DEF BenchIInv, Stages
    <3> QED BY <1>1, <3>1
  <2> QED BY <1>1, <2>1 DEF BenchIInv, Stages
<1> QED BY <1>1, <1>5, <1>6, BooksSame DEF BenchIInv

LEMMA OwnersSame == ASSUME Owners, UNCHANGED <<slot, booked, cache>>  PROVE Owners'
BY DEF Owners

LEMMA HurtOK ==
  ASSUME hurt \subseteq Party
  PROVE  hurt \cup {"main"} \subseteq Party /\ hurt \cup {"tester"} \subseteq Party
BY DEF Party

LEMMA AsksRegardlessInv == ASSUME BenchIInv, NEW g \in Goroutine, AsksRegardless(g)  PROVE BenchIInv'
<1>1. /\ On(g, "calling", {"card", "foreignCancel"}) /\ slot' = [slot EXCEPT ![g] = Past(slot[g], 1)]
      /\ UNCHANGED <<phase, deadline, errs, cache, booked, busy, hurt, verdict>>
  BY DEF AsksRegardless, Next1
<1>2. SlotCore(slot[g])
  BY <1>1, OnFacts DEF BenchIInv, SlotOK
<1>3. Owners'
  BY <1>1, <1>2, QuietCall
<1>4. Stages'
  BY <1>1, StagesSame DEF BenchIInv, Stages
<1> QED BY <1>1, <1>3, <1>4, BooksSame DEF BenchIInv

LEMMA NothingToCancelInv == ASSUME BenchIInv, NEW g \in Goroutine, NothingToCancel(g)  PROVE BenchIInv'
<1>1. /\ On(g, "calling", {"cancel"}) /\ slot' = [slot EXCEPT ![g] = Past(slot[g], 1)]
      /\ UNCHANGED <<phase, deadline, errs, cache, booked, busy, hurt, verdict>>
  BY DEF NothingToCancel, Next1
<1>2. SlotCore(slot[g])
  BY <1>1, OnFacts DEF BenchIInv, SlotOK
<1>3. Owners'
  BY <1>1, <1>2, QuietCall
<1>4. Stages'
  BY <1>1, StagesSame DEF BenchIInv, Stages
<1> QED BY <1>1, <1>3, <1>4, BooksSame DEF BenchIInv

LEMMA CountsCases ==
  ASSUME NEW g, Counts(g), slot[g].won \in Nat
  PROVE  /\ On(g, "calling", {"count"}) /\ UNCHANGED <<phase, deadline, cache, booked, busy, hurt, verdict>>
         /\ \/ Fails(g, "application")
            \/ Next1(g) /\ errs' = errs
            \/ slot[g].won > 1 /\ Fails(g, "sold twice")
<1>1. On(g, "calling", {"count"}) /\ UNCHANGED <<phase, deadline, cache, booked, busy, hurt, verdict>>
  BY DEF Counts
<1>2. CASE slot[g].won = 0
  <2>1. ~ (slot[g].won = 1) /\ ~ (slot[g].won > 1)
    BY <1>2
  <2>2. Fails(g, "application")
    BY <1>2, <2>1, Zenon DEF Counts
  <2> QED BY <1>1, <2>2
<1>3. CASE slot[g].won = 1
  <2>1. ~ (slot[g].won = 0) /\ ~ (slot[g].won > 1)
    BY <1>3
  <2>2. Next1(g) /\ UNCHANGED errs
    BY <1>3, <2>1, Zenon DEF Counts
  <2> QED BY <1>1, <2>2
<1>4. CASE slot[g].won > 1
  <2>1. ~ (slot[g].won = 0) /\ ~ (slot[g].won = 1)
    BY <1>4
  <2>2. Fails(g, "sold twice")
    BY <1>4, <2>1, Zenon DEF Counts
  <2> QED BY <1>1, <1>4, <2>2
<1>5. slot[g].won = 0 \/ slot[g].won = 1 \/ slot[g].won > 1
  OBVIOUS
<1> QED BY <1>2, <1>3, <1>4, <1>5, Zenon

LEMMA CountsInv == ASSUME BenchIInv, NEW g \in Goroutine, Counts(g)  PROVE BenchIInv'
<1>0. On(g, "calling", {"count"})
  BY DEF Counts
<1>1. SlotCore(slot[g]) /\ slot[g].won \in Nat
  BY <1>0, OnFacts DEF BenchIInv, SlotOK, SlotCore, SlotType
<1>2. /\ UNCHANGED <<phase, deadline, cache, booked, busy, hurt, verdict>>
      /\ \/ Fails(g, "application")
         \/ Next1(g) /\ errs' = errs
         \/ slot[g].won > 1 /\ Fails(g, "sold twice")
  BY <1>1, CountsCases
<1>3. hurt' \subseteq Party
  BY <1>2 DEF BenchIInv, Stages
<1>4. ASSUME NEW kind \in {"application", "sold twice"}, Fails(g, kind)  PROVE BenchIInv'
  <2>1. kind \in Critical \cup {"timeout", "application"}
    BY DEF Critical
  <2> QED BY <1>0, <1>2, <1>3, <1>4, <2>1, FailsInv
<1>5. CASE Next1(g) /\ errs' = errs
  <2>1. Owners'
    BY <1>0, <1>1, <1>2, <1>5, QuietCall DEF Next1
  <2>2. Stages'
    BY <1>2, <1>3, <1>5, StagesSame DEF BenchIInv
  <2> QED BY <1>2, <2>1, <2>2, BooksSame DEF BenchIInv
<1> QED BY <1>2, <1>4, <1>5

LEMMA AsksForWrongSeatInv == ASSUME BenchIInv, NEW g \in Goroutine, AsksForWrongSeat(g)  PROVE BenchIInv'
<1>1. /\ On(g, "calling", {"wrongSeat"}) /\ UNCHANGED <<deadline, errs, cache, booked, busy, hurt>>
      /\ \/ phase' = "over" /\ verdict' = "crash" /\ slot' = slot
         \/ slot' = [slot EXCEPT ![g] = Past(slot[g], 1)] /\ phase' = phase /\ verdict' = verdict
  BY DEF AsksForWrongSeat, Next1
<1>2. SlotCore(slot[g]) /\ Awake(g)
  BY <1>1, OnFacts DEF BenchIInv, SlotOK
<1>3. CASE phase' = "over" /\ verdict' = "crash" /\ slot' = slot
  <2>1. Owners'
    BY <1>1, <1>3, OwnersSame DEF BenchIInv
  <2>2. Stages'
    BY <1>1, <1>3 DEF BenchIInv, Stages
  <2> QED BY <1>1, <2>1, <2>2, BooksSame DEF BenchIInv
<1>4. CASE slot' = [slot EXCEPT ![g] = Past(slot[g], 1)] /\ phase' = phase /\ verdict' = verdict
  <2>1. Owners'
    BY <1>1, <1>2, <1>4, QuietCall
  <2>2. Stages'
    BY <1>1, <1>4, StagesSame DEF BenchIInv, Stages
  <2> QED BY <1>1, <2>1, <2>2, BooksSame DEF BenchIInv
<1> QED BY <1>1, <1>3, <1>4

(* A lost answer.                                                          *)
LossKind == {"timeout", "application", "card", "not shown", "still shown"}

LEMMA LossKinds == \A kind \in LossKind : kind \in Critical \cup {"timeout", "application"}
BY DEF LossKind, Critical

(* The calls whose loss is critical.                                       *)
Lost(g, kind) ==
  /\ kind = "card" => On(g, "calling", {"card"})
  /\ kind = "not shown" => On(g, "added", {"reserve", "vague"})
  /\ kind = "still shown" => On(g, "served", {"cancel"})

LEMMA LosesAnswerCases ==
  ASSUME NEW g, LosesAnswer(g)
  PROVE  /\ \E pc \in {"calling", "served", "added"} : \E names : On(g, pc, names)
         /\ hurt' = hurt \cup (IF g = driver THEN {"main"} ELSE {})
         /\ UNCHANGED <<phase, deadline, cache, booked, busy, verdict>>
         /\ \/ On(g, slot[g].pc, {"racer"}) /\ Next1(g) /\ errs' = errs
            \/ \E kind \in LossKind : Fails(g, kind) /\ Lost(g, kind)
<1>0. \/ On(g, "calling", Plain \cup {"card", "map", "reserve", "vague", "racer", "commit"})
      \/ On(g, "calling", {"wrongSeat"})
      \/ On(g, "calling", {"cancel"})
      \/ On(g, "served", {"reserve", "vague", "racer", "commit", "cancel"})
      \/ On(g, "added", {"reserve", "vague"})
  BY DEF LosesAnswer
<1>1. \E pc \in {"calling", "served", "added"} : \E names : On(g, pc, names)
  BY <1>0
<1>2. /\ hurt' = hurt \cup (IF g = driver THEN {"main"} ELSE {})
      /\ UNCHANGED <<phase, deadline, cache, booked, busy, verdict>>
  BY DEF LosesAnswer
<1>3. CASE On(g, slot[g].pc, {"racer"})
  BY <1>1, <1>2, <1>3 DEF LosesAnswer
<1>4. CASE ~ On(g, slot[g].pc, {"racer"})
  <2>1. PICK kind \in KindsOfLoss(g) : Fails(g, kind)
    BY <1>4 DEF LosesAnswer
  <2>2. CASE On(g, "calling", {"card"})
    <3>1. kind = "card"
      BY <2>2 DEF KindsOfLoss
    <3>2. Lost(g, kind) /\ kind \in LossKind
      BY <2>2, <3>1 DEF Lost, LossKind
    <3> QED BY <1>1, <1>2, <2>1, <3>2
  <2>3. CASE ~ On(g, "calling", {"card"})
    <3>1. kind \in {"timeout", "application"} \cup (IF slot[g].pc = "added" THEN {"not shown"} ELSE {})
                     \cup (IF On(g, "served", {"cancel"}) THEN {"still shown"} ELSE {})
      BY <2>3 DEF KindsOfLoss
    <3>2. kind = "not shown" => On(g, "added", {"reserve", "vague"})
      BY <1>0, <3>1 DEF On
    <3>3. kind = "still shown" => On(g, "served", {"cancel"})
      BY <3>1
    <3>4. kind # "card" /\ kind \in LossKind
      BY <3>1 DEF LossKind
    <3> QED BY <1>1, <1>2, <2>1, <3>2, <3>3, <3>4 DEF Lost
  <2> QED BY <2>2, <2>3
<1> QED BY <1>3, <1>4

LEMMA LosesAnswerInv == ASSUME BenchIInv, NEW g \in Goroutine, LosesAnswer(g)  PROVE BenchIInv'
<1>0. PICK pc \in {"calling", "served", "added"} : \E names : On(g, pc, names)
  BY LosesAnswerCases
<1>1. PICK names : On(g, pc, names)
  BY <1>0
<1>2. /\ hurt' = hurt \cup (IF g = driver THEN {"main"} ELSE {})
      /\ UNCHANGED <<phase, deadline, cache, booked, busy, verdict>>
      /\ \/ On(g, slot[g].pc, {"racer"}) /\ Next1(g) /\ errs' = errs
         \/ \E kind \in LossKind : Fails(g, kind) /\ Lost(g, kind)
  BY LosesAnswerCases
<1>3. hurt' \subseteq Party
  BY <1>2, HurtOK DEF BenchIInv, Stages
<1>4. pc # "done" /\ slot[g].pc = pc
  BY <1>1 DEF On
<1>5. ASSUME NEW kind \in LossKind, Fails(g, kind)  PROVE BenchIInv'
  BY <1>1, <1>2, <1>3, <1>4, <1>5, LossKinds, FailsInv
<1>6. CASE On(g, slot[g].pc, {"racer"}) /\ Next1(g) /\ errs' = errs
  <2>1. SlotCore(slot[g])
    BY <1>1, <1>4, OnFacts DEF BenchIInv, SlotOK
  <2>2. Owners'
    BY <1>2, <1>4, <1>6, <2>1, RacerGoesOn DEF Next1
  <2>3. Stages'
    BY <1>2, <1>3, <1>6, StagesSame DEF BenchIInv
  <2> QED BY <1>2, <2>2, <2>3, BooksSame DEF BenchIInv
<1> QED BY <1>2, <1>5, <1>6

LEMMA PassengerInv == ASSUME BenchIInv, NEW g \in Goroutine, Passenger(g)  PROVE BenchIInv'
BY AsksInv, AsksRegardlessInv, MapsInv, ReservesInv, HearsReserveInv, AddsInv, AssertsReserveInv, CommitsInv, HearsCommitInv,
   CancelsInv, HearsCancelInv, NothingToCancelInv, CountsInv, AsksForWrongSeatInv, LosesAnswerInv DEF Passenger

-----------------------------------------------------------------------------
(* The tester's steps.                                                     *)

LEMMA TesterStep ==
  ASSUME Owners, NEW x, TesterTyped(x), slot' = [slot EXCEPT ![tester] = x],
         DOMAIN booked \subseteq DOMAIN booked', \A i \in DOMAIN booked : booked'[i] = booked[i],
         cache'.canceled = cache.canceled
  PROVE  Owners'
<1>1. tester \in Goroutine /\ Mine(tester) = {}
  BY SomeGoroutine DEF Mine
<1>2. \A i \in DOMAIN booked \ Mine(tester) : booked'[i] = booked[i]
  BY <1>1
<1> QED BY <1>1, <1>2, OwnersStep

LEMMA TurnOK ==
  ASSUME NEW s \in Watching
  PROVE  /\ TesterTurn(s) \in Watching /\ TesterTurn(s).want = s.want /\ TesterTurn(s).remain = s.remain
         /\ TesterTurn(s).pc = IF (s.want = "few" /\ s.remain > TesterFew) \/ (s.want = "none" /\ s.remain > 0)
                                 THEN "map" ELSE "look"
BY DEF TesterTurn, Watching

LEMMA WantsNext ==
  ASSUME NEW s \in Watching, NEW want \in Signs
  PROVE  /\ [s EXCEPT !.want = want] \in Watching /\ [s EXCEPT !.want = want].want = want
         /\ [s EXCEPT !.want = want].remain = s.remain
BY DEF Watching

LEMMA TesterOverOK == TesterOver \in Watching /\ TesterOver.pc = "over" /\ TesterIdle \in Watching
<1>1. TesterSeats \in Int
  BY BenchAssumption
<1> QED BY <1>1 DEF TesterOver, TesterIdle, Watching, Signs

LEMMA AfterSignOK ==
  ASSUME NEW s \in Watching
  PROVE  /\ AfterSign(s) \in Watching
         /\ s.want = "plenty" => AfterSign(s) = TesterTurn([s EXCEPT !.want = "few"])
         /\ s.want = "few" => AfterSign(s) = TesterTurn([s EXCEPT !.want = "none"])
         /\ s.want = "none" => AfterSign(s) = TesterOver
<1>0. s.want \in Signs /\ "few" \in Signs /\ "none" \in Signs
  BY DEF Watching, Signs
<1>1. CASE s.want = "plenty"
  <2>1. s.want # "few" /\ s.want # "none"
    BY <1>1
  <2>2. AfterSign(s) = TesterTurn([s EXCEPT !.want = "few"])
    BY <1>1, <2>1, Zenon DEF AfterSign
  <2>3. AfterSign(s) \in Watching
    BY <1>0, <2>2, WantsNext, TurnOK
  <2> QED BY <2>1, <2>2, <2>3
<1>2. CASE s.want = "few"
  <2>1. s.want # "plenty" /\ s.want # "none"
    BY <1>2
  <2>2. AfterSign(s) = TesterTurn([s EXCEPT !.want = "none"])
    BY <1>2, <2>1, Zenon DEF AfterSign
  <2>3. AfterSign(s) \in Watching
    BY <1>0, <2>2, WantsNext, TurnOK
  <2> QED BY <2>1, <2>2, <2>3
<1>3. CASE s.want = "none"
  <2>1. s.want # "plenty" /\ s.want # "few"
    BY <1>3
  <2>2. AfterSign(s) = TesterOver
    BY <1>3, <2>1, Zenon DEF AfterSign
  <2> QED BY <2>1, <2>2, TesterOverOK
<1>4. s.want = "plenty" \/ s.want = "few" \/ s.want = "none"
  BY <1>0 DEF Signs
<1> QED BY <1>1, <1>2, <1>3, <1>4

LEMMA TesterIsOn ==
  ASSUME Owners, NEW pc, TesterOn(pc)
  PROVE  /\ slot[tester].pc = pc /\ phase = "load" /\ TesterTyped(slot[tester])
         /\ pc # "reserve" => slot[tester] \in Watching
         /\ pc = "reserve" => slot[tester] \in Reserving
BY DEF TesterOn, Owners, TesterTyped, Watching, Reserving

LEMMA TesterStartsInv == ASSUME BenchIInv, TesterStarts  PROVE BenchIInv'
<1> DEFINE x == [slot[tester] EXCEPT !.pc = "looking"]
<1>1. /\ TesterOn("look") /\ busy < MaxBusy /\ busy' = busy + 1
      /\ UNCHANGED <<phase, deadline, errs, cache, booked, hurt, verdict>>
      /\ slot' = [slot EXCEPT ![tester] = x]
  BY DEF TesterStarts
<1>2. slot[tester] \in Watching
  BY <1>1, TesterIsOn DEF BenchIInv
<1>3. TesterTyped(x)
  BY <1>2 DEF TesterTyped, Watching
<1> HIDE DEF x
<1>4. Owners'
  BY <1>1, <1>3, TesterStep DEF BenchIInv
<1>5. Stages'
  <2>1. busy' \in 0 .. MaxBusy
    <3>1. MaxBusy \in Nat /\ busy \in 0 .. MaxBusy
      BY BenchAssumption DEF BenchIInv, Stages
    <3> QED BY <1>1, <3>1
  <2> QED BY <1>1, <2>1 DEF BenchIInv, Stages
<1> QED BY <1>1, <1>4, <1>5, BooksSame DEF BenchIInv

LEMMA TesterLooksInv == ASSUME BenchIInv, TesterLooks  PROVE BenchIInv'
<1>1. /\ TesterOn("looking") \/ TesterOn("look")
      /\ UNCHANGED <<phase, deadline, cache, booked, busy, hurt, verdict>>
      /\ \/ slot' = [slot EXCEPT ![tester] = AfterSign(slot[tester])] /\ errs' = errs
         \/ slot' = [slot EXCEPT ![tester] = TesterOver] /\ errs' = WithError(tester, "sign", 1)
  BY DEF TesterLooks
<1>2. slot[tester] \in Watching
  BY <1>1, TesterIsOn DEF BenchIInv
<1>3. TesterTyped(AfterSign(slot[tester])) /\ TesterTyped(TesterOver)
  BY <1>2, AfterSignOK, TesterOverOK DEF TesterTyped
<1>4. Owners'
  <2>1. /\ DOMAIN booked \subseteq DOMAIN booked' /\ \A i \in DOMAIN booked : booked'[i] = booked[i]
        /\ cache'.canceled = cache.canceled
    BY <1>1
  <2> QED BY <1>1, <1>3, <2>1, TesterStep DEF BenchIInv
<1>5. Stages'
  <2>1. errs' \in ErrsType /\ errs'.final = errs.final
    <3>1. "sign" \in Critical \cup {"timeout", "application"} /\ 1 \in Nat
      BY DEF Critical
    <3>2. errs \in ErrsType
      BY DEF BenchIInv, Stages
    <3>3. WithError(tester, "sign", 1) \in ErrsType /\ WithError(tester, "sign", 1).final = errs.final
      BY <3>1, <3>2, WithErrorOK
    <3> QED BY <1>1, <3>2, <3>3
  <2> QED BY <1>1, <2>1 DEF BenchIInv, Stages
<1> QED BY <1>1, <1>4, <1>5, BooksSame DEF BenchIInv

(* The seats the tester sees on the map.                                   *)
LEMMA TesterMapsOK ==
  ASSUME Owners, TesterMaps
  PROVE  LET x == [pc |-> "reserve", want |-> slot[tester].want, remain |-> slot[tester].remain,
                   asked |-> FilterTrainSeats(TesterTrip)]
         IN  /\ TesterOn("map") /\ slot[tester] \in Watching
             /\ slot' = [slot EXCEPT ![tester] = x] /\ TesterTyped(x)
             /\ UNCHANGED <<phase, deadline, errs, cache, booked, busy, hurt, verdict>>
<1> DEFINE seats == FilterTrainSeats(TesterTrip)
           x == [pc |-> "reserve", want |-> slot[tester].want, remain |-> slot[tester].remain, asked |-> seats]
<1>1. TesterOn("map") /\ slot' = [slot EXCEPT ![tester] = x]
      /\ UNCHANGED <<phase, deadline, errs, cache, booked, busy, hurt, verdict>>
  BY DEF TesterMaps
<1>2. slot[tester] \in Watching
  BY <1>1, TesterIsOn
<1>3. TesterTrip \in AnyTrip /\ 1 \in DOMAIN CarsOf[TesterTrip.train]
  BY BenchAssumption DEF AnyTrip
<1>4. seats \subseteq Nat /\ IsFiniteSet(seats) /\ Cardinality(seats) <= 2
  BY <1>3, FreePlaces, FirstOfFew DEF FilterTrainSeats
<1> HIDE DEF seats
<1>5. x \in Reserving /\ x.asked = seats
  BY <1>2, <1>4 DEF Watching, Reserving
<1> HIDE DEF x
<1>6. TesterTyped(x)
  BY <1>4, <1>5 DEF TesterTyped, People
<1> QED BY <1>1, <1>2, <1>6 DEF x, seats

LEMMA TesterMapsInv == ASSUME BenchIInv, TesterMaps  PROVE BenchIInv'
<1> DEFINE x == [pc |-> "reserve", want |-> slot[tester].want, remain |-> slot[tester].remain,
                 asked |-> FilterTrainSeats(TesterTrip)]
<1>1. /\ slot' = [slot EXCEPT ![tester] = x] /\ TesterTyped(x)
      /\ UNCHANGED <<phase, deadline, errs, cache, booked, busy, hurt, verdict>>
  BY TesterMapsOK DEF BenchIInv
<1> HIDE DEF x
<1>2. Owners'
  BY <1>1, TesterStep DEF BenchIInv
<1>3. Stages'
  BY <1>1, StagesSame DEF BenchIInv, Stages
<1> QED BY <1>1, <1>2, <1>3, BooksSame DEF BenchIInv

(* A reservation of the tester's, and whether it hears of it.              *)
LEMMA TesterReservesCases ==
  ASSUME Owners, Books, TesterReserves
  PROVE  LET s == slot[tester]
             given == GivenSeats(TesterTrip, s.asked)
             b == [trip |-> TesterTrip, seats |-> given, status |-> "held"]
         IN  /\ TesterOn("reserve") /\ s \in Reserving /\ IsFiniteSet(s.asked) /\ Cardinality(s.asked) <= People
             /\ given \in SUBSET Seats /\ b \in Booking
             /\ UNCHANGED <<phase, deadline, errs, busy, verdict>>
             /\ booked' = IF given = {} THEN booked ELSE Append(booked, b)
             /\ \/ /\ given # {} /\ hurt' = hurt
                   /\ cache' = CacheAdd(cache, Len(booked) + 1, RequestOf(TesterTrip, s.asked))
                   /\ slot' = [slot EXCEPT ![tester] =
                        TesterTurn([pc |-> "map", want |-> s.want, remain |-> s.remain - Cardinality(s.asked)])]
                \/ /\ (hurt' = hurt /\ given = {}) \/ hurt' = hurt \cup {"tester"}
                   /\ cache' = cache
                   /\ slot' = [slot EXCEPT ![tester] =
                        TesterTurn([pc |-> "map", want |-> s.want, remain |-> s.remain])]
<1> DEFINE s == slot[tester]
           given == GivenSeats(TesterTrip, s.asked)
           b == [trip |-> TesterTrip, seats |-> given, status |-> "held"]
<1>1. TesterOn("reserve") /\ UNCHANGED <<phase, deadline, errs, busy, verdict>>
      /\ booked' = IF given = {} THEN booked ELSE Append(booked, b)
  BY DEF TesterReserves
<1>2. s \in Reserving /\ IsFiniteSet(s.asked) /\ Cardinality(s.asked) <= People
  <2>1. TesterTyped(s) /\ s.pc = "reserve"
    BY <1>1, TesterIsOn
  <2> QED BY <2>1 DEF TesterTyped, Watching, Reserving
<1>3. TesterTrip \in AnyTrip /\ TesterTrip \in Served
  BY BenchAssumption DEF AnyTrip
<1>4. given \in SUBSET Seats
  BY <1>2, <1>3, GivenOK
<1>5. PICK heard \in BOOLEAN :
        /\ hurt' = IF heard THEN hurt ELSE hurt \cup {"tester"}
        /\ cache' = IF heard /\ given # {}
                      THEN CacheAdd(cache, Len(booked'), RequestOf(TesterTrip, s.asked)) ELSE cache
        /\ slot' = [slot EXCEPT ![tester] =
             TesterTurn([pc |-> "map", want |-> s.want,
                         remain |-> IF heard /\ given # {} THEN s.remain - Cardinality(s.asked) ELSE s.remain])]
  BY DEF TesterReserves
<1> HIDE DEF given
<1>6. b \in Booking
  BY <1>3, <1>4 DEF Booking
<1> HIDE DEF b
<1>7. CASE heard /\ given # {}
  <2>1. Len(booked') = Len(booked) + 1
    BY <1>1, <1>6, <1>7, AppendOK DEF Books
  <2>2. /\ hurt' = hurt /\ cache' = CacheAdd(cache, Len(booked) + 1, RequestOf(TesterTrip, s.asked))
        /\ slot' = [slot EXCEPT ![tester] =
             TesterTurn([pc |-> "map", want |-> s.want, remain |-> s.remain - Cardinality(s.asked)])]
    BY <1>5, <1>7, <2>1
  <2> QED BY <1>1, <1>2, <1>4, <1>6, <1>7, <2>2 DEF given, b
<1>8. CASE ~ (heard /\ given # {})
  <2>1. /\ (hurt' = hurt /\ given = {}) \/ hurt' = hurt \cup {"tester"}
        /\ cache' = cache
        /\ slot' = [slot EXCEPT ![tester] =
             TesterTurn([pc |-> "map", want |-> s.want, remain |-> s.remain])]
    BY <1>5, <1>8
  <2> QED BY <1>1, <1>2, <1>4, <1>6, <2>1 DEF given, b
<1> QED BY <1>7, <1>8

LEMMA TesterReservesInv == ASSUME BenchIInv, TesterReserves  PROVE BenchIInv'
<1> DEFINE s == slot[tester]
           given == GivenSeats(TesterTrip, s.asked)
           b == [trip |-> TesterTrip, seats |-> given, status |-> "held"]
           heard == [pc |-> "map", want |-> s.want, remain |-> s.remain - Cardinality(s.asked)]
           lost == [pc |-> "map", want |-> s.want, remain |-> s.remain]
<1>1. /\ s \in Reserving /\ IsFiniteSet(s.asked) /\ b \in Booking
      /\ UNCHANGED <<phase, deadline, errs, busy, verdict>>
      /\ booked' = IF given = {} THEN booked ELSE Append(booked, b)
      /\ \/ /\ given # {} /\ hurt' = hurt
            /\ cache' = CacheAdd(cache, Len(booked) + 1, RequestOf(TesterTrip, s.asked))
            /\ slot' = [slot EXCEPT ![tester] = TesterTurn(heard)]
         \/ /\ (hurt' = hurt /\ given = {}) \/ hurt' = hurt \cup {"tester"}
            /\ cache' = cache
            /\ slot' = [slot EXCEPT ![tester] = TesterTurn(lost)]
  BY TesterReservesCases DEF BenchIInv
<1>2. heard \in Watching /\ lost \in Watching
  <2>1. Cardinality(s.asked) \in Nat
    BY <1>1, FS_CardinalityType
  <2> QED BY <1>1, <2>1 DEF Reserving, Watching
<1> HIDE DEF given, b, heard, lost
<1>3. TesterTyped(TesterTurn(heard)) /\ TesterTyped(TesterTurn(lost))
  BY <1>2, TurnOK DEF TesterTyped
<1>4. /\ booked' \in Seq(Booking) /\ DOMAIN booked \subseteq DOMAIN booked'
      /\ \A i \in DOMAIN booked : i \in DOMAIN booked' /\ booked'[i] = booked[i]
      /\ given # {} => Len(booked) + 1 \in DOMAIN booked'
  <2>1. booked \in Seq(Booking)
    BY DEF BenchIInv, Books
  <2>2. CASE given = {}
    BY <1>1, <2>1, <2>2
  <2>3. CASE given # {}
    BY <1>1, <2>1, <2>3, AppendOK
  <2> QED BY <2>2, <2>3
<1>5. Books' /\ cache'.canceled = cache.canceled
  <2>1. CASE given # {} /\ cache' = CacheAdd(cache, Len(booked) + 1, RequestOf(TesterTrip, s.asked))
    BY <1>4, <2>1, AddOK DEF BenchIInv
  <2>2. CASE cache' = cache
    BY <1>4, <2>2 DEF BenchIInv, Books
  <2> QED BY <1>1, <2>1, <2>2
<1>6. Owners'
  BY <1>1, <1>3, <1>4, <1>5, TesterStep DEF BenchIInv
<1>7. Stages'
  <2>1. hurt' \subseteq Party
    BY <1>1, HurtOK DEF BenchIInv, Stages
  <2> QED BY <1>1, <2>1, StagesSame DEF BenchIInv
<1> QED BY <1>5, <1>6, <1>7 DEF BenchIInv

LEMMA TesterLosesAnswerInv == ASSUME BenchIInv, TesterLosesAnswer  PROVE BenchIInv'
<1>1. /\ slot' = [slot EXCEPT ![tester] = TesterOver] /\ hurt' = hurt \cup {"tester"}
      /\ UNCHANGED <<phase, deadline, errs, cache, booked, busy, verdict>>
  BY DEF TesterLosesAnswer
<1>2. Owners'
  BY <1>1, TesterOverOK, TesterStep DEF BenchIInv, TesterTyped
<1>3. Stages'
  <2>1. hurt' \subseteq Party
    BY <1>1, HurtOK DEF BenchIInv, Stages
  <2> QED BY <1>1, <2>1, StagesSame DEF BenchIInv
<1> QED BY <1>1, <1>2, <1>3, BooksSame DEF BenchIInv

-----------------------------------------------------------------------------
(* The main goroutine's steps, and the whole.                              *)

StageNames == {"payment", "initialize", "reads", "refusals", "account"}

LEMMA StageOK ==
  ASSUME Stages, NEW from \in StageNames,
         NEW to \in {"initialize", "reads", "refusals", "pretest", "load"}, Stage(from, to)
  PROVE  /\ Stages' /\ phase = from /\ UNCHANGED <<deadline, errs, cache, booked, busy>>
         /\ \/ phase' = "over" /\ verdict' = "fail"
            \/ phase' = to /\ verdict' = verdict
<1>1. /\ phase = from /\ UNCHANGED <<deadline, errs, cache, booked, busy>>
      /\ \/ phase' = "over" /\ verdict' = "fail" /\ hurt' = hurt \cup {"main"}
         \/ phase' = to /\ UNCHANGED <<verdict, hurt>>
  BY DEF Stage, Ends
<1>2. hurt' \subseteq Party
  BY <1>1, HurtOK DEF Stages
<1>3. phase # "over" /\ to # "over"
  BY <1>1 DEF StageNames
<1>4. Stages'
  <2>1. errs' = errs /\ errs.final = "none" /\ verdict = "none"
    BY <1>1, <1>3 DEF Stages
  <2> QED BY <1>1, <1>2, <1>3, <2>1 DEF Stages
<1> QED BY <1>1, <1>4

LEMMA PreparesInv == ASSUME BenchIInv, Prepares  PROVE BenchIInv'
<1>1. ASSUME NEW from \in StageNames,
             NEW to \in {"initialize", "reads", "refusals", "pretest", "load"}, Stage(from, to),
             slot' = slot
      PROVE  BenchIInv'
  <2>1. Stages' /\ UNCHANGED <<cache, booked>>
    BY <1>1, StageOK DEF BenchIInv
  <2> QED BY <1>1, <2>1, OwnersSame, BooksSame DEF BenchIInv
<1>2. CASE PretestRefusals
  <2>1. /\ Stage("refusals", "pretest")
        /\ slot' = IF phase' = "pretest"
                     THEN [slot EXCEPT ![driver] = Start(<<PretestNormal>>, PretestTrip)] ELSE slot
    BY <1>2 DEF PretestRefusals
  <2>2. Stages' /\ UNCHANGED <<cache, booked>>
    BY <2>1, StageOK DEF BenchIInv, StageNames
  <2>3. Owners'
    <3>1. driver \in Passengers /\ PretestTrip \in AnyTrip /\ ScenarioOK(<<PretestNormal>>, PretestTrip)
      BY SimpleScenarios DEF Passengers, AnyTrip
    <3>2. CASE phase' = "pretest"
      BY <2>1, <2>2, <3>1, <3>2, Begins DEF BenchIInv
    <3>3. CASE phase' # "pretest"
      BY <2>1, <2>2, <3>3, OwnersSame DEF BenchIInv
    <3> QED BY <3>2, <3>3
  <2> QED BY <2>2, <2>3, BooksSame DEF BenchIInv
<1>3. CASE InitializePayment \/ InitializeApplication \/ PretestReads \/ NewTester
  BY <1>1, <1>3 DEF InitializePayment, InitializeApplication, PretestReads, NewTester, StageNames
<1> QED BY <1>2, <1>3 DEF Prepares

(* What comes after a part of the pretest.                                 *)
LEMMA PretestGoesOnCases ==
  ASSUME PretestGoesOn
  PROVE  /\ phase \in {"pretest", "pretest vague"} /\ slot[driver] = Done
         /\ UNCHANGED <<deadline, errs, cache, booked, busy, hurt>>
         /\ \/ phase' = "over" /\ verdict' = "fail" /\ slot' = slot
            \/ /\ ~ errs.pretest /\ phase = "pretest" /\ phase' = "pretest vague" /\ verdict' = verdict
               /\ slot' = [slot EXCEPT ![driver] = Start(<<PretestReserveVague>>, VagueTrip)]
            \/ /\ ~ errs.pretest /\ phase = "pretest vague" /\ phase' = "account" /\ verdict' = verdict
               /\ slot' = slot
<1>1. /\ phase \in {"pretest", "pretest vague"} /\ slot[driver] = Done
      /\ UNCHANGED <<deadline, errs, cache, booked, busy, hurt>>
  BY DEF PretestGoesOn
<1>2. CASE errs.pretest
  <2>1. Ends("fail") /\ UNCHANGED slot
    BY <1>2, Zenon DEF PretestGoesOn
  <2> QED BY <1>1, <2>1 DEF Ends
<1>3. CASE ~ errs.pretest /\ phase = "pretest"
  <2>0. phase # "pretest vague"
    BY <1>3
  <2>1. /\ phase' = "pretest vague"
        /\ slot' = [slot EXCEPT ![driver] = Start(<<PretestReserveVague>>, VagueTrip)]
        /\ UNCHANGED verdict
    BY <1>3, <2>0, Zenon DEF PretestGoesOn
  <2> QED BY <1>1, <1>3, <2>1
<1>4. CASE ~ errs.pretest /\ phase = "pretest vague"
  <2>0. phase # "pretest"
    BY <1>4
  <2>1. phase' = "account" /\ UNCHANGED <<slot, verdict>>
    BY <1>4, <2>0, Zenon DEF PretestGoesOn
  <2> QED BY <1>1, <1>4, <2>1
<1> QED BY <1>1, <1>2, <1>3, <1>4

LEMMA PretestGoesOnInv == ASSUME BenchIInv, PretestGoesOn  PROVE BenchIInv'
<1>1. /\ phase \in {"pretest", "pretest vague"}
      /\ UNCHANGED <<deadline, errs, cache, booked, busy, hurt>>
      /\ \/ phase' = "over" /\ verdict' = "fail" /\ slot' = slot
         \/ /\ phase' = "pretest vague" /\ verdict' = verdict
            /\ slot' = [slot EXCEPT ![driver] = Start(<<PretestReserveVague>>, VagueTrip)]
         \/ phase' = "account" /\ verdict' = verdict /\ slot' = slot
  BY PretestGoesOnCases
<1>2. Stages'
  BY <1>1 DEF BenchIInv, Stages
<1>3. driver \in Passengers /\ VagueTrip \in AnyTrip /\ ScenarioOK(<<PretestReserveVague>>, VagueTrip)
  BY SimpleScenarios DEF Passengers, AnyTrip
<1>4. Owners'
  <2>1. CASE slot' = slot
    BY <1>1, <2>1, OwnersSame DEF BenchIInv
  <2>2. CASE slot' = [slot EXCEPT ![driver] = Start(<<PretestReserveVague>>, VagueTrip)]
    BY <1>1, <1>3, <2>2, Begins DEF BenchIInv
  <2> QED BY <1>1, <2>1, <2>2
<1> QED BY <1>1, <1>2, <1>4, BooksSame DEF BenchIInv

(* The process has exited: no goroutine owns anything any more.            *)
LEMMA NobodyLeft ==
  ASSUME slot' = NoGoroutines
  PROVE  /\ slot' = [g \in Goroutine |-> slot'[g]] /\ slot'[tester] = TesterIdle
         /\ \A g \in Passengers : slot'[g] = Done /\ Owns(slot'[g]) = {}
<1>1. slot' = [g \in Goroutine |-> IF g = tester THEN TesterIdle ELSE Done]
  BY DEF NoGoroutines
<1>2. Owns(Done) = {}
  BY DEF Owns
<1> QED BY <1>1, <1>2, SomeGoroutine

LEMMA NobodyOwns == ASSUME Owners, slot' = NoGoroutines  PROVE Owners'
<1>1. /\ slot' = [g \in Goroutine |-> slot'[g]] /\ slot'[tester] = TesterIdle
      /\ \A g \in Passengers : slot'[g] = Done /\ Owns(slot'[g]) = {}
  BY NobodyLeft
<1>2. \A books, canceled : OwnsOK(Done, books, canceled)
  BY DEF OwnsOK, Owns
<1> QED BY <1>1, <1>2, TesterOverOK DEF Owners, TesterTyped

LEMMA TimesInv == ASSUME BenchIInv, TimeIsUp \/ LoadEnds \/ FinalChecks  PROVE BenchIInv'
<1>1. /\ phase \in {"load", "final"} /\ UNCHANGED <<cache, booked, busy>> /\ slot' \in {slot, NoGoroutines}
      /\ deadline' \in {TRUE, deadline} /\ hurt' \in {hurt, hurt \cup {"main"}}
      /\ \/ errs' = errs /\ phase' \in {"load", "final"} /\ verdict' = verdict
         \/ errs' = errs /\ phase' = "over" /\ verdict' = "fail"
         \/ /\ phase' = "over" /\ verdict' \in {"fail", "pass"}
            /\ \E final \in {"blamed", "fine", "lost"} : errs' = [errs EXCEPT !.final = final]
  BY DEF TimeIsUp, LoadEnds, FinalChecks, Ends
<1>2. hurt' \subseteq Party
  BY <1>1, HurtOK DEF BenchIInv, Stages
<1>3. errs \in ErrsType
  BY DEF BenchIInv, Stages
<1>4. errs' \in ErrsType /\ (errs' = errs \/ phase' = "over")
  <2>1. \A final \in {"blamed", "fine", "lost"} : [errs EXCEPT !.final = final] \in ErrsType
    BY <1>3 DEF ErrsType
  <2> QED BY <1>1, <1>3, <2>1
<1>5. Stages'
  <2>1. errs.final = "none" /\ verdict = "none"
    BY <1>1 DEF BenchIInv, Stages
  <2> HIDE DEF ErrsType, Party
  <2> QED BY <1>1, <1>2, <1>4, <2>1 DEF BenchIInv, Stages
<1> QED BY <1>1, <1>5, OwnersSame, NobodyOwns, BooksSame DEF BenchIInv

LEMMA BenchInitInv == ASSUME BenchInit  PROVE BenchIInv
<1>1. slot = [g \in Goroutine |-> IF g = tester THEN TesterIdle ELSE Done]
      /\ booked = << >> /\ cache = NoCache /\ phase = "off" /\ deadline = FALSE /\ busy = 0 /\ hurt = {}
      /\ verdict = "none" /\ errs = [pretest |-> FALSE, msgs |-> {}, application |-> 0, final |-> "none"]
  BY DEF BenchInit, NoGoroutines
<1>2. /\ slot = [g \in Goroutine |-> slot[g]] /\ slot[tester] = TesterIdle
      /\ \A g \in Passengers : slot[g] = Done
  BY <1>1, SomeGoroutine
<1>3. \A books, canceled : OwnsOK(Done, books, canceled) /\ Owns(Done) = {}
  BY DEF OwnsOK, Owns
<1>4. Owners
  BY <1>2, <1>3, TesterOverOK DEF Owners, TesterTyped
<1>5. Books
  BY <1>1 DEF Books, NoCache
<1>6. Stages
  <2>1. MaxBusy \in Nat
    BY BenchAssumption
  <2>2. errs \in ErrsType /\ errs.final = "none"
    BY <1>1 DEF ErrsType
  <2>3. phase = "off" /\ deadline \in BOOLEAN /\ busy \in 0 .. MaxBusy /\ hurt \subseteq Party /\ verdict = "none"
    <3>1. phase = "off" /\ deadline = FALSE /\ busy = 0 /\ hurt = {} /\ verdict = "none"
      BY <1>1
    <3>2. busy \in 0 .. MaxBusy
      BY <2>1, <3>1
    <3>3. hurt \subseteq Party
      BY <3>1
    <3>4. deadline \in BOOLEAN
      BY <3>1
    <3> QED BY <3>1, <3>2, <3>3, <3>4
  <2> HIDE DEF ErrsType, Party
  <2> QED BY <2>2, <2>3 DEF Stages
<1> QED BY <1>4, <1>5, <1>6 DEF BenchIInv

(* The invariant is inductive.                                             *)
LEMMA BenchNextInv == ASSUME BenchIInv, BenchNext \/ UNCHANGED benchVars  PROVE BenchIInv'
<1>1. CASE Main
  BY <1>1, PreparesInv, PretestGoesOnInv, TimesInv DEF Main
<1>2. CASE Tester
  BY <1>2, TesterStartsInv, TesterLooksInv, TesterMapsInv, TesterReservesInv, TesterLosesAnswerInv DEF Tester
<1>3. CASE \E g \in Goroutine : Passenger(g)
  BY <1>3, PassengerInv
<1>4. CASE StartScenario
  BY <1>4, StartScenarioInv
<1>5. CASE UNCHANGED benchVars
  <2>1. UNCHANGED <<slot, booked, cache>> /\ UNCHANGED <<phase, deadline, errs, busy, verdict, hurt>>
    BY <1>5 DEF benchVars
  <2>2. Stages'
    BY <2>1 DEF BenchIInv, Stages
  <2> QED BY <2>1, <2>2, OwnersSame, BooksSame DEF BenchIInv
<1> QED BY <1>1, <1>2, <1>3, <1>4, <1>5 DEF BenchNext

LEMMA BenchTypes == ASSUME BenchIInv  PROVE BenchTypeOK
<1>1. \A i \in DOMAIN booked : booked[i] \in Booking
  BY DEF BenchIInv, Books
<1>2. hurt \subseteq {"tester", "main"}
  BY DEF BenchIInv, Stages, Party
<1> QED BY <1>1, <1>2 DEF BenchIInv, Books, Stages, BenchTypeOK

-----------------------------------------------------------------------------
(* The verdict.                                                            *)

LEMMA FinalCheckFacts ==
  ASSUME Books
  PROVE  /\ FinalCheckBlames(cache, Paid) =>
              \E i \in cache.committed \ cache.canceled : booked[i].status = "gone"
         /\ ~ FinalCheckBlames(cache, Paid) =>
              /\ \A i \in cache.committed : booked[i].status = "paid"
              /\ \A i \in cache.canceled : booked[i].status = "gone"
<1> DEFINE paid == Paid
<1>1. /\ DOMAIN paid = {k \in DOMAIN booked : booked[k].status # "held"}
      /\ \A i \in DOMAIN paid : paid[i] = (booked[i].status = "paid")
  BY DEF Paid
<1>2. \A i \in cache.committed : /\ i \in DOMAIN booked /\ booked[i].status \in {"paid", "gone"}
                                 /\ i \notin cache.canceled
  BY DEF Books
<1>3. \A i \in cache.canceled : booked[i].status = "gone"
  BY DEF Books
<1> HIDE DEF paid
<1>4. \A i \in cache.committed : i \in DOMAIN paid /\ (paid[i] <=> booked[i].status = "paid")
  BY <1>1, <1>2
<1>5. \A i \in cache.canceled : i \in DOMAIN paid => ~ paid[i]
  BY <1>1, <1>3
<1>6. FinalCheckBlames(cache, paid) <=> \E i \in cache.committed : ~ paid[i]
  BY <1>4, <1>5 DEF FinalCheckBlames
<1>7. \A i \in cache.committed : ~ paid[i] <=> booked[i].status = "gone"
  BY <1>2, <1>4
<1> QED BY <1>2, <1>3, <1>4, <1>6, <1>7 DEF paid

(* Passengers and the tester do not end the run, but for a panic.          *)
LEMMA PassengerPhase ==
  ASSUME NEW g, Passenger(g)
  PROVE  Awake(g) /\ (phase' = phase \/ (phase' = "over" /\ verdict' = "crash" /\ errs' = errs))
<1>1. CASE Asks(g)
  <2>1. On(g, "calling", Plain) /\ phase' = phase
    BY <1>1 DEF Asks
  <2> QED BY <2>1 DEF On
<1>2. CASE Maps(g)
  <2>1. On(g, "calling", {"map"}) /\ phase' = phase
    BY <1>2 DEF Maps
  <2> QED BY <2>1 DEF On
<1>3. CASE Reserves(g)
  <2>1. On(g, "calling", {"reserve", "vague", "racer"}) /\ phase' = phase
    BY <1>3 DEF Reserves
  <2> QED BY <2>1 DEF On
<1>4. CASE HearsReserve(g)
  <2>1. On(g, "served", {"reserve", "vague", "racer"}) /\ phase' = phase
    BY <1>4 DEF HearsReserve
  <2> QED BY <2>1 DEF On
<1>5. CASE Adds(g)
  <2>1. On(g, "approved", {"reserve", "vague", "racer"}) /\ phase' = phase
    BY <1>5 DEF Adds
  <2> QED BY <2>1 DEF On
<1>6. CASE AssertsReserve(g)
  <2>1. On(g, "added", {"reserve", "vague"}) /\ phase' = phase
    BY <1>6 DEF AssertsReserve
  <2> QED BY <2>1 DEF On
<1>7. CASE Commits(g)
  <2>1. On(g, "calling", {"commit"}) /\ phase' = phase
    BY <1>7 DEF Commits
  <2> QED BY <2>1 DEF On
<1>8. CASE HearsCommit(g)
  <2>1. On(g, "served", {"commit"}) /\ phase' = phase
    BY <1>8 DEF HearsCommit
  <2> QED BY <2>1 DEF On
<1>9. CASE Cancels(g)
  <2>1. On(g, "calling", {"cancel"}) /\ phase' = phase
    BY <1>9 DEF Cancels
  <2> QED BY <2>1 DEF On
<1>10. CASE HearsCancel(g)
  <2>1. On(g, "served", {"cancel"}) /\ phase' = phase
    BY <1>10 DEF HearsCancel
  <2> QED BY <2>1 DEF On
<1>11. CASE NothingToCancel(g)
  <2>1. On(g, "calling", {"cancel"}) /\ phase' = phase
    BY <1>11 DEF NothingToCancel
  <2> QED BY <2>1 DEF On
<1>12. CASE Counts(g)
  <2>1. On(g, "calling", {"count"}) /\ phase' = phase
    BY <1>12 DEF Counts
  <2> QED BY <2>1 DEF On
<1>13. CASE AsksForWrongSeat(g)
  <2>1. On(g, "calling", {"wrongSeat"}) /\ (phase' = phase \/ (phase' = "over" /\ verdict' = "crash" /\ errs' = errs))
    BY <1>13 DEF AsksForWrongSeat
  <2> QED BY <2>1 DEF On
<1>14. CASE LosesAnswer(g)
  <2>0. PICK pc \in {"calling", "served", "added"} : \E names : On(g, pc, names)
    BY <1>14, LosesAnswerCases
  <2>1. PICK names : On(g, pc, names)
    BY <2>0
  <2>2. phase' = phase
    BY <1>14, LosesAnswerCases
  <2> QED BY <2>1, <2>2 DEF On
<1>15. CASE AsksRegardless(g)
  <2>1. On(g, "calling", {"card", "foreignCancel"}) /\ phase' = phase
    BY <1>15 DEF AsksRegardless
  <2> QED BY <2>1 DEF On
<1> QED BY <1>1, <1>2, <1>3, <1>4, <1>5, <1>6, <1>7, <1>8, <1>9, <1>10, <1>11, <1>12, <1>13, <1>14, <1>15 DEF Passenger

LEMMA TesterPhase == ASSUME Tester  PROVE phase = "load" /\ phase' = phase
BY DEF Tester, TesterStarts, TesterLooks, TesterMaps, TesterReserves, TesterLosesAnswer, TesterOn

(* Once it is over, it is over.                                            *)
LEMMA OverIsOver == ASSUME BenchNext, phase = "over"  PROVE FALSE
<1>1. ~ Main
  BY DEF Main, Prepares, InitializePayment, InitializeApplication, PretestReads, PretestRefusals, NewTester,
         Stage, PretestGoesOn, TimeIsUp, LoadEnds, FinalChecks
<1>2. ~ Tester
  BY TesterPhase
<1>3. \A g : ~ Passenger(g)
  BY PassengerPhase DEF Awake
<1>4. ~ StartScenario
  BY DEF StartScenario
<1> QED BY <1>1, <1>2, <1>3, <1>4 DEF BenchNext

LEMMA VerdictsKept ==
  ASSUME BenchIInv, BenchIInv', VerdictsMatchTheBooks, BenchNext \/ UNCHANGED benchVars
  PROVE  VerdictsMatchTheBooks'
<1>1. CASE UNCHANGED benchVars
  BY <1>1 DEF benchVars, VerdictsMatchTheBooks
<1>2. CASE BenchNext /\ phase' # "over"
  <2>1. errs'.final = "none" /\ verdict' = "none"
    BY <1>2 DEF BenchIInv, Stages
  <2> QED BY <2>1 DEF VerdictsMatchTheBooks
<1>3. CASE BenchNext /\ phase' = "over" /\ ~ FinalChecks
  <2>1. phase # "over"
    BY <1>3, OverIsOver
  <2>2. errs.final = "none"
    BY <2>1 DEF BenchIInv, Stages
  <2>3. verdict' \in {"fail", "crash"} /\ errs' = errs
    <3>1. CASE Prepares
      <4>1. verdict' = "fail" /\ errs' = errs
        BY <1>3, <3>1 DEF Prepares, InitializePayment, InitializeApplication, PretestReads, PretestRefusals,
                          NewTester, Stage, Ends
      <4> QED BY <4>1
    <3>2. CASE PretestGoesOn
      BY <1>3, <3>2, PretestGoesOnCases
    <3>3. CASE TimeIsUp \/ LoadEnds
      BY <1>3, <2>1, <3>3 DEF TimeIsUp, LoadEnds, Ends
    <3>4. CASE Tester
      BY <1>3, <2>1, <3>4, TesterPhase
    <3>5. CASE \E g \in Goroutine : Passenger(g)
      BY <1>3, <2>1, <3>5, PassengerPhase
    <3>6. CASE StartScenario
      BY <1>3, <2>1, <3>6 DEF StartScenario
    <3> QED BY <1>3, <3>1, <3>2, <3>3, <3>4, <3>5, <3>6 DEF BenchNext, Main
  <2> QED BY <2>2, <2>3 DEF VerdictsMatchTheBooks
<1>4. CASE FinalChecks
  <2>1. cache' = cache /\ booked' = booked
    BY <1>4 DEF FinalChecks
  <2>2. \/ FinalCheckBlames(cache, Paid) /\ verdict' = "fail"
        \/ ~ FinalCheckBlames(cache, Paid) /\ verdict' = "pass" /\ errs' = [errs EXCEPT !.final = "fine"]
        \/ verdict' = "fail" /\ errs' = [errs EXCEPT !.final = "lost"]
    BY <1>4 DEF FinalChecks, Ends
  <2>3. errs \in ErrsType
    BY DEF BenchIInv, Stages
  <2>4. /\ [errs EXCEPT !.final = "fine"].final # "blamed" /\ [errs EXCEPT !.final = "lost"].final # "blamed"
    BY <2>3 DEF ErrsType
  <2>5. Books
    BY DEF BenchIInv
  <2> QED BY <2>1, <2>2, <2>4, <2>5, FinalCheckFacts DEF VerdictsMatchTheBooks
<1> QED BY <1>1, <1>2, <1>3, <1>4

-----------------------------------------------------------------------------
(* What stands behind the errors.                                          *)

(* No seat is given twice, and no more than were asked for.                *)
InTheWay(a, b) == SameRun(a, b) /\ Overlap(a.from, a.to, b.from, b.to)
FewSold(books) == \A i \in DOMAIN books : IsFiniteSet(books[i].seats) /\ Cardinality(books[i].seats) <= People
SoldOnce(books) ==
  \A i, j \in DOMAIN books :
    /\ i # j /\ books[i].status # "gone" /\ books[j].status # "gone"
    /\ InTheWay(books[i].trip, books[j].trip)
    => books[i].seats \cap books[j].seats = {}

(* The cache has what was asked for.                                       *)
AddedAsBooked(books, added) ==
  \A i \in DOMAIN added : \E seats \in SUBSET books[i].seats : added[i] = RequestOf(books[i].trip, seats)

(* A reservation that the cache is still to hear of.                       *)
ToBeAdded(s, books, added) ==
  s # Done /\ s.pc \in {"served", "approved"} /\ Call(s) \in ReserveCalls /\ s.id # 0 =>
    /\ s.id \notin DOMAIN added
    /\ Call(s) # "vague" /\ s.asked # {} => books[s.id].seats = s.asked

(* The races a racer won.                                                  *)
Owned(slots) == UNION {Owns(slots[g]) : g \in Passengers}
TwoAlike(added) == \E i, j \in DOMAIN added : i # j /\ added[i] = added[j] /\ added[i].seats = {}
Left(todo, names) == \E m \in DOMAIN todo : Has(todo[m].calls, names)
WonOK(s, books, added, owned) ==
  /\ s # Done /\ s.won > 0 =>
       /\ ~ Left(s.todo, {"map"})
       /\ \E i \in DOMAIN added :
            /\ i \in DOMAIN books /\ i \notin owned /\ books[i].status # "gone"
            /\ added[i] = RequestOf(s.trip, s.asked)
  /\ s # Done /\ s.won > 1 => TwoAlike(added)

(* The seats that are to be spoiled are those the pretest's train has.     *)
PretestPlaces(books) ==
  CarsOf[PretestTrip.train][1] \
    UNION {books[i].seats : i \in {k \in DOMAIN books : SameRun(books[k].trip, PretestTrip)}}
SpoilsOK(s, books) ==
  s # Done /\ Call(s) = "wrongSeat" /\ Cardinality(s.asked) < 2 => Cardinality(PretestPlaces(books)) < 2

Sold ==
  /\ FewSold(booked) /\ SoldOnce(booked) /\ AddedAsBooked(booked, cache.added)
  /\ \A g \in Passengers : /\ ToBeAdded(slot[g], booked, cache.added)
                           /\ WonOK(slot[g], booked, cache.added, Owned(slot))
                           /\ SpoilsOK(slot[g], booked)

(* What a step of a goroutine does to the books.                           *)
Kept(i) == /\ booked'[i].trip = booked[i].trip /\ booked'[i].seats = booked[i].seats
           /\ booked[i].status = "gone" => booked'[i].status = "gone"
New == DOMAIN booked' \ DOMAIN booked
Grows(g) ==
  /\ DOMAIN booked \subseteq DOMAIN booked' /\ \A i \in DOMAIN booked : Kept(i)
  /\ \A i \in DOMAIN booked \ Mine(g) : booked'[i] = booked[i]
  /\ DOMAIN cache.added \subseteq DOMAIN cache'.added
  /\ \A i \in DOMAIN cache.added : cache'.added[i] = cache.added[i]
  /\ DOMAIN cache'.added \subseteq DOMAIN cache.added \cup Mine(g) \cup New
  /\ \A h \in Passengers : h # g => slot'[h] = slot[h]
  /\ g \in Passengers => Owns(slot'[g]) \subseteq Owns(slot[g]) \cup New

StaysSold(g) == Sold' /\ Grows(g)

(* What a passenger has on its list does not come to it again.             *)
LEMMA OwnedStep ==
  ASSUME BenchIInv, NEW g \in Goroutine, Grows(g)
  PROVE  Owned(slot') \subseteq Owned(slot) \cup New
<1> SUFFICES ASSUME NEW h \in Passengers, NEW i \in Owns(slot'[h])  PROVE i \in Owned(slot) \cup New
  BY DEF Owned
<1>1. CASE h = g
  BY <1>1 DEF Grows, Owned
<1>2. CASE h # g
  BY <1>2 DEF Grows, Owned
<1> QED BY <1>1, <1>2

LEMMA PretestPlacesShrink ==
  ASSUME NEW g, Grows(g)
  PROVE  /\ PretestPlaces(booked') \subseteq PretestPlaces(booked)
         /\ Cardinality(PretestPlaces(booked)) < 2 => Cardinality(PretestPlaces(booked')) < 2
<1> DEFINE car == CarsOf[PretestTrip.train][1]
<1>1. IsFiniteSet(car)
  BY BenchAssumption DEF AnyTrip
<1>2. PretestPlaces(booked') \subseteq PretestPlaces(booked) /\ PretestPlaces(booked) \subseteq car
  BY DEF PretestPlaces, Grows, Kept
<1>3. IsFiniteSet(PretestPlaces(booked))
  BY <1>1, <1>2, FS_Subset
<1>4. /\ IsFiniteSet(PretestPlaces(booked'))
      /\ Cardinality(PretestPlaces(booked')) <= Cardinality(PretestPlaces(booked))
  BY <1>2, <1>3, FS_Subset
<1>5. Cardinality(PretestPlaces(booked')) \in Nat /\ Cardinality(PretestPlaces(booked)) \in Nat
  BY <1>3, <1>4, FS_CardinalityType
<1> QED BY <1>2, <1>4, <1>5

(* A race that was won stays won.                                          *)
LEMMA WonGrows ==
  ASSUME BenchIInv, NEW g \in Goroutine, Grows(g), NEW s, WonOK(s, booked, cache.added, Owned(slot))
  PROVE  WonOK(s, booked', cache'.added, Owned(slot'))
<1>1. Owned(slot') \subseteq Owned(slot) \cup New /\ Mine(g) \subseteq Owned(slot)
  BY OwnedStep, SomeGoroutine DEF Mine, Owned
<1> HIDE DEF Owned, Mine, Left
<1>2. TwoAlike(cache.added) => TwoAlike(cache'.added)
  BY DEF Grows, TwoAlike
<1>3. ASSUME NEW i \in DOMAIN cache.added, i \in DOMAIN booked, i \notin Owned(slot), booked[i].status # "gone"
      PROVE  /\ i \in DOMAIN cache'.added /\ i \in DOMAIN booked' /\ i \notin Owned(slot')
             /\ booked'[i].status # "gone" /\ cache'.added[i] = cache.added[i]
  BY <1>1, <1>3 DEF Grows, New
<1> HIDE DEF TwoAlike
<1> QED BY <1>2, <1>3 DEF WonOK

(* The others.                                                             *)
LEMMA BystanderOK ==
  ASSUME BenchIInv, Sold, NEW g \in Goroutine, Grows(g), NEW h \in Passengers, h # g
  PROVE  /\ ToBeAdded(slot'[h], booked', cache'.added)
         /\ WonOK(slot'[h], booked', cache'.added, Owned(slot'))
         /\ SpoilsOK(slot'[h], booked')
<1> DEFINE s == slot[h]
<1>1. slot'[h] = s
  BY DEF Grows
<1>2. /\ ToBeAdded(s, booked, cache.added) /\ WonOK(s, booked, cache.added, Owned(slot)) /\ SpoilsOK(s, booked)
      /\ OwnsOK(s, booked, cache.canceled)
  BY DEF Sold, BenchIInv, Owners
<1>3. Owns(s) \cap Mine(g) = {}
  BY SomeGoroutine DEF BenchIInv, Owners, Mine
<1>4. Owned(slot') \subseteq Owned(slot) \cup New
  BY OwnedStep
<1>5. \A i \in Owned(slot) : i \in DOMAIN booked
  BY DEF Owned, BenchIInv, Owners, OwnsOK
<1>6. Mine(g) \subseteq Owned(slot)
  BY SomeGoroutine DEF Mine, Owned
<1> HIDE DEF s, Owned, Mine, Left, TwoAlike
<1>7. ToBeAdded(s, booked', cache'.added)
  <2> SUFFICES ASSUME s # Done, s.pc \in {"served", "approved"}, Call(s) \in ReserveCalls, s.id # 0
               PROVE  /\ s.id \notin DOMAIN cache'.added
                      /\ Call(s) # "vague" /\ s.asked # {} => booked'[s.id].seats = s.asked
    BY DEF ToBeAdded
  <2>1. s.id \in Owns(s)
    BY DEF Owns, Holds
  <2>2. s.id \in DOMAIN booked /\ s.id \notin Mine(g)
    BY <1>2, <1>3, <2>1 DEF OwnsOK
  <2>3. s.id \notin DOMAIN cache'.added
    BY <1>2, <2>2 DEF Grows, New, ToBeAdded
  <2> QED BY <1>2, <2>2, <2>3 DEF Grows, ToBeAdded
<1>10. WonOK(s, booked', cache'.added, Owned(slot'))
  BY <1>2, WonGrows
<1>11. SpoilsOK(s, booked')
  BY <1>2, PretestPlacesShrink DEF SpoilsOK
<1> QED BY <1>1, <1>7, <1>10, <1>11

(* The step of one goroutine.                                              *)
LEMMA SoldStep ==
  ASSUME BenchIInv, Sold, NEW g \in Goroutine, Grows(g),
         FewSold(booked'), SoldOnce(booked'), AddedAsBooked(booked', cache'.added),
         g \in Passengers => /\ ToBeAdded(slot'[g], booked', cache'.added)
                             /\ WonOK(slot'[g], booked', cache'.added, Owned(slot'))
                             /\ SpoilsOK(slot'[g], booked')
  PROVE  StaysSold(g)
<1> HIDE DEF ToBeAdded, WonOK, SpoilsOK, Owned, FewSold, SoldOnce, AddedAsBooked
<1>1. \A h \in Passengers : /\ ToBeAdded(slot'[h], booked', cache'.added)
                            /\ WonOK(slot'[h], booked', cache'.added, Owned(slot'))
                            /\ SpoilsOK(slot'[h], booked')
  <2> TAKE h \in Passengers
  <2>1. CASE h = g
    BY <2>1
  <2>2. CASE h # g
    BY <2>2, BystanderOK
  <2> QED BY <2>1, <2>2
<1>2. Sold'
  BY <1>1 DEF Sold
<1> QED BY <1>2 DEF StaysSold

(* Books that get no new entry.                                            *)
LEMMA SoldSame ==
  ASSUME Sold, NEW g, Grows(g), DOMAIN booked' = DOMAIN booked, cache'.added = cache.added,
         BenchIInv
  PROVE  FewSold(booked') /\ SoldOnce(booked') /\ AddedAsBooked(booked', cache'.added)
<1>1. \A i \in DOMAIN booked : Kept(i)
  BY DEF Grows
<1>2. FewSold(booked')
  BY <1>1 DEF Sold, FewSold, Kept
<1>3. SoldOnce(booked')
  BY <1>1 DEF Sold, SoldOnce, Kept
<1>4. AddedAsBooked(booked', cache'.added)
  BY <1>1 DEF Sold, AddedAsBooked, Kept, BenchIInv, Books
<1> QED BY <1>2, <1>3, <1>4

(* A new entry, of seats that were free.                                   *)
LEMMA SoldNew ==
  ASSUME Sold, BenchIInv, NEW b \in Booking, booked' = Append(booked, b),
         IsFiniteSet(b.seats), Cardinality(b.seats) <= People,
         NEW car, b.seats \subseteq Free(b.trip, car)
  PROVE  FewSold(booked') /\ SoldOnce(booked')
<1> DEFINE new == Len(booked) + 1
<1>1. /\ DOMAIN booked' = DOMAIN booked \cup {new} /\ booked'[new] = b
      /\ \A k \in DOMAIN booked : booked'[k] = booked[k] /\ k # new
  BY AppendOK DEF BenchIInv, Books
<1> HIDE DEF new
<1>2. FewSold(booked')
  BY <1>1 DEF Sold, FewSold
<1>3. ASSUME NEW i \in DOMAIN booked, booked[i].status # "gone",
             InTheWay(booked[i].trip, b.trip) \/ InTheWay(b.trip, booked[i].trip)
      PROVE  booked[i].seats \cap b.seats = {}
  <2>1. SameRun(booked[i].trip, b.trip) /\ Overlap(b.trip.from, b.trip.to, booked[i].trip.from, booked[i].trip.to)
    BY <1>3 DEF InTheWay, SameRun, Overlap
  <2> QED BY <1>3, <2>1 DEF Free
<1>4. SoldOnce(booked')
  <2> SUFFICES ASSUME NEW i \in DOMAIN booked', NEW j \in DOMAIN booked', i # j,
                      booked'[i].status # "gone", booked'[j].status # "gone",
                      InTheWay(booked'[i].trip, booked'[j].trip)
               PROVE  booked'[i].seats \cap booked'[j].seats = {}
    BY DEF SoldOnce
  <2>1. CASE i = new
    BY <1>1, <1>3, <2>1
  <2>2. CASE j = new
    BY <1>1, <1>3, <2>2
  <2>3. CASE i # new /\ j # new
    BY <1>1, <2>3 DEF Sold, SoldOnce
  <2> QED BY <2>1, <2>2, <2>3
<1> QED BY <1>2, <1>4

(* What is left of a scenario was in it.                                   *)
LEMMA LeftOfRest ==
  ASSUME NEW todo \in Seq(BlockType), todo # << >>, NEW n \in 1 .. Len(todo[1].calls), NEW names,
         Left(Rest(todo, n), names)
  PROVE  Left(todo, names)
<1> DEFINE rest == Rest(todo, n)
<1>0. Len(todo) \in Nat /\ todo[1] \in BlockType /\ 1 \in DOMAIN todo
  OBVIOUS
<1>1. Len(todo[1].calls) \in Nat
  BY <1>0 DEF BlockType
<1>2. PICK m \in DOMAIN rest : Has(rest[m].calls, names)
  BY DEF Left
<1>3. CASE n = Len(todo[1].calls)
  <2>1. /\ rest \in Seq(BlockType) /\ Len(rest) = Len(todo) - 1
        /\ \A k \in 1 .. (Len(todo) - 1) : rest[k] = todo[k + 1]
    BY <1>3, RestAfterBlock
  <2> HIDE DEF rest
  <2>2. m \in 1 .. (Len(todo) - 1) /\ m + 1 \in DOMAIN todo
    BY <1>0, <1>2, <2>1
  <2> QED BY <1>2, <2>1, <2>2 DEF Left
<1>4. CASE n # Len(todo[1].calls)
  <2>0. n \in 1 .. (Len(todo[1].calls) - 1)
    BY <1>1, <1>4
  <2>1. /\ rest \in Seq(BlockType) /\ Len(rest) = Len(todo)
        /\ Len(rest[1].calls) = Len(todo[1].calls) - n /\ rest[1].calls \in Seq(CallName)
        /\ \A k \in 1 .. (Len(todo[1].calls) - n) : rest[1].calls[k] = todo[1].calls[k + n]
        /\ \A k \in 2 .. Len(todo) : rest[k] = todo[k]
    BY <2>0, RestOfBlock
  <2> HIDE DEF rest
  <2>2. m \in DOMAIN todo /\ m \in Nat
    BY <1>0, <1>2, <2>1
  <2>3. CASE m = 1
    <3>1. PICK k \in DOMAIN rest[1].calls : rest[1].calls[k] \in names
      BY <1>2, <2>3 DEF Has
    <3>2. k \in 1 .. (Len(todo[1].calls) - n) /\ k + n \in DOMAIN todo[1].calls
      <4>1. DOMAIN todo[1].calls = 1 .. Len(todo[1].calls)
        BY <1>0 DEF BlockType
      <4>2. DOMAIN rest[1].calls = 1 .. (Len(todo[1].calls) - n)
        BY <2>1
      <4> QED BY <1>1, <2>0, <3>1, <4>1, <4>2
    <3>3. Has(todo[1].calls, names)
      BY <2>1, <3>1, <3>2 DEF Has
    <3> QED BY <1>0, <3>3 DEF Left
  <2>4. CASE m # 1
    <3>1. m \in 2 .. Len(todo)
      BY <1>0, <2>2, <2>4
    <3> QED BY <1>2, <2>1, <2>2, <3>1 DEF Left
  <2> QED BY <2>3, <2>4
<1> QED BY <1>3, <1>4

(* A passenger that goes on, or is done.                                   *)
LEMMA PastNotes ==
  ASSUME NEW x, SlotCore(x), x # Done, NEW n \in 1 .. Len(x.todo[1].calls),
         n = Len(x.todo[1].calls) \/ x.todo[1].calls[n] # "map",
         NEW books, NEW added, NEW owned, WonOK(x, books, added, owned)
  PROVE  LET t == Past(x, n)
         IN  ToBeAdded(t, books, added) /\ WonOK(t, books, added, owned) /\ SpoilsOK(t, books)
<1> DEFINE t == Past(x, n)
<1>1. CASE t = Done
  BY <1>1 DEF ToBeAdded, WonOK, SpoilsOK
<1>2. CASE t # Done
  <2>1. /\ t.pc = "calling" /\ t.todo = Rest(x.todo, n)
        /\ t.trip = x.trip /\ t.asked = x.asked /\ t.won = x.won
        /\ x.todo[1].calls[n] # "map" => Call(t) # "wrongSeat"
        /\ n = Len(x.todo[1].calls) => NotBegun(t.todo[1])
    BY <1>2, PastOK
  <2>2. Call(t) # "wrongSeat"
    BY <2>1 DEF Call, NotBegun
  <2>3. x.todo \in Seq(BlockType) /\ x.todo # << >>
    BY DEF SlotCore, TodoOK
  <2> HIDE DEF t
  <2>4. Left(t.todo, {"map"}) => Left(x.todo, {"map"})
    BY <2>1, <2>3, LeftOfRest
  <2>5. ToBeAdded(t, books, added)
    BY <2>1 DEF ToBeAdded
  <2>6. WonOK(t, books, added, owned)
    BY <2>1, <2>4 DEF WonOK
  <2>7. SpoilsOK(t, books)
    BY <2>2 DEF SpoilsOK
  <2> QED BY <2>5, <2>6, <2>7 DEF t
<1> QED BY <1>1, <1>2

(* A passenger whose call is the same.                                     *)
LEMMA SameNotes ==
  ASSUME NEW s, NEW t, s # Done, t # Done, t.todo = s.todo, t.trip = s.trip, t.asked = s.asked, t.won = s.won,
         NEW books, NEW added, NEW owned, WonOK(s, books, added, owned), Call(s) # "wrongSeat"
  PROVE  WonOK(t, books, added, owned) /\ SpoilsOK(t, books) /\ Call(t) = Call(s)
BY DEF WonOK, SpoilsOK, Call

-----------------------------------------------------------------------------
(* The passengers' steps.                                                  *)

LEMMA NotDone == ASSUME NEW s, SlotCore(s)  PROVE s # Done /\ s.won \in Nat
BY DEF SlotCore, SlotType, Done

(* A passenger that goes on has nothing it had not.                        *)
LEMMA PassingOwns ==
  ASSUME NEW s, s # Done, NEW x, SlotCore(x), x.todo = s.todo, x.id = s.id, x.kept \subseteq Owns(s),
         NEW n \in 1 .. Len(x.todo[1].calls),
         \/ s.pc # "calling" \/ n = Len(x.todo[1].calls)
         \/ \A k \in 1 .. n : x.todo[1].calls[k] \notin {"reserve", "vague"}
  PROVE  Owns(Past(x, n)) \subseteq Owns(s)
<1> DEFINE t == Past(x, n)
<1>1. CASE t = Done
  BY <1>1 DEF Owns
<1>2. CASE t # Done
  <2>1. /\ t.pc = "calling" /\ t.id = x.id /\ t.kept = x.kept
        /\ (\A k \in 1 .. n : x.todo[1].calls[k] \notin {"reserve", "vague"}) /\ Covered(x.todo[1].calls)
             => Covered(t.todo[1].calls)
        /\ n = Len(x.todo[1].calls) => NotBegun(t.todo[1])
    BY <1>2, PastOK
  <2> HIDE DEF t
  <2>2. Holds(t) => Holds(s)
    BY <2>1 DEF Holds, NotBegun
  <2> HIDE DEF Holds
  <2>3. s.id \in Owns(s) \/ ~ Holds(s)
    BY DEF Owns
  <2>4. Owns(t) = t.kept \cup (IF Holds(t) THEN {t.id} ELSE {})
    BY <1>2 DEF Owns
  <2> QED BY <2>1, <2>2, <2>3, <2>4 DEF t
<1> QED BY <1>1, <1>2

(* Calls whose answers leave the books as they are.                        *)
LEMMA PassingSold ==
  ASSUME BenchIInv, Sold, NEW g \in Passengers, slot[g] # Done,
         NEW x, SlotCore(x), x.todo = slot[g].todo, x.trip = slot[g].trip, x.asked = slot[g].asked,
         x.won = slot[g].won, x.id = slot[g].id, x.kept \subseteq Owns(slot[g]),
         NEW n \in 1 .. Len(x.todo[1].calls), slot' = [slot EXCEPT ![g] = Past(x, n)],
         n = Len(x.todo[1].calls) \/ x.todo[1].calls[n] # "map",
         \/ slot[g].pc # "calling" \/ n = Len(x.todo[1].calls)
         \/ \A k \in 1 .. n : x.todo[1].calls[k] \notin {"reserve", "vague"},
         booked' = booked, cache'.added = cache.added
  PROVE  StaysSold(g)
<1> DEFINE s == slot[g]
           t == Past(x, n)
<1>1. g \in Goroutine /\ g # tester /\ Mine(g) = Owns(s) /\ slot = [h \in Goroutine |-> slot[h]]
  BY SomeGoroutine DEF Mine, BenchIInv, Owners
<1>2. slot'[g] = t /\ \A h \in Passengers : h # g => slot'[h] = slot[h]
  BY <1>1, SomeGoroutine
<1>3. Owns(t) \subseteq Owns(s)
  BY PassingOwns
<1>4. Grows(g)
  BY <1>1, <1>2, <1>3 DEF Grows, Kept, New
<1>5. FewSold(booked') /\ SoldOnce(booked') /\ AddedAsBooked(booked', cache'.added)
  BY <1>4, SoldSame
<1>6. WonOK(s, booked', cache'.added, Owned(slot'))
  BY <1>1, <1>4, WonGrows DEF Sold
<1>7. WonOK(x, booked', cache'.added, Owned(slot'))
  BY <1>6 DEF WonOK
<1>8. /\ ToBeAdded(t, booked', cache'.added) /\ WonOK(t, booked', cache'.added, Owned(slot'))
      /\ SpoilsOK(t, booked')
  BY <1>7, NotDone, PastNotes
<1> QED BY <1>1, <1>2, <1>4, <1>5, <1>8, SoldStep

(* Steps that leave both the books and the calls of the passengers alone.  *)
LEMMA StandingSold ==
  ASSUME BenchIInv, Sold, NEW g \in Goroutine, \A h \in Passengers : slot'[h] = slot[h],
         booked' = booked, cache'.added = cache.added
  PROVE  StaysSold(g)
<1>1. Grows(g)
  BY DEF Grows, Kept, New
<1>2. FewSold(booked') /\ SoldOnce(booked') /\ AddedAsBooked(booked', cache'.added)
  BY <1>1, SoldSame
<1>3. g \in Passengers => /\ ToBeAdded(slot'[g], booked', cache'.added)
                         /\ WonOK(slot'[g], booked', cache'.added, Owned(slot'))
                         /\ SpoilsOK(slot'[g], booked')
  <2>1. Owned(slot') = Owned(slot)
    BY DEF Owned
  <2> QED BY <2>1 DEF Sold
<1> QED BY <1>1, <1>2, <1>3, SoldStep

(* A scenario begins.                                                      *)
LEMMA BeginSold ==
  ASSUME BenchIInv, Sold, NEW g \in Passengers, NEW blocks, NEW trip \in AnyTrip, ScenarioOK(blocks, trip),
         slot' = [slot EXCEPT ![g] = Start(blocks, trip)], booked' = booked, cache'.added = cache.added
  PROVE  StaysSold(g)
<1> DEFINE t == Start(blocks, trip)
<1>1. g \in Goroutine /\ slot = [h \in Goroutine |-> slot[h]]
  BY SomeGoroutine DEF BenchIInv, Owners
<1>2. slot'[g] = t /\ \A h \in Passengers : h # g => slot'[h] = slot[h]
  BY <1>1, SomeGoroutine
<1>3. Owns(t) = {}
  BY StartOK
<1>4. t.pc = "calling" /\ t.won = 0 /\ t.todo = blocks
  BY DEF Start
<1>5. Call(t) # "wrongSeat"
  BY <1>4 DEF ScenarioOK, NotBegun, Call
<1> HIDE DEF t
<1>6. Grows(g)
  BY <1>2, <1>3 DEF Grows, Kept, New
<1>7. FewSold(booked') /\ SoldOnce(booked') /\ AddedAsBooked(booked', cache'.added)
  BY <1>6, SoldSame
<1>8. ToBeAdded(t, booked', cache'.added) /\ SpoilsOK(t, booked') /\ WonOK(t, booked', cache'.added, Owned(slot'))
  BY <1>4, <1>5 DEF ToBeAdded, SpoilsOK, WonOK
<1> QED BY <1>1, <1>2, <1>6, <1>7, <1>8, SoldStep

(* A scenario is given up.                                                 *)
LEMMA DoneSold ==
  ASSUME BenchIInv, Sold, NEW g \in Passengers,
         slot' = [slot EXCEPT ![g] = Done], booked' = booked, cache'.added = cache.added
  PROVE  StaysSold(g)
<1>1. g \in Goroutine /\ slot = [h \in Goroutine |-> slot[h]]
  BY SomeGoroutine DEF BenchIInv, Owners
<1>2. slot'[g] = Done /\ \A h \in Passengers : h # g => slot'[h] = slot[h]
  BY <1>1, SomeGoroutine
<1>3. Owns(Done) = {}
  BY DEF Owns
<1>4. Grows(g)
  BY <1>2, <1>3 DEF Grows, Kept, New
<1>5. FewSold(booked') /\ SoldOnce(booked') /\ AddedAsBooked(booked', cache'.added)
  BY <1>4, SoldSame
<1>6. ToBeAdded(Done, booked', cache'.added) /\ SpoilsOK(Done, booked') /\ WonOK(Done, booked', cache'.added, Owned(slot'))
  BY DEF ToBeAdded, SpoilsOK, WonOK
<1> QED BY <1>1, <1>2, <1>4, <1>5, <1>6, SoldStep

(* An error.                                                               *)
LEMMA FailsSold ==
  ASSUME BenchIInv, Sold, NEW g \in Goroutine, NEW pc, pc # "done", NEW names, On(g, pc, names),
         NEW kind \in Critical \cup {"timeout", "application"}, Fails(g, kind),
         UNCHANGED <<cache, booked>>
  PROVE  StaysSold(g)
<1>1. /\ g \in Passengers /\ slot[g] # Done /\ SlotCore(slot[g]) /\ OwnsOK(slot[g], booked, cache.canceled)
  BY OnFacts DEF BenchIInv, SlotOK
<1>2. /\ \/ slot' = [slot EXCEPT ![g] = Done]
         \/ slot' = [slot EXCEPT ![g] = Past(slot[g], Len(slot[g].todo[1].calls))]
      /\ Len(slot[g].todo[1].calls) \in 1 .. Len(slot[g].todo[1].calls)
  BY <1>1, FailsOK DEF BenchIInv
<1>3. slot[g].kept \subseteq Owns(slot[g])
  BY <1>1, KeptOK
<1> QED BY <1>1, <1>2, <1>3, DoneSold, PassingSold

(* One call that went well, and reserved nothing or was not asked.         *)
LEMMA NextSold ==
  ASSUME BenchIInv, Sold, NEW g \in Goroutine, NEW pc, pc # "done", NEW names, On(g, pc, names),
         pc # "calling" \/ names \cap {"reserve", "vague"} = {}, "map" \notin names,
         NEW x, SlotCore(x), x.todo = slot[g].todo, x.trip = slot[g].trip, x.asked = slot[g].asked,
         x.won = slot[g].won, x.id = slot[g].id, x.kept \subseteq Owns(slot[g]),
         slot' = [slot EXCEPT ![g] = Past(x, 1)], booked' = booked, cache'.added = cache.added
  PROVE  StaysSold(g)
<1>1. /\ g \in Passengers /\ slot[g] # Done /\ slot[g].pc = pc /\ Call(slot[g]) \in names
      /\ slot[g].todo[1].calls \in Seq(CallName) /\ 1 \in DOMAIN slot[g].todo[1].calls
  BY OnFacts DEF BenchIInv
<1>2. 1 \in 1 .. Len(x.todo[1].calls) /\ x.todo[1].calls[1] \in names
  BY <1>1 DEF Call
<1>3. x.todo[1].calls[1] # "map" /\ (pc # "calling" \/ \A k \in 1 .. 1 : x.todo[1].calls[k] \notin {"reserve", "vague"})
  BY <1>2
<1> QED BY <1>1, <1>2, <1>3, PassingSold

LEMMA Next1Sold ==
  ASSUME BenchIInv, Sold, NEW g \in Goroutine, NEW pc, pc # "done", NEW names, On(g, pc, names),
         pc # "calling" \/ names \cap {"reserve", "vague"} = {}, "map" \notin names,
         Next1(g), booked' = booked, cache'.added = cache.added
  PROVE  StaysSold(g)
<1>1. /\ slot[g] # Done /\ SlotCore(slot[g]) /\ OwnsOK(slot[g], booked, cache.canceled)
  BY OnFacts DEF BenchIInv, SlotOK
<1>2. slot[g].kept \subseteq Owns(slot[g])
  BY <1>1, KeptOK
<1> QED BY <1>1, <1>2, NextSold DEF Next1

LEMMA AsksSold == ASSUME BenchIInv, Sold, NEW g \in Goroutine, Asks(g)  PROVE StaysSold(g)
<1>1. On(g, "calling", Plain) /\ UNCHANGED <<cache, booked>>
  BY DEF Asks
<1>2. /\ g \in Passengers /\ slot[g] # Done /\ SlotCore(slot[g]) /\ OwnsOK(slot[g], booked, cache.canceled)
      /\ slot[g].todo[1].calls \in Seq(CallName)
  BY <1>1, OnFacts DEF BenchIInv, SlotOK
<1>3. PICK n \in 1 .. Len(slot[g].todo[1].calls) :
         /\ slot' = [slot EXCEPT ![g] = Past(slot[g], n)]
         /\ \A i \in 1 .. n : slot[g].todo[1].calls[i] \in Plain
  BY AsksOK DEF BenchIInv
<1>4. \A i \in 1 .. n : slot[g].todo[1].calls[i] \notin {"reserve", "vague", "map"}
  BY <1>3 DEF Plain, AccountCalls, TimetableCalls, ViewCalls
<1>5. n \in 1 .. n
  BY <1>2
<1>6. slot[g].kept \subseteq Owns(slot[g])
  BY <1>2, KeptOK
<1> QED BY <1>1, <1>2, <1>3, <1>4, <1>5, <1>6, PassingSold

LEMMA AssertsReserveSold == ASSUME BenchIInv, Sold, NEW g \in Goroutine, AssertsReserve(g)  PROVE StaysSold(g)
<1>1. On(g, "added", {"reserve", "vague"}) /\ UNCHANGED <<cache, booked>>
      /\ (Next1(g) \/ Fails(g, "too few seats"))
  BY DEF AssertsReserve
<1>2. "too few seats" \in Critical
  BY DEF Critical
<1> QED BY <1>1, <1>2, Next1Sold, FailsSold

LEMMA HearsCommitSold == ASSUME BenchIInv, Sold, NEW g \in Goroutine, HearsCommit(g)  PROVE StaysSold(g)
<1> DEFINE s == slot[g]
           x == [s EXCEPT !.kept = s.kept \cup {s.id}]
<1>1. /\ On(g, "served", {"commit"}) /\ booked' = booked /\ cache' = CacheCommit(cache, s.id)
      /\ slot' = [slot EXCEPT ![g] = Past(x, 1)]
  BY DEF HearsCommit
<1>2. /\ s # Done /\ SlotOK(s) /\ SlotCore(s) /\ OwnsOK(s, booked, cache.canceled)
      /\ s.pc = "served" /\ Call(s) = "commit"
  BY <1>1, OnFacts DEF BenchIInv, SlotOK
<1>3. s \in SlotType
  BY <1>2 DEF SlotCore
<1>4. s.id # 0 /\ Holds(s)
  BY <1>2 DEF SlotOK, HasId, Holds, ReserveCalls
<1>5. s.id \in Owns(s) /\ s.kept \subseteq Owns(s)
  BY <1>2, <1>4, HeldOK, KeptOK
<1>6. /\ x \in SlotType /\ x.todo = s.todo /\ x.trip = s.trip /\ x.asked = s.asked
      /\ x.won = s.won /\ x.id = s.id /\ x.kept = s.kept \cup {s.id}
  BY <1>3 DEF SlotType
<1> HIDE DEF x
<1>7. SlotCore(x)
  BY <1>2, <1>6 DEF SlotCore
<1>8. cache'.added = cache.added
  BY <1>1 DEF CacheCommit, BenchIInv, Books
<1> QED BY <1>1, <1>5, <1>6, <1>7, <1>8, NextSold

LEMMA HearsCancelSold == ASSUME BenchIInv, Sold, NEW g \in Goroutine, HearsCancel(g)  PROVE StaysSold(g)
<1>1. /\ On(g, "served", {"cancel"}) /\ booked' = booked /\ cache' = CacheCancel(cache, slot[g].id) /\ Next1(g)
  BY DEF HearsCancel
<1>2. cache'.added = cache.added
  BY <1>1 DEF CacheCancel, BenchIInv, Books
<1> QED BY <1>1, <1>2, Next1Sold

LEMMA CountsSold == ASSUME BenchIInv, Sold, NEW g \in Goroutine, Counts(g)  PROVE StaysSold(g)
<1>1. On(g, "calling", {"count"})
  BY DEF Counts
<1>2. slot[g].won \in Nat
  BY <1>1, OnFacts, NotDone DEF BenchIInv, SlotOK
<1>3. UNCHANGED <<cache, booked>> /\ (Fails(g, "application") \/ Next1(g) \/ Fails(g, "sold twice"))
  BY <1>2, CountsCases
<1>4. "sold twice" \in Critical
  BY DEF Critical
<1> QED BY <1>1, <1>3, <1>4, Next1Sold, FailsSold

LEMMA AsksRegardlessSold == ASSUME BenchIInv, Sold, NEW g \in Goroutine, AsksRegardless(g)  PROVE StaysSold(g)
<1>1. On(g, "calling", {"card", "foreignCancel"}) /\ UNCHANGED <<cache, booked>> /\ Next1(g)
  BY DEF AsksRegardless
<1> QED BY <1>1, Next1Sold

LEMMA NothingToCancelSold ==
  ASSUME BenchIInv, Sold, NEW g \in Goroutine, NothingToCancel(g)
  PROVE  StaysSold(g)
<1>1. On(g, "calling", {"cancel"}) /\ UNCHANGED <<cache, booked>> /\ Next1(g)
  BY DEF NothingToCancel
<1> QED BY <1>1, Next1Sold

LEMMA AsksForWrongSeatSold ==
  ASSUME BenchIInv, Sold, NEW g \in Goroutine, AsksForWrongSeat(g)
  PROVE  StaysSold(g)
<1>1. On(g, "calling", {"wrongSeat"}) /\ UNCHANGED <<cache, booked>> /\ (slot' = slot \/ Next1(g))
  BY DEF AsksForWrongSeat
<1>2. CASE slot' = slot
  BY <1>1, <1>2, StandingSold
<1>3. CASE Next1(g)
  BY <1>1, <1>3, Next1Sold
<1> QED BY <1>1, <1>2, <1>3

LEMMA LosesAnswerSold == ASSUME BenchIInv, Sold, NEW g \in Goroutine, LosesAnswer(g)  PROVE StaysSold(g)
<1>1. PICK pc \in {"calling", "served", "added"} : \E names : On(g, pc, names)
  BY LosesAnswerCases
<1>2. PICK names : On(g, pc, names)
  BY <1>1
<1>3. pc # "done" /\ slot[g].pc = pc /\ UNCHANGED <<cache, booked>>
  BY <1>2, LosesAnswerCases DEF On
<1>4. CASE On(g, slot[g].pc, {"racer"}) /\ Next1(g)
  BY <1>3, <1>4, Next1Sold
<1>5. ASSUME NEW kind \in LossKind, Fails(g, kind)  PROVE StaysSold(g)
  BY <1>2, <1>3, <1>5, LossKinds, FailsSold
<1> QED BY <1>4, <1>5, LosesAnswerCases

(* A request is heard to have been granted.                                *)
LEMMA HearsReserveSold == ASSUME BenchIInv, Sold, NEW g \in Goroutine, HearsReserve(g)  PROVE StaysSold(g)
<1> DEFINE s == slot[g]
           x == [s EXCEPT !.pc = "approved"]
<1>1. /\ On(g, "served", ReserveCalls) /\ UNCHANGED <<cache, booked>>
      /\ \/ Next1(g) \/ Fails(g, "application") \/ Fails(g, "taken seat sold")
         \/ slot' = [slot EXCEPT ![g].pc = "approved"]
  BY HearsReserveCases
<1>2. "taken seat sold" \in Critical /\ "map" \notin ReserveCalls
  BY DEF Critical, ReserveCalls
<1>3. CASE slot' = [slot EXCEPT ![g].pc = "approved"]
  <2>1. /\ g \in Passengers /\ s # Done /\ SlotCore(s) /\ OwnsOK(s, booked, cache.canceled)
        /\ s.pc = "served" /\ Call(s) \in ReserveCalls
    BY <1>1, OnFacts DEF BenchIInv, SlotOK
  <2>2. s \in SlotType
    BY <2>1 DEF SlotCore
  <2>3. g \in Goroutine /\ g # tester /\ slot = [h \in Goroutine |-> slot[h]]
    BY <2>1, SomeGoroutine DEF BenchIInv, Owners
  <2>4. slot'[g] = x /\ \A h \in Passengers : h # g => slot'[h] = slot[h]
    BY <1>3, <2>3, SomeGoroutine
  <2>5. /\ x.pc = "approved" /\ x.todo = s.todo /\ x.trip = s.trip /\ x.asked = s.asked /\ x.won = s.won
        /\ x.id = s.id /\ x.kept = s.kept
    BY <2>2 DEF SlotType
  <2>6. x # Done
    BY <2>5 DEF Done
  <2> HIDE DEF x
  <2>7. Owns(x) = Owns(s)
    BY <2>1, <2>5, <2>6 DEF Owns, Holds
  <2>8. Grows(g)
    BY <1>1, <2>4, <2>7 DEF Grows, Kept, New
  <2>9. FewSold(booked') /\ SoldOnce(booked') /\ AddedAsBooked(booked', cache'.added)
    BY <1>1, <2>8, SoldSame
  <2>10. WonOK(s, booked', cache'.added, Owned(slot')) /\ Call(s) # "wrongSeat"
    BY <2>1, <2>8, WonGrows DEF Sold, ReserveCalls
  <2>11. WonOK(x, booked', cache'.added, Owned(slot')) /\ SpoilsOK(x, booked') /\ Call(x) = Call(s)
    BY <2>1, <2>5, <2>6, <2>10, SameNotes
  <2>12. ToBeAdded(x, booked', cache'.added)
    <3>1. ToBeAdded(s, booked, cache.added)
      BY <2>1 DEF Sold
    <3> QED BY <1>1, <2>1, <2>5, <2>11, <3>1 DEF ToBeAdded
  <2> QED BY <2>4, <2>8, <2>9, <2>11, <2>12, SoldStep
<1> QED BY <1>1, <1>2, <1>3, Next1Sold, FailsSold

(* Of two places or more the first two are taken, of fewer all.            *)
LEMMA FirstTwo ==
  ASSUME NEW S, S \subseteq Nat, IsFiniteSet(S), Cardinality(FirstOf(S, 2)) < 2
  PROVE  FirstOf(S, 2) = S
<1> DEFINE F == FirstOf(S, 2)
           Below(x) == {y \in S : y < x}
<1>0. F = {x \in S : Cardinality(Below(x)) < 2} /\ F \subseteq S
  BY DEF FirstOf
<1>1. SUFFICES ASSUME NEW z \in S, z \notin F  PROVE FALSE
  BY <1>0 DEF FirstOf
<1>2. PICK a \in S : \A y \in S : a <= y
  BY LeastNumber
<1>3. a \in F
  <2>1. Below(a) = {}
    <3>1. ASSUME NEW y \in S, y < a  PROVE FALSE
      <4>1. y \in Nat /\ a \in Nat /\ a <= y
        BY <1>2
      <4> QED BY <3>1, <4>1
    <3> QED BY <3>1
  <2>2. Cardinality(Below(a)) = 0
    BY <2>1, FS_EmptySet
  <2> HIDE DEF Below
  <2> QED BY <1>0, <2>2
<1>4. S \ {a} \subseteq Nat /\ S \ {a} # {}
  BY <1>1, <1>3
<1>5. PICK b \in S \ {a} : \A y \in S \ {a} : b <= y
  BY <1>4, LeastNumber
<1>6. b \in F
  <2>1. Below(b) \subseteq {a}
    <3>1. ASSUME NEW y \in S, y < b, y # a  PROVE FALSE
      <4>1. y \in Nat /\ b \in Nat /\ b <= y
        BY <1>5, <3>1
      <4> QED BY <3>1, <4>1
    <3> QED BY <3>1
  <2>2. IsFiniteSet(Below(b)) /\ Cardinality(Below(b)) <= 1 /\ Cardinality(Below(b)) \in Nat
    <3>1. IsFiniteSet({a}) /\ Cardinality({a}) = 1
      BY FS_Singleton
    <3> HIDE DEF Below
    <3>2. IsFiniteSet(Below(b)) /\ Cardinality(Below(b)) <= 1
      BY <2>1, <3>1, FS_Subset
    <3> QED BY <3>2, FS_CardinalityType
  <2> HIDE DEF Below
  <2> QED BY <1>0, <2>2
<1>7. IsFiniteSet(F) /\ Cardinality(F) \in Nat /\ Cardinality(F) < 2
  BY <1>0, FS_Subset, FS_CardinalityType
<1> HIDE DEF F, Below
<1>8. F = {} \/ \E x : F = {x}
  <2>1. Cardinality(F) = 0 \/ Cardinality(F) = 1
    BY <1>7
  <2> QED BY <1>7, <2>1, FS_EmptySet, FS_Singleton
<1> QED BY <1>3, <1>5, <1>6, <1>8

LEMMA MapsSold == ASSUME BenchIInv, Sold, NEW g \in Goroutine, Maps(g)  PROVE StaysSold(g)
<1> DEFINE s == slot[g]
           seats == FilterTrainSeats(s.trip)
           x == [s EXCEPT !.asked = seats]
           t == Past(x, 1)
<1>1. /\ On(g, "calling", {"map"}) /\ UNCHANGED <<cache, booked>> /\ slot' = [slot EXCEPT ![g] = t]
  BY DEF Maps
<1>2. /\ g \in Passengers /\ s # Done /\ SlotCore(s) /\ OwnsOK(s, booked, cache.canceled)
      /\ Call(s) = "map" /\ s.todo[1].calls \in Seq(CallName) /\ 1 \in DOMAIN s.todo[1].calls
  BY <1>1, OnFacts DEF BenchIInv, SlotOK
<1>3. s \in SlotType /\ s.todo \in Seq(BlockType) /\ s.todo # << >>
  BY <1>2 DEF SlotCore, SlotType, TodoOK
<1>4. s.trip \in AnyTrip /\ 1 \in DOMAIN CarsOf[s.trip.train]
  BY <1>3, BenchAssumption DEF SlotType
<1> DEFINE free == Free(s.trip, CarsOf[s.trip.train][1])
<1>5. free \subseteq Nat /\ IsFiniteSet(free) /\ seats = FirstOf(free, 2)
  BY <1>4, FreePlaces DEF FilterTrainSeats
<1> HIDE DEF free
<1>6. seats \subseteq Nat /\ IsFiniteSet(seats) /\ Cardinality(seats) <= 2
  BY <1>5, FirstOfFew
<1>7. Cardinality(seats) < 2 => seats = free
  BY <1>5, FirstTwo
<1> HIDE DEF seats
<1>8. /\ x \in SlotType /\ x.trip = s.trip /\ x.id = s.id /\ x.kept = s.kept
      /\ x.todo = s.todo /\ x.asked = seats /\ x.won = s.won
  BY <1>3, <1>6 DEF SlotType
<1> HIDE DEF x
<1>9. SlotCore(x) /\ x # Done
  BY <1>2, <1>6, <1>8 DEF SlotCore, SlotType, Done, People
<1>10. 1 \in 1 .. Len(x.todo[1].calls) /\ \A k \in 1 .. 1 : x.todo[1].calls[k] \notin {"reserve", "vague"}
  BY <1>2, <1>8 DEF Call
<1>11. Owns(t) \subseteq Owns(s)
  BY <1>2, <1>8, <1>9, <1>10, KeptOK, PassingOwns
<1> HIDE DEF t
<1>12. g \in Goroutine /\ g # tester /\ slot'[g] = t /\ \A h \in Passengers : h # g => slot'[h] = slot[h]
  BY <1>1, <1>2, SomeGoroutine DEF BenchIInv, Owners
<1>13. Grows(g)
  BY <1>1, <1>11, <1>12 DEF Grows, Kept, New
<1>14. FewSold(booked') /\ SoldOnce(booked') /\ AddedAsBooked(booked', cache'.added)
  BY <1>1, <1>13, SoldSame
<1>15. t # Done => /\ t.pc = "calling" /\ SlotCore(t) /\ t.trip = x.trip /\ t.asked = x.asked /\ t.won = x.won
                   /\ t.todo = Rest(x.todo, 1)
  BY <1>9, <1>10, PastOK DEF t
<1>16. s.won = 0
  <2>1. Left(s.todo, {"map"})
    <3>1. 1 \in DOMAIN s.todo /\ Has(s.todo[1].calls, {"map"})
      BY <1>2, <1>3 DEF Has, Call
    <3> QED BY <3>1 DEF Left
  <2>2. ~ (s.won > 0)
    BY <1>2, <2>1 DEF Sold, WonOK
  <2> QED BY <1>2, <2>2, NotDone
<1>17. ToBeAdded(t, booked', cache'.added) /\ WonOK(t, booked', cache'.added, Owned(slot'))
  BY <1>8, <1>15, <1>16 DEF ToBeAdded, WonOK
<1>18. SpoilsOK(t, booked')
  <2> SUFFICES ASSUME t # Done, Call(t) = "wrongSeat", Cardinality(t.asked) < 2
               PROVE  Cardinality(PretestPlaces(booked')) < 2
    BY DEF SpoilsOK
  <2>1. t.trip = PretestTrip
    <3>1. TodoOK(t.todo, t.trip)
      BY <1>15 DEF SlotCore
    <3>2. t.todo \in Seq(BlockType) /\ t.todo # << >> /\ BlockOK(t.todo[1])
      <4>1. t.todo \in Seq(BlockType) /\ t.todo # << >>
        BY <3>1 DEF TodoOK
      <4>2. 1 \in DOMAIN t.todo
        BY <4>1
      <4> QED BY <3>1, <4>1, <4>2 DEF TodoOK
    <3>3. 1 \in DOMAIN t.todo /\ 1 \in DOMAIN t.todo[1].calls
      BY <3>2 DEF BlockOK, BlockType
    <3>4. Has(t.todo[1].calls, {"wrongSeat"})
      BY <3>3 DEF Has, Call
    <3> QED BY <3>1, <3>3, <3>4 DEF TodoOK
  <2>2. s.trip = PretestTrip /\ Cardinality(free) < 2
    BY <1>7, <1>8, <1>15, <2>1
  <2>3. PretestPlaces(booked) \subseteq free
    BY <2>2 DEF PretestPlaces, Free, free
  <2>4. /\ Cardinality(PretestPlaces(booked)) <= Cardinality(free)
        /\ Cardinality(PretestPlaces(booked)) \in Nat /\ Cardinality(free) \in Nat
    BY <1>5, <2>3, FS_Subset, FS_CardinalityType
  <2> QED BY <1>1, <2>2, <2>4
<1> QED BY <1>12, <1>13, <1>14, <1>17, <1>18, SoldStep

(* A booking of its own changes its status.                                *)
LEMMA StatusSold ==
  ASSUME BenchIInv, Sold, NEW g \in Passengers, slot[g] # Done, NEW i \in Owns(slot[g]),
         NEW st \in {"paid", "gone"}, booked[i].status # "gone",
         booked' = [booked EXCEPT ![i].status = st], cache' = cache,
         NEW x, x # Done, slot' = [slot EXCEPT ![g] = x], Owns(x) \subseteq Owns(slot[g]),
         x.todo = slot[g].todo, x.trip = slot[g].trip, x.asked = slot[g].asked, x.won = slot[g].won,
         Call(slot[g]) \notin ReserveCalls \cup {"wrongSeat"}
  PROVE  StaysSold(g)
<1> DEFINE s == slot[g]
<1>1. g \in Goroutine /\ g # tester /\ Mine(g) = Owns(s) /\ slot = [h \in Goroutine |-> slot[h]]
  BY SomeGoroutine DEF Mine, BenchIInv, Owners
<1>2. slot'[g] = x /\ \A h \in Passengers : h # g => slot'[h] = slot[h]
  BY <1>1, SomeGoroutine
<1>3. i \in DOMAIN booked /\ booked \in Seq(Booking)
  BY DEF BenchIInv, Owners, OwnsOK, Books
<1>4. /\ DOMAIN booked' = DOMAIN booked
      /\ booked'[i].status = st /\ booked'[i].trip = booked[i].trip /\ booked'[i].seats = booked[i].seats
      /\ \A k \in DOMAIN booked : k # i => booked'[k] = booked[k]
  BY <1>3, StatusOK
<1>5. Grows(g)
  <2>1. \A k \in DOMAIN booked : Kept(k)
    BY <1>4 DEF Kept
  <2> QED BY <1>1, <1>2, <1>4, <2>1 DEF Grows, New
<1>6. FewSold(booked') /\ SoldOnce(booked') /\ AddedAsBooked(booked', cache'.added)
  BY <1>4, <1>5, SoldSame
<1>7. WonOK(s, booked', cache'.added, Owned(slot'))
  BY <1>1, <1>5, WonGrows DEF Sold
<1>8. WonOK(x, booked', cache'.added, Owned(slot')) /\ SpoilsOK(x, booked') /\ Call(x) = Call(s)
  BY <1>7, SameNotes
<1>9. ToBeAdded(x, booked', cache'.added)
  BY <1>8 DEF ToBeAdded
<1> QED BY <1>1, <1>2, <1>5, <1>6, <1>8, <1>9, SoldStep

LEMMA CommitsSold == ASSUME BenchIInv, Sold, NEW g \in Goroutine, Commits(g)  PROVE StaysSold(g)
<1> DEFINE s == slot[g]
           x == [s EXCEPT !.pc = "served"]
<1>1. /\ On(g, "calling", {"commit"}) /\ cache' = cache
      /\ booked' = [booked EXCEPT ![s.id].status = "paid"]
      /\ slot' = [slot EXCEPT ![g].pc = "served"]
  BY DEF Commits
<1>2. /\ g \in Passengers /\ s # Done /\ SlotOK(s) /\ SlotCore(s) /\ OwnsOK(s, booked, cache.canceled)
      /\ Call(s) = "commit" /\ s.pc = "calling" /\ 1 \in DOMAIN s.todo[1].calls
  BY <1>1, OnFacts DEF BenchIInv, SlotOK
<1>3. s \in SlotType
  BY <1>2 DEF SlotCore
<1>4. ~ Covered(s.todo[1].calls)
  BY <1>2 DEF Covered, Call
<1>5. s.id # 0 /\ Holds(s) /\ Standing(s) = "held"
  BY <1>2, <1>4 DEF SlotOK, HasId, Holds, Standing
<1>6. s.id \in Owns(s) /\ booked[s.id].status = "held"
  BY <1>2, <1>5, HeldOK
<1>7. slot' = [slot EXCEPT ![g] = x]
  BY <1>1 DEF BenchIInv, Owners
<1>8. /\ x.pc = "served" /\ x.id = s.id /\ x.trip = s.trip /\ x.todo = s.todo
      /\ x.asked = s.asked /\ x.kept = s.kept /\ x.won = s.won /\ x # Done
  BY <1>3 DEF SlotType, Done
<1> HIDE DEF x
<1>9. Owns(x) \subseteq Owns(s)
  BY <1>2, <1>5, <1>6, <1>8 DEF Owns
<1>10. Call(s) \notin ReserveCalls \cup {"wrongSeat"}
  BY <1>2 DEF ReserveCalls
<1> QED BY <1>1, <1>2, <1>6, <1>7, <1>8, <1>9, <1>10, StatusSold

LEMMA CancelsSold == ASSUME BenchIInv, Sold, NEW g \in Goroutine, Cancels(g)  PROVE StaysSold(g)
<1> DEFINE s == slot[g]
           i == NextKept(g)
           x == [s EXCEPT !.pc = "served", !.id = i, !.kept = s.kept \ {i}]
<1>1. /\ On(g, "calling", {"cancel"}) /\ cache' = cache
      /\ s.kept # {} /\ booked' = [booked EXCEPT ![i].status = "gone"]
      /\ slot' = [slot EXCEPT ![g].pc = "served", ![g].id = i, ![g].kept = @ \ {i}]
  BY DEF Cancels
<1>2. /\ g \in Passengers /\ s # Done /\ SlotCore(s) /\ OwnsOK(s, booked, cache.canceled)
      /\ Call(s) = "cancel"
  BY <1>1, OnFacts DEF BenchIInv, SlotOK
<1>3. s \in SlotType /\ s.kept \subseteq Nat
  BY <1>2 DEF SlotCore, SlotType
<1>4. i \in s.kept
  BY <1>1, <1>3, LeastNumber DEF NextKept
<1> HIDE DEF i
<1>5. s.kept \subseteq Owns(s) /\ booked[i].status = "paid"
  BY <1>2, <1>4, KeptOK
<1>6. slot' = [slot EXCEPT ![g] = x]
  BY <1>1 DEF BenchIInv, Owners
<1>7. /\ x.id = i /\ x.trip = s.trip /\ x.todo = s.todo
      /\ x.asked = s.asked /\ x.kept = s.kept \ {i} /\ x.won = s.won /\ x.pc = "served" /\ x # Done
  BY <1>3 DEF SlotType, Done
<1> HIDE DEF x
<1>8. Owns(x) \subseteq Owns(s)
  BY <1>4, <1>5, <1>7 DEF Owns
<1>9. Call(s) \notin ReserveCalls \cup {"wrongSeat"}
  BY <1>2 DEF ReserveCalls
<1> QED BY <1>1, <1>2, <1>4, <1>5, <1>6, <1>7, <1>8, <1>9, StatusSold

LEMMA ReservesSold == ASSUME BenchIInv, Sold, NEW g \in Goroutine, Reserves(g)  PROVE StaysSold(g)
<1> DEFINE s == slot[g]
           given == GivenSeats(s.trip, Asked(g))
           b == [trip |-> s.trip, seats |-> given, status |-> "held"]
           id == IF given = {} THEN 0 ELSE Len(booked) + 1
           x == [s EXCEPT !.pc = "served", !.id = id]
<1>1. /\ On(g, "calling", ReserveCalls) /\ cache' = cache
      /\ booked' = IF given = {} THEN booked ELSE Append(booked, b)
      /\ (given # {} => b \in Booking) /\ IsFiniteSet(given) /\ Cardinality(given) <= People
      /\ given = {} \/ \E c \in DOMAIN CarsOf[s.trip.train] : given \subseteq Free(s.trip, CarsOf[s.trip.train][c])
      /\ Asked(g) # {} /\ given # {} => given = Asked(g)
      /\ slot' = [slot EXCEPT ![g] = x]
      /\ (given # {} => id = Len(booked) + 1 /\ id # 0) /\ (given = {} => id = 0)
      /\ x # Done /\ x.pc = "served" /\ x.id = id /\ x.trip = s.trip /\ x.todo = s.todo
      /\ x.asked = s.asked /\ x.kept = s.kept /\ x.won = s.won /\ Call(x) = Call(s)
      /\ Owns(x) = s.kept \cup (IF id # 0 THEN {id} ELSE {})
      /\ \A k \in DOMAIN booked : k \in DOMAIN booked' /\ booked'[k] = booked[k]
      /\ id # 0 => id \in DOMAIN booked' /\ id \notin DOMAIN booked /\ booked'[id] = b
  BY ReservesCases
<1>2. b.trip = s.trip /\ b.seats = given
  OBVIOUS
<1>3. Asked(g) = IF Call(s) = "vague" THEN {} ELSE s.asked
  <2>1. Head(s.todo) = s.todo[1] /\ s.todo[1].calls \in Seq(CallName) /\ 1 \in DOMAIN s.todo[1].calls
    BY <1>1, OnFacts DEF BenchIInv
  <2>2. Head(Head(s.todo).calls) = Call(s)
    BY <2>1 DEF Call
  <2> QED BY <2>2 DEF Asked
<1> HIDE DEF given, b, id, x
<1>4. /\ g \in Passengers /\ g # tester /\ s # Done /\ OwnsOK(s, booked, cache.canceled) /\ Mine(g) = Owns(s)
      /\ Call(s) \in ReserveCalls
  BY <1>1, OnFacts DEF BenchIInv
<1>5. s.kept \subseteq Owns(s)
  BY <1>4, KeptOK
<1>6. slot'[g] = x /\ \A h \in Passengers : h # g => slot'[h] = slot[h]
  BY <1>1, <1>4, SomeGoroutine DEF BenchIInv, Owners
<1>7. Grows(g)
  <2>1. Owns(slot'[g]) \subseteq Owns(s) \cup New
    BY <1>1, <1>5, <1>6 DEF New
  <2>2. \A i \in DOMAIN booked : Kept(i)
    BY <1>1 DEF Kept
  <2> QED BY <1>1, <1>4, <1>6, <2>1, <2>2 DEF Grows
<1>8. DOMAIN cache.added \subseteq DOMAIN booked
  BY DEF BenchIInv, Books
<1>9. FewSold(booked') /\ SoldOnce(booked')
  <2>1. CASE given = {}
    <3>1. booked' = booked
      BY <1>1, <2>1
    <3> QED BY <3>1 DEF Sold
  <2>2. CASE given # {}
    <3>1. booked' = Append(booked, b)
      BY <1>1, <2>2
    <3>2. PICK c \in DOMAIN CarsOf[s.trip.train] : given \subseteq Free(s.trip, CarsOf[s.trip.train][c])
      BY <1>1, <2>2
    <3> QED BY <1>1, <1>2, <2>2, <3>1, <3>2, SoldNew
  <2> QED BY <2>1, <2>2
<1>10. AddedAsBooked(booked', cache'.added)
  BY <1>1, <1>8 DEF Sold, AddedAsBooked
<1>11. WonOK(s, booked', cache'.added, Owned(slot')) /\ Call(s) # "wrongSeat"
  BY <1>4, <1>7, WonGrows DEF Sold, ReserveCalls
<1>12. WonOK(x, booked', cache'.added, Owned(slot')) /\ SpoilsOK(x, booked')
  BY <1>1, <1>4, <1>11, SameNotes
<1>13. ToBeAdded(x, booked', cache'.added)
  <2> SUFFICES ASSUME id # 0
               PROVE  /\ id \notin DOMAIN cache'.added
                      /\ Call(s) # "vague" /\ s.asked # {} => booked'[id].seats = s.asked
    BY <1>1 DEF ToBeAdded
  <2>1. given # {} /\ id \notin DOMAIN booked /\ booked'[id].seats = given
    BY <1>1, <1>2
  <2> QED BY <1>1, <1>3, <1>8, <2>1
<1> QED BY <1>4, <1>6, <1>7, <1>9, <1>10, <1>12, <1>13, SoldStep

(* A trip is in its own way.                                               *)
LEMMA InOwnWay ==
  ASSUME NEW trip \in Served, NEW a, NEW b, RequestOf(a, {}) = RequestOf(trip, {}), b = trip
  PROVE  InTheWay(a, b)
<1>1. trip.from \in Int /\ trip.to \in Int /\ trip.from # trip.to
  BY BenchAssumption DEF Served
<1>2. a.train = trip.train /\ a.day = trip.day /\ a.from = trip.from /\ a.to = trip.to
  BY DEF RequestOf
<1>3. Overlap(trip.from, trip.to, trip.from, trip.to)
  BY <1>1 DEF Overlap, Segments
<1> QED BY <1>2, <1>3 DEF InTheWay, SameRun

(* A racer that wins a second time asked vaguely.                          *)
LEMMA SecondWin ==
  ASSUME BenchIInv, Sold, NEW g \in Passengers, slot[g] # Done,
         NEW i \in DOMAIN booked, i \notin DOMAIN cache.added, booked[i].status # "gone", booked[i].trip = slot[g].trip,
         slot[g].trip \in AnyTrip, slot[g].asked # {} => booked[i].seats = slot[g].asked,
         slot[g].won > 0,
         NEW added, i \in DOMAIN added, added[i] = RequestOf(slot[g].trip, slot[g].asked),
         \A j \in DOMAIN cache.added : j \in DOMAIN added /\ added[j] = cache.added[j]
  PROVE  TwoAlike(added)
<1> DEFINE s == slot[g]
           req == RequestOf(s.trip, s.asked)
<1>1. PICK j \in DOMAIN cache.added : j \in DOMAIN booked /\ booked[j].status # "gone" /\ cache.added[j] = req
  BY DEF Sold, WonOK
<1>2. j \in DOMAIN added /\ added[j] = req /\ i # j
  BY <1>1
<1>3. req.seats = s.asked
  BY DEF RequestOf
<1>4. s.asked = {}
  <2> SUFFICES ASSUME s.asked # {}  PROVE FALSE
    OBVIOUS
  <2>1. PICK seats \in SUBSET booked[j].seats : req = RequestOf(booked[j].trip, seats)
    BY <1>1 DEF Sold, AddedAsBooked
  <2>2. seats = s.asked /\ RequestOf(booked[j].trip, {}) = RequestOf(s.trip, {})
    BY <2>1 DEF RequestOf
  <2>0. s.trip \in Served
    <3>1. booked \in Seq(Booking)
      BY DEF BenchIInv, Books
    <3>2. booked[i] \in Booking
      BY <3>1
    <3> QED BY <3>2 DEF Booking
  <2>3. InTheWay(booked[j].trip, booked[i].trip)
    BY <2>0, <2>2, InOwnWay
  <2>4. booked[j].seats \cap booked[i].seats = {}
    BY <1>1, <1>2, <2>3 DEF Sold, SoldOnce
  <2> QED BY <2>1, <2>2, <2>4
<1> QED BY <1>2, <1>3, <1>4 DEF TwoAlike

LEMMA AddsSold == ASSUME BenchIInv, Sold, NEW g \in Goroutine, Adds(g)  PROVE StaysSold(g)
<1> DEFINE s == slot[g]
           req == Request(g)
<1>1. /\ On(g, "approved", ReserveCalls) /\ booked' = booked /\ cache' = CacheAdd(cache, s.id, req)
      /\ slot' = [slot EXCEPT ![g] = IF On(g, "approved", {"racer"})
                                       THEN Past([s EXCEPT !.won = s.won + 1], 1)
                                       ELSE [s EXCEPT !.pc = "added"]]
  BY DEF Adds, ReserveCalls
<1>2. /\ g \in Passengers /\ s # Done /\ SlotOK(s) /\ SlotCore(s) /\ OwnsOK(s, booked, cache.canceled)
      /\ Mine(g) = Owns(s) /\ Call(s) \in ReserveCalls /\ s.pc = "approved"
      /\ Head(s.todo) = s.todo[1] /\ s.todo[1].calls \in Seq(CallName) /\ 1 \in DOMAIN s.todo[1].calls
  BY <1>1, OnFacts DEF BenchIInv, SlotOK
<1>3. s \in SlotType /\ s.trip \in AnyTrip /\ s.won \in Nat
  BY <1>2 DEF SlotCore, SlotType
<1>4. s.id # 0 /\ Holds(s) /\ Standing(s) = "held"
  BY <1>2 DEF SlotOK, HasId, Holds, Standing
<1>5. /\ s.id \in Owns(s) /\ s.id \notin s.kept /\ s.id \in DOMAIN booked
      /\ booked[s.id].trip = s.trip /\ booked[s.id].status = "held"
  BY <1>2, <1>4, HeldOK
<1>6. Head(Head(s.todo).calls) = Call(s) /\ (On(g, "approved", {"racer"}) <=> Call(s) = "racer")
  <2>1. Head(Head(s.todo).calls) = Call(s)
    BY <1>2 DEF Call
  <2> QED BY <1>1, <2>1 DEF On
<1>7. req = RequestOf(s.trip, IF Call(s) = "vague" THEN {} ELSE s.asked)
  BY <1>6 DEF Request, Asked
<1>8. s.id \notin DOMAIN cache.added /\ (Call(s) # "vague" /\ s.asked # {} => booked[s.id].seats = s.asked)
  BY <1>2, <1>4 DEF Sold, ToBeAdded
<1> HIDE DEF req
<1>9. /\ DOMAIN cache'.added = DOMAIN cache.added \cup {s.id} /\ cache'.added[s.id] = req
      /\ \A i \in DOMAIN cache.added : cache'.added[i] = cache.added[i]
  <2>1. booked' \in Seq(Booking) /\ (\A i \in DOMAIN booked : i \in DOMAIN booked' /\ booked'[i] = booked[i])
        /\ s.id \in DOMAIN booked'
    BY <1>1, <1>5 DEF BenchIInv, Books
  <2> QED BY <1>1, <1>8, <2>1, AddOK DEF BenchIInv
<1>10. FewSold(booked') /\ SoldOnce(booked')
  BY <1>1 DEF Sold
<1>11. AddedAsBooked(booked', cache'.added)
  <2>1. \E seats \in SUBSET booked[s.id].seats : req = RequestOf(s.trip, seats)
    BY <1>7, <1>8
  <2> QED BY <1>1, <1>5, <1>9, <2>1 DEF Sold, AddedAsBooked
<1>12. ASSUME NEW t, slot' = [slot EXCEPT ![g] = t], Owns(t) \subseteq Owns(s)
       PROVE  slot'[g] = t /\ (\A h \in Passengers : h # g => slot'[h] = slot[h]) /\ Grows(g)
  <2>1. slot'[g] = t /\ \A h \in Passengers : h # g => slot'[h] = slot[h]
    BY <1>12, SomeGoroutine DEF BenchIInv, Owners
  <2>2. \A i \in DOMAIN booked : Kept(i)
    BY <1>1 DEF Kept
  <2> QED BY <1>1, <1>2, <1>5, <1>9, <1>12, <2>1, <2>2 DEF Grows
<1>13. CASE Call(s) # "racer"
  <2> DEFINE x == [s EXCEPT !.pc = "added"]
  <2>1. slot' = [slot EXCEPT ![g] = x]
    BY <1>1, <1>6, <1>13
  <2>2. /\ x.pc = "added" /\ x.id = s.id /\ x.trip = s.trip /\ x.todo = s.todo
        /\ x.asked = s.asked /\ x.kept = s.kept /\ x.won = s.won /\ x # Done
    BY <1>3 DEF SlotType, Done
  <2> HIDE DEF x
  <2>3. Owns(x) \subseteq Owns(s)
    BY <1>2, <1>4, <2>2 DEF Owns
  <2>4. slot'[g] = x /\ (\A h \in Passengers : h # g => slot'[h] = slot[h]) /\ Grows(g)
    BY <1>12, <2>1, <2>3
  <2>5. WonOK(s, booked', cache'.added, Owned(slot')) /\ Call(s) # "wrongSeat"
    BY <1>2, <2>4, WonGrows DEF Sold, ReserveCalls
  <2>6. WonOK(x, booked', cache'.added, Owned(slot')) /\ SpoilsOK(x, booked')
    BY <1>2, <2>2, <2>5, SameNotes
  <2>7. ToBeAdded(x, booked', cache'.added)
    BY <2>2 DEF ToBeAdded
  <2> QED BY <1>2, <1>10, <1>11, <2>4, <2>6, <2>7, SoldStep
<1>14. CASE Call(s) = "racer"
  <2> DEFINE x == [s EXCEPT !.won = s.won + 1]
             t == Past(x, 1)
  <2>1. slot' = [slot EXCEPT ![g] = t]
    BY <1>1, <1>6, <1>14
  <2>2. /\ x \in SlotType /\ x.trip = s.trip /\ x.kept = s.kept /\ x.todo = s.todo /\ x.asked = s.asked
        /\ x.id = s.id /\ x.won = s.won + 1
    BY <1>3 DEF SlotType
  <2> HIDE DEF x
  <2>3. SlotCore(x) /\ x # Done
    BY <1>2, <2>2 DEF SlotCore, SlotType, Done
  <2>4. 1 \in 1 .. Len(x.todo[1].calls) /\ x.todo[1].calls[1] = "racer"
    BY <1>2, <1>14, <2>2 DEF Call
  <2>5. Owns(t) \subseteq Owns(s)
    BY <1>2, <2>2, <2>3, <2>4, KeptOK, PassingOwns
  <2>6. t # Done => /\ t.pc = "calling" /\ t.todo = Rest(s.todo, 1) /\ t.trip = s.trip /\ t.asked = s.asked
                    /\ t.won = s.won + 1 /\ t.kept = s.kept /\ Covered(t.todo[1].calls) /\ Call(t) # "wrongSeat"
    <3>1. t # Done => Covered(t.todo[1].calls)
      BY <2>3, <2>4, FirstReleases
    <3>2. t # Done => /\ t.pc = "calling" /\ t.todo = Rest(x.todo, 1) /\ t.trip = x.trip /\ t.asked = x.asked
                      /\ t.won = x.won /\ t.kept = x.kept /\ (x.todo[1].calls[1] # "map" => Call(t) # "wrongSeat")
      BY <2>3, <2>4, PastOK
    <3> HIDE DEF t
    <3> QED BY <2>2, <2>4, <3>1, <3>2
  <2> HIDE DEF t
  <2>7. slot'[g] = t /\ (\A h \in Passengers : h # g => slot'[h] = slot[h]) /\ Grows(g)
    BY <1>12, <2>1, <2>5
  <2>8. ToBeAdded(t, booked', cache'.added) /\ SpoilsOK(t, booked')
    BY <2>6 DEF ToBeAdded, SpoilsOK
  <2>9. WonOK(t, booked', cache'.added, Owned(slot'))
    <3> SUFFICES ASSUME t # Done
                 PROVE  /\ ~ Left(t.todo, {"map"})
                        /\ \E i \in DOMAIN cache'.added :
                             /\ i \in DOMAIN booked' /\ i \notin Owned(slot') /\ booked'[i].status # "gone"
                             /\ cache'.added[i] = RequestOf(t.trip, t.asked)
                        /\ t.won > 1 => TwoAlike(cache'.added)
      BY DEF WonOK
    <3>1. ~ Left(t.todo, {"map"})
      <4>1. s.todo \in Seq(BlockType) /\ s.todo # << >> /\ 1 \in DOMAIN s.todo
        <5>1. s.todo \in Seq(BlockType) /\ s.todo # << >>
          BY <1>2 DEF SlotCore, TodoOK
        <5> QED BY <5>1
      <4>2. Has(s.todo[1].calls, {"racer"})
        BY <1>2, <1>14 DEF Has, Call
      <4>3. \A n \in DOMAIN s.todo : 1 <= n /\ ~ Has(s.todo[n].calls, {"map"})
        <5>1. \A n \in DOMAIN s.todo : 1 <= n
          BY <4>1
        <5> QED BY <1>2, <4>1, <4>2, <5>1 DEF SlotCore, TodoOK
      <4>4. ~ Left(s.todo, {"map"})
        BY <4>3 DEF Left
      <4> QED BY <2>2, <2>4, <2>6, <4>1, <4>4, LeftOfRest
    <3>2. s.id \notin Owned(slot')
      <4>1. s.id \notin Owns(t)
        BY <1>5, <2>6 DEF Owns, Holds
      <4>2. \A h \in Passengers : h # g => s.id \notin Owns(slot[h])
        BY <1>2, <1>5 DEF BenchIInv, Owners
      <4> QED BY <2>7, <4>1, <4>2 DEF Owned
    <3>3. cache'.added[s.id] = RequestOf(s.trip, s.asked)
      BY <1>7, <1>9, <1>14
    <3>4. s.won + 1 > 1 => TwoAlike(cache'.added)
      <4>1. ASSUME s.won > 0  PROVE TwoAlike(cache'.added)
        <5>1. booked[s.id].status # "gone" /\ (s.asked # {} => booked[s.id].seats = s.asked)
          BY <1>5, <1>8, <1>14
        <5>2. /\ s.id \in DOMAIN cache'.added
              /\ \A j \in DOMAIN cache.added : j \in DOMAIN cache'.added /\ cache'.added[j] = cache.added[j]
          BY <1>9
        <5> QED BY <1>2, <1>3, <1>5, <1>8, <3>3, <4>1, <5>1, <5>2, SecondWin
      <4> QED BY <1>3, <4>1
    <3> QED BY <1>1, <1>5, <1>9, <2>6, <3>1, <3>2, <3>3, <3>4
  <2> QED BY <1>2, <1>10, <1>11, <2>7, <2>8, <2>9, SoldStep
<1> QED BY <1>13, <1>14

LEMMA PassengerSold == ASSUME BenchIInv, Sold, NEW g \in Goroutine, Passenger(g)  PROVE StaysSold(g)
BY AsksSold, AsksRegardlessSold, MapsSold, ReservesSold, HearsReserveSold, AddsSold, AssertsReserveSold, CommitsSold, HearsCommitSold,
   CancelsSold, HearsCancelSold, NothingToCancelSold, CountsSold, AsksForWrongSeatSold, LosesAnswerSold
   DEF Passenger

LEMMA TesterReservesSold == ASSUME BenchIInv, Sold, TesterReserves  PROVE StaysSold(tester)
<1> DEFINE s == slot[tester]
           given == GivenSeats(TesterTrip, s.asked)
           b == [trip |-> TesterTrip, seats |-> given, status |-> "held"]
           req == RequestOf(TesterTrip, s.asked)
           new == Len(booked) + 1
<1>1. /\ IsFiniteSet(s.asked) /\ Cardinality(s.asked) <= People /\ b \in Booking
      /\ booked' = IF given = {} THEN booked ELSE Append(booked, b)
      /\ \E x : slot' = [slot EXCEPT ![tester] = x]
      /\ (given # {} /\ cache' = CacheAdd(cache, new, req)) \/ cache' = cache
  BY TesterReservesCases DEF BenchIInv
<1>2. /\ given = {} \/ \E c \in DOMAIN CarsOf[TesterTrip.train] :
                         given \subseteq Free(TesterTrip, CarsOf[TesterTrip.train][c])
      /\ IsFiniteSet(given) /\ Cardinality(given) <= People
      /\ s.asked # {} /\ given # {} => given = s.asked
  BY <1>1, GivenOK DEF AnyTrip
<1>3. b.trip = TesterTrip /\ b.seats = given
  OBVIOUS
<1>4. tester \in Goroutine /\ tester \notin Passengers /\ Mine(tester) = {}
  BY SomeGoroutine DEF Mine
<1>5. \A h \in Passengers : slot'[h] = slot[h]
  BY <1>1, <1>4, SomeGoroutine DEF BenchIInv, Owners
<1> HIDE DEF given, b, req
<1>6. booked \in Seq(Booking) /\ DOMAIN cache.added \subseteq DOMAIN booked
  BY DEF BenchIInv, Books
<1>7. /\ \A k \in DOMAIN booked : k \in DOMAIN booked' /\ booked'[k] = booked[k]
      /\ given # {} => new \in DOMAIN booked' /\ new \notin DOMAIN booked /\ booked'[new] = b
      /\ booked' \in Seq(Booking)
  <2>1. CASE given = {}
    BY <1>1, <1>6, <2>1
  <2>2. CASE given # {}
    BY <1>1, <1>6, <2>2, AppendOK
  <2> QED BY <2>1, <2>2
<1>8. FewSold(booked') /\ SoldOnce(booked')
  <2>1. CASE given = {}
    <3>1. booked' = booked
      BY <1>1, <2>1
    <3> QED BY <3>1 DEF Sold
  <2>2. CASE given # {}
    <3>1. booked' = Append(booked, b)
      BY <1>1, <2>2
    <3>2. PICK c \in DOMAIN CarsOf[TesterTrip.train] : given \subseteq Free(TesterTrip, CarsOf[TesterTrip.train][c])
      BY <1>2, <2>2
    <3> QED BY <1>1, <1>2, <1>3, <3>1, <3>2, SoldNew
  <2> QED BY <2>1, <2>2
<1> HIDE DEF new
<1>9. \/ cache' = cache
      \/ /\ given # {} /\ DOMAIN cache'.added = DOMAIN cache.added \cup {new} /\ cache'.added[new] = req
         /\ \A i \in DOMAIN cache.added : cache'.added[i] = cache.added[i]
  <2>1. CASE given # {} /\ cache' = CacheAdd(cache, new, req)
    <3>1. new \notin DOMAIN cache.added
      BY <1>6, <1>7, <2>1
    <3> QED BY <1>7, <2>1, <3>1, AddOK DEF BenchIInv
  <2> QED BY <1>1, <2>1
<1>10. AddedAsBooked(booked', cache'.added)
  <2>1. given # {} => \E seats \in SUBSET given : req = RequestOf(TesterTrip, seats)
    BY <1>2 DEF req
  <2>2. given # {} => booked'[new].seats = given /\ booked'[new].trip = TesterTrip
    BY <1>3, <1>7
  <2>3. AddedAsBooked(booked', cache.added)
    BY <1>6, <1>7 DEF Sold, AddedAsBooked
  <2> QED BY <1>9, <2>1, <2>2, <2>3 DEF AddedAsBooked
<1>11. Grows(tester)
  <2>1. \A i \in DOMAIN booked : Kept(i)
    BY <1>7 DEF Kept
  <2> QED BY <1>4, <1>5, <1>7, <1>9, <2>1 DEF Grows, New
<1> QED BY <1>4, <1>8, <1>10, <1>11, SoldStep

LEMMA TesterSold == ASSUME BenchIInv, Sold, Tester  PROVE StaysSold(tester)
<1>1. ASSUME TesterStarts \/ TesterLooks \/ TesterMaps \/ TesterLosesAnswer  PROVE StaysSold(tester)
  <2>1. UNCHANGED <<cache, booked>> /\ \E x : slot' = [slot EXCEPT ![tester] = x]
    BY <1>1 DEF TesterStarts, TesterLooks, TesterMaps, TesterLosesAnswer
  <2>2. \A h \in Passengers : slot'[h] = slot[h]
    BY <2>1, SomeGoroutine DEF BenchIInv, Owners
  <2> QED BY <2>1, <2>2, SomeGoroutine, StandingSold
<1> QED BY <1>1, TesterReservesSold DEF Tester

LEMMA StartScenarioSold == ASSUME BenchIInv, Sold, StartScenario  PROVE \E g \in Goroutine : StaysSold(g)
<1>1. /\ \E g \in Load : slot[g] = Done
      /\ UNCHANGED <<cache, booked>>
  BY DEF StartScenario
<1>2. PICK n \in DOMAIN LoadPlan : \E trip \in TripsOf(LoadPlan[n]) :
        slot' = [slot EXCEPT ![FreeSlot] = Start(LoadPlan[n], trip)]
  BY DEF StartScenario
<1>3. PICK trip \in TripsOf(LoadPlan[n]) : slot' = [slot EXCEPT ![FreeSlot] = Start(LoadPlan[n], trip)]
  BY <1>2
<1>4. FreeSlot \in Passengers
  BY <1>1 DEF FreeSlot, Passengers
<1> QED BY <1>1, <1>3, <1>4, SomeGoroutine, PlannedOK, BeginSold

(* The process exits and leaves the books as they are.                     *)
Exit == slot' = NoGoroutines /\ UNCHANGED <<booked, cache>>

LEMMA ExitSold == ASSUME Sold, Exit  PROVE Sold' /\ Owned(slot') = {}
<1>1. \A g \in Passengers : slot'[g] = Done /\ Owns(slot'[g]) = {}
  BY NobodyLeft DEF Exit
<1> QED BY <1>1 DEF Exit, Sold, FewSold, SoldOnce, AddedAsBooked, ToBeAdded, WonOK, SpoilsOK, Owned

LEMMA MainSold == ASSUME BenchIInv, Sold, Main  PROVE Exit \/ \E g \in Goroutine : StaysSold(g)
<1>0. /\ driver \in Passengers /\ PretestTrip \in AnyTrip /\ VagueTrip \in AnyTrip
      /\ ScenarioOK(<<PretestNormal>>, PretestTrip) /\ ScenarioOK(<<PretestReserveVague>>, VagueTrip)
  BY SimpleScenarios DEF Passengers, AnyTrip
<1>1. CASE slot' = slot /\ UNCHANGED <<cache, booked>>
  BY <1>1, SomeGoroutine, StandingSold
<1>2. CASE PretestRefusals
  <2>1. /\ UNCHANGED <<cache, booked>>
        /\ slot' = slot \/ slot' = [slot EXCEPT ![driver] = Start(<<PretestNormal>>, PretestTrip)]
    BY <1>2 DEF PretestRefusals, Stage
  <2> QED BY <1>0, <1>1, <2>1, SomeGoroutine, BeginSold
<1>3. CASE PretestGoesOn
  <2>1. /\ UNCHANGED <<cache, booked>>
        /\ slot' = slot \/ slot' = [slot EXCEPT ![driver] = Start(<<PretestReserveVague>>, VagueTrip)]
    BY <1>3, PretestGoesOnCases
  <2> QED BY <1>0, <1>1, <2>1, SomeGoroutine, BeginSold
<1>4. CASE \/ InitializePayment \/ InitializeApplication \/ PretestReads \/ NewTester
           \/ TimeIsUp \/ LoadEnds \/ FinalChecks
  <2>1. UNCHANGED <<booked, cache>> /\ slot' \in {slot, NoGoroutines}
    BY <1>4 DEF InitializePayment, InitializeApplication, PretestReads, NewTester, Stage, TimeIsUp, LoadEnds,
                FinalChecks
  <2> QED BY <1>1, <2>1 DEF Exit
<1> QED BY <1>2, <1>3, <1>4 DEF Main, Prepares

LEMMA InitSold == ASSUME BenchInit  PROVE Sold
<1>1. booked = << >> /\ DOMAIN booked = {} /\ DOMAIN cache.added = {}
  BY DEF BenchInit, NoCache
<1>2. \A g \in Passengers : slot[g] = Done
  BY SomeGoroutine DEF BenchInit, NoGoroutines
<1> QED BY <1>1, <1>2 DEF Sold, FewSold, SoldOnce, AddedAsBooked, ToBeAdded, WonOK, SpoilsOK

LEMMA BenchNextSold ==
  ASSUME BenchIInv, Sold, BenchNext \/ UNCHANGED benchVars
  PROVE  Sold'
<1>1. CASE UNCHANGED benchVars
  BY <1>1, SomeGoroutine, StandingSold DEF benchVars, StaysSold
<1>2. CASE BenchNext
  BY <1>2, MainSold, ExitSold, TesterSold, PassengerSold, StartScenarioSold, SomeGoroutine DEF BenchNext, StaysSold
<1> QED BY <1>1, <1>2

-----------------------------------------------------------------------------
(* Why a good application is blamed.                                       *)

(* What the passengers' notes and the cache's marks say of each other:     *)
(* whatever is to be committed has been added, and whatever is still to be *)
(* canceled is committed.                                                  *)
ToBeCommitted(s) == \/ s.pc = "added"
                    \/ s.pc = "calling" /\ ~ Covered(s.todo[1].calls)
                    \/ s.pc = "served" /\ Call(s) = "commit"
Noted(s, marks) ==
  s # Done => /\ ToBeCommitted(s) => s.id \in DOMAIN marks.added
              /\ s.kept \subseteq marks.committed
              /\ s.pc = "served" /\ Call(s) = "cancel" => s.id \in marks.committed
Marked == \A g \in Passengers : Noted(slot[g], cache)

(* A goroutine marks only reservations of its own.                         *)
MarksOwn(g) == \A i : i \notin Mine(g) => /\ i \in cache'.committed <=> i \in cache.committed
                                          /\ i \in cache'.canceled <=> i \in cache.canceled
Marks(g) == MarksOwn(g) /\ (g \in Passengers => Noted(slot'[g], cache'))

LEMMA MarkedStep == ASSUME BenchIInv, Marked, NEW g \in Goroutine, Grows(g), Marks(g)  PROVE Marked'
<1> SUFFICES ASSUME NEW h \in Passengers  PROVE Noted(slot'[h], cache')
  BY DEF Marked
<1>1. CASE h = g
  BY <1>1 DEF Marks
<1>2. CASE h # g
  <2> DEFINE s == slot[h]
  <2>1. slot'[h] = s /\ Noted(s, cache) /\ (s = Done \/ SlotOK(s)) /\ DOMAIN cache.added \subseteq DOMAIN cache'.added
    BY <1>2 DEF Grows, Marked, BenchIInv, Owners
  <2>2. Owns(s) \cap Mine(g) = {}
    BY <1>2, SomeGoroutine DEF BenchIInv, Owners, Mine
  <2> HIDE DEF s
  <2>3. ASSUME s # Done  PROVE s.kept \subseteq cache'.committed
    <3>1. s.kept \subseteq Owns(s)
      BY <2>3 DEF Owns
    <3> QED BY <2>1, <2>2, <2>3, <3>1 DEF Noted, Marks, MarksOwn
  <2>4. ASSUME s # Done, s.pc = "served", Call(s) = "cancel"  PROVE s.id \in cache'.committed
    <3>1. Holds(s)
      BY <2>1, <2>4 DEF SlotOK, HasId, Holds, ReserveCalls
    <3>2. s.id \in Owns(s)
      BY <2>4, <3>1 DEF Owns
    <3> QED BY <2>1, <2>2, <2>4, <3>2 DEF Noted, Marks, MarksOwn
  <2> QED BY <2>1, <2>3, <2>4 DEF Noted
<1> QED BY <1>1, <1>2

(* A passenger behind some of its calls.                                   *)
LEMMA PastNoted ==
  ASSUME NEW x, SlotCore(x), NEW n \in 1 .. Len(x.todo[1].calls), NEW marks, x.kept \subseteq marks.committed,
         Past(x, n) # Done /\ ~ Covered(Past(x, n).todo[1].calls) => x.id \in DOMAIN marks.added
  PROVE  Noted(Past(x, n), marks)
<1> DEFINE t == Past(x, n)
<1>1. CASE t = Done
  BY <1>1 DEF Noted
<1>2. CASE t # Done
  <2>1. t.pc = "calling" /\ t.id = x.id /\ t.kept = x.kept
    BY <1>2, PastOK
  <2> HIDE DEF t
  <2>2. ToBeCommitted(t) => ~ Covered(t.todo[1].calls)
    BY <2>1 DEF ToBeCommitted
  <2> QED BY <1>2, <2>1, <2>2 DEF Noted, t
<1> QED BY <1>1, <1>2

LEMMA QuietNoted ==
  ASSUME NEW s, s # Done, s.pc = "calling", NEW marks, Noted(s, marks),
         NEW x, SlotCore(x), x.todo = s.todo, x.id = s.id, x.kept = s.kept, NEW n \in 1 .. Len(x.todo[1].calls),
         \A k \in 1 .. n : x.todo[1].calls[k] \notin {"reserve", "vague"}
  PROVE  Noted(Past(x, n), marks)
<1>1. ASSUME Past(x, n) # Done, ~ Covered(Past(x, n).todo[1].calls)  PROVE x.id \in DOMAIN marks.added
  <2>1. ~ Covered(s.todo[1].calls)
    BY <1>1, PastOK
  <2> QED BY <2>1 DEF Noted, ToBeCommitted
<1> QED BY <1>1, PastNoted DEF Noted

LEMMA ReleasedNoted ==
  ASSUME NEW x, SlotCore(x), NEW n \in 1 .. Len(x.todo[1].calls), NEW marks, x.kept \subseteq marks.committed,
         \/ n = Len(x.todo[1].calls)
         \/ \E k \in 1 .. n : x.todo[1].calls[k] \in {"commit", "cancel", "racer"}
  PROVE  Noted(Past(x, n), marks)
<1>1. Past(x, n) # Done => Covered(Past(x, n).todo[1].calls)
  BY PastOK DEF NotBegun
<1> QED BY <1>1, PastNoted

(* Steps that leave the marks as they are.                                 *)
SameMarks == cache'.committed = cache.committed /\ cache'.canceled = cache.canceled

LEMMA SameMarksOwn == ASSUME SameMarks, NEW g  PROVE MarksOwn(g)
BY DEF SameMarks, MarksOwn

LEMMA MarksInPlace ==
  ASSUME BenchIInv, NEW g \in Passengers, NEW x, slot' = [slot EXCEPT ![g] = x], Noted(x, cache'), MarksOwn(g)
  PROVE  Marks(g)
<1>1. slot'[g] = x
  BY SomeGoroutine DEF BenchIInv, Owners
<1> QED BY <1>1 DEF Marks

LEMMA FailsMarks ==
  ASSUME BenchIInv, Marked, NEW g \in Goroutine, NEW pc, pc # "done", NEW names, On(g, pc, names),
         NEW kind \in Critical \cup {"timeout", "application"}, Fails(g, kind), cache' = cache
  PROVE  Marks(g)
<1>1. g \in Passengers /\ slot[g] # Done /\ SlotCore(slot[g])
  BY OnFacts DEF BenchIInv, SlotOK
<1>2. /\ \/ slot' = [slot EXCEPT ![g] = Done]
         \/ slot' = [slot EXCEPT ![g] = Past(slot[g], Len(slot[g].todo[1].calls))]
      /\ Len(slot[g].todo[1].calls) \in 1 .. Len(slot[g].todo[1].calls)
  BY <1>1, FailsOK DEF BenchIInv
<1>3. slot[g].kept \subseteq cache'.committed /\ MarksOwn(g)
  BY <1>1, SameMarksOwn DEF Marked, Noted, SameMarks
<1>4. Noted(Done, cache')
  BY DEF Noted
<1>5. Noted(Past(slot[g], Len(slot[g].todo[1].calls)), cache')
  BY <1>1, <1>2, <1>3, ReleasedNoted
<1> QED BY <1>1, <1>2, <1>3, <1>4, <1>5, MarksInPlace

(* One call that went well and reserved nothing, or was not answered.      *)
LEMMA Next1Marks ==
  ASSUME BenchIInv, Marked, NEW g \in Goroutine, NEW pc, pc # "done", NEW names, On(g, pc, names),
         Next1(g), cache' = cache,
         \/ pc = "calling" /\ names \cap {"reserve", "vague"} = {}
         \/ names \subseteq {"commit", "cancel", "racer"}
         \/ slot[g].id \in DOMAIN cache.added
  PROVE  Marks(g)
<1> DEFINE s == slot[g]
<1>1. /\ g \in Passengers /\ s # Done /\ SlotCore(s) /\ s.pc = pc /\ Call(s) \in names
      /\ s.todo[1].calls \in Seq(CallName) /\ 1 \in DOMAIN s.todo[1].calls
  BY OnFacts DEF BenchIInv, SlotOK
<1>2. /\ 1 \in 1 .. Len(s.todo[1].calls) /\ s.todo[1].calls[1] \in names
      /\ slot' = [slot EXCEPT ![g] = Past(s, 1)] /\ Noted(s, cache) /\ s.kept \subseteq cache.committed /\ MarksOwn(g)
  BY <1>1, SameMarksOwn DEF Call, Next1, Marked, Noted, SameMarks
<1> HIDE DEF s
<1>3. Noted(Past(s, 1), cache)
  <2>1. CASE pc = "calling" /\ names \cap {"reserve", "vague"} = {}
    <3>1. \A k \in 1 .. 1 : s.todo[1].calls[k] \notin {"reserve", "vague"}
      BY <1>2, <2>1
    <3> QED BY <1>1, <1>2, <2>1, <3>1, QuietNoted
  <2>2. CASE names \subseteq {"commit", "cancel", "racer"}
    <3>a. s.todo[1].calls[1] \in names
      BY <1>2
    <3>b. s.todo[1].calls[1] \in {"commit", "cancel", "racer"}
      BY <2>2, <3>a
    <3>0. 1 \in 1 .. 1 /\ s.todo[1].calls[1] \in {"commit", "cancel", "racer"}
      BY <3>b
    <3>1. \E k \in 1 .. 1 : s.todo[1].calls[k] \in {"commit", "cancel", "racer"}
      BY <3>0
    <3> QED BY <1>1, <1>2, <3>1, ReleasedNoted
  <2>3. CASE slot[g].id \in DOMAIN cache.added
    BY <1>1, <1>2, <2>3, PastNoted DEF s
  <2> QED BY <2>1, <2>2, <2>3
<1> QED BY <1>1, <1>2, <1>3, MarksInPlace

(* A passenger at another place of the same call.                          *)
LEMMA InPlaceMarks ==
  ASSUME BenchIInv, NEW g \in Passengers, NEW x, slot' = [slot EXCEPT ![g] = x], SameMarks,
         x.kept \subseteq cache.committed,
         ToBeCommitted(x) => x.id \in DOMAIN cache'.added,
         x.pc = "served" /\ Call(x) = "cancel" => x.id \in cache.committed
  PROVE  Marks(g)
<1>1. Noted(x, cache')
  BY DEF Noted, SameMarks
<1> QED BY <1>1, SameMarksOwn, MarksInPlace

LEMMA AsksMarks == ASSUME BenchIInv, Marked, NEW g \in Goroutine, Asks(g)  PROVE Marks(g)
<1>1. On(g, "calling", Plain) /\ cache' = cache
  BY DEF Asks
<1>2. g \in Passengers /\ slot[g] # Done /\ SlotCore(slot[g]) /\ slot[g].pc = "calling"
  BY <1>1, OnFacts DEF BenchIInv, SlotOK
<1>3. PICK n \in 1 .. Len(slot[g].todo[1].calls) :
         /\ slot' = [slot EXCEPT ![g] = Past(slot[g], n)]
         /\ \A i \in 1 .. n : slot[g].todo[1].calls[i] \in Plain
  BY AsksOK DEF BenchIInv
<1>4. \A i \in 1 .. n : slot[g].todo[1].calls[i] \notin {"reserve", "vague"}
  BY <1>3 DEF Plain, AccountCalls, TimetableCalls, ViewCalls
<1>5. Noted(slot[g], cache)
  BY <1>2 DEF Marked
<1>6. Noted(Past(slot[g], n), cache)
  BY <1>2, <1>4, <1>5, QuietNoted
<1>7. MarksOwn(g)
  BY <1>1, SameMarksOwn DEF SameMarks
<1> QED BY <1>1, <1>2, <1>3, <1>6, <1>7, MarksInPlace

LEMMA MapsMarks == ASSUME BenchIInv, Marked, NEW g \in Goroutine, Maps(g)  PROVE Marks(g)
<1> DEFINE s == slot[g]
           x == [s EXCEPT !.asked = FilterTrainSeats(s.trip)]
<1>1. On(g, "calling", {"map"}) /\ cache' = cache /\ slot' = [slot EXCEPT ![g] = Past(x, 1)]
  BY DEF Maps
<1>2. /\ g \in Passengers /\ s # Done /\ SlotCore(s) /\ s.pc = "calling" /\ Call(s) = "map"
      /\ s.todo[1].calls \in Seq(CallName) /\ 1 \in DOMAIN s.todo[1].calls
  BY <1>1, OnFacts DEF BenchIInv, SlotOK
<1>3. s \in SlotType
  BY <1>2 DEF SlotCore
<1> DEFINE seats == FilterTrainSeats(s.trip)
<1>4. seats \subseteq Nat /\ IsFiniteSet(seats) /\ Cardinality(seats) <= 2
  <2>1. s.trip \in AnyTrip /\ 1 \in DOMAIN CarsOf[s.trip.train]
    BY <1>3, BenchAssumption DEF SlotType
  <2> QED BY <2>1, FreePlaces, FirstOfFew DEF FilterTrainSeats
<1> HIDE DEF seats
<1>5. x \in SlotType /\ x.todo = s.todo /\ x.trip = s.trip /\ x.id = s.id /\ x.kept = s.kept /\ x.asked = seats
  BY <1>3, <1>4 DEF SlotType, seats
<1> HIDE DEF x
<1>6. SlotCore(x)
  BY <1>2, <1>4, <1>5 DEF SlotCore, People
<1>7. 1 \in 1 .. Len(x.todo[1].calls) /\ \A k \in 1 .. 1 : x.todo[1].calls[k] \notin {"reserve", "vague"}
  BY <1>2, <1>5 DEF Call
<1>8. Noted(s, cache) /\ MarksOwn(g)
  BY <1>1, <1>2, SameMarksOwn DEF Marked, SameMarks
<1>9. Noted(Past(x, 1), cache)
  BY <1>2, <1>5, <1>6, <1>7, <1>8, QuietNoted
<1> QED BY <1>1, <1>2, <1>8, <1>9, MarksInPlace

LEMMA ReservesMarks == ASSUME BenchIInv, Marked, NEW g \in Goroutine, Reserves(g)  PROVE Marks(g)
<1> DEFINE s == slot[g]
           given == GivenSeats(s.trip, Asked(g))
           id == IF given = {} THEN 0 ELSE Len(booked) + 1
           x == [s EXCEPT !.pc = "served", !.id = id]
<1>1. /\ On(g, "calling", ReserveCalls) /\ cache' = cache /\ slot' = [slot EXCEPT ![g] = x]
      /\ x.pc = "served" /\ x.kept = s.kept /\ Call(x) = Call(s)
  BY ReservesCases
<1> HIDE DEF id, x
<1>2. g \in Passengers /\ s # Done /\ Call(s) \in ReserveCalls
  BY <1>1, OnFacts DEF BenchIInv
<1>3. ~ ToBeCommitted(x) /\ Call(x) # "cancel"
  BY <1>1, <1>2 DEF ToBeCommitted, ReserveCalls
<1>4. x.kept \subseteq cache.committed
  BY <1>1, <1>2 DEF Marked, Noted
<1> QED BY <1>1, <1>2, <1>3, <1>4, InPlaceMarks DEF SameMarks

LEMMA HearsReserveMarks == ASSUME BenchIInv, Marked, NEW g \in Goroutine, HearsReserve(g)  PROVE Marks(g)
<1> DEFINE s == slot[g]
           x == [s EXCEPT !.pc = "approved"]
<1>1. On(g, "served", ReserveCalls) /\ cache' = cache
  BY HearsReserveCases
<1>2. /\ g \in Passengers /\ s # Done /\ SlotCore(s)
  BY <1>1, OnFacts DEF BenchIInv, SlotOK
<1>3. CASE On(g, "served", {"racer"}) /\ Next1(g)
  BY <1>1, <1>3, Next1Marks
<1>4. ASSUME NEW kind \in {"application", "taken seat sold"}, Fails(g, kind)  PROVE Marks(g)
  <2>1. kind \in Critical \cup {"timeout", "application"}
    BY DEF Critical
  <2> QED BY <1>1, <1>4, <2>1, FailsMarks
<1>5. CASE slot' = [slot EXCEPT ![g].pc = "approved"]
  <2>1. slot' = [slot EXCEPT ![g] = x]
    BY <1>5 DEF BenchIInv, Owners
  <2>2. s \in SlotType
    BY <1>2 DEF SlotCore
  <2>3. x.pc = "approved" /\ x.kept = s.kept
    BY <2>2 DEF SlotType
  <2> HIDE DEF x
  <2>4. ~ ToBeCommitted(x) /\ x.kept \subseteq cache.committed
    BY <1>2, <2>3 DEF ToBeCommitted, Marked, Noted
  <2> QED BY <1>1, <1>2, <2>1, <2>3, <2>4, InPlaceMarks DEF SameMarks
<1> QED BY <1>3, <1>4, <1>5, HearsReserveCases

LEMMA AddsMarks == ASSUME BenchIInv, Marked, NEW g \in Goroutine, Adds(g)  PROVE Marks(g)
<1> DEFINE s == slot[g]
           t == [s EXCEPT !.won = s.won + 1]
           x == [s EXCEPT !.pc = "added"]
<1>1. /\ On(g, "approved", ReserveCalls) /\ cache' = CacheAdd(cache, s.id, Request(g))
      /\ slot' = [slot EXCEPT ![g] = IF On(g, "approved", {"racer"}) THEN Past(t, 1) ELSE x]
  BY DEF Adds, ReserveCalls
<1>2. /\ g \in Passengers /\ s # Done /\ SlotCore(s) /\ s.pc = "approved"
      /\ Head(s.todo) = s.todo[1] /\ s.todo[1].calls \in Seq(CallName) /\ 1 \in DOMAIN s.todo[1].calls
  BY <1>1, OnFacts DEF BenchIInv, SlotOK
<1>3. s \in SlotType /\ s.kept \subseteq cache.committed
  BY <1>2 DEF SlotCore, Marked, Noted
<1>4. SameMarks /\ s.id \in DOMAIN cache'.added
  BY <1>1 DEF SameMarks, CacheAdd, BenchIInv, Books
<1>5. CASE On(g, "approved", {"racer"})
  <2>1. t \in SlotType /\ t.trip = s.trip /\ t.kept = s.kept /\ t.todo = s.todo /\ t.asked = s.asked
    BY <1>3 DEF SlotType
  <2>2. slot' = [slot EXCEPT ![g] = Past(t, 1)]
    BY <1>1, <1>5
  <2> HIDE DEF t
  <2>3. SlotCore(t)
    BY <1>2, <2>1 DEF SlotCore
  <2>4. 1 \in 1 .. Len(t.todo[1].calls) /\ \E k \in 1 .. 1 : t.todo[1].calls[k] \in {"commit", "cancel", "racer"}
    BY <1>2, <1>5, <2>1 DEF On
  <2>5. Noted(Past(t, 1), cache')
    BY <1>3, <1>4, <2>1, <2>3, <2>4, ReleasedNoted DEF SameMarks
  <2> QED BY <1>2, <1>4, <2>2, <2>5, SameMarksOwn, MarksInPlace
<1>6. CASE ~ On(g, "approved", {"racer"})
  <2>1. slot' = [slot EXCEPT ![g] = x]
    BY <1>1, <1>6
  <2>2. x.pc = "added" /\ x.kept = s.kept /\ x.id = s.id
    BY <1>3 DEF SlotType
  <2> HIDE DEF x
  <2> QED BY <1>2, <1>3, <1>4, <2>1, <2>2, InPlaceMarks
<1> QED BY <1>5, <1>6

LEMMA AssertsReserveMarks == ASSUME BenchIInv, Marked, NEW g \in Goroutine, AssertsReserve(g)  PROVE Marks(g)
<1>1. On(g, "added", {"reserve", "vague"}) /\ cache' = cache /\ (Next1(g) \/ Fails(g, "too few seats"))
  BY DEF AssertsReserve
<1>2. "too few seats" \in Critical
  BY DEF Critical
<1>3. slot[g].id \in DOMAIN cache.added
  <2>1. g \in Passengers /\ slot[g] # Done /\ slot[g].pc = "added"
    BY <1>1, OnFacts DEF BenchIInv
  <2> QED BY <2>1 DEF Marked, Noted, ToBeCommitted
<1> QED BY <1>1, <1>2, <1>3, Next1Marks, FailsMarks

LEMMA CommitsMarks == ASSUME BenchIInv, Marked, NEW g \in Goroutine, Commits(g)  PROVE Marks(g)
<1> DEFINE s == slot[g]
           x == [s EXCEPT !.pc = "served"]
<1>1. On(g, "calling", {"commit"}) /\ cache' = cache /\ slot' = [slot EXCEPT ![g].pc = "served"]
  BY DEF Commits
<1>2. g \in Passengers /\ s # Done /\ SlotCore(s) /\ Call(s) = "commit" /\ s.pc = "calling"
  BY <1>1, OnFacts DEF BenchIInv, SlotOK
<1>3. s \in SlotType
  BY <1>2 DEF SlotCore
<1>4. ~ Covered(s.todo[1].calls)
  <2>1. 1 \in DOMAIN s.todo[1].calls
    BY <1>1, OnFacts DEF BenchIInv
  <2> QED BY <1>2, <2>1 DEF Covered, Call
<1>5. s.id \in DOMAIN cache.added /\ s.kept \subseteq cache.committed
  BY <1>2, <1>4 DEF Marked, Noted, ToBeCommitted
<1>6. slot' = [slot EXCEPT ![g] = x]
  BY <1>1 DEF BenchIInv, Owners
<1>7. x.id = s.id /\ x.kept = s.kept /\ x.todo = s.todo
  BY <1>3 DEF SlotType
<1> HIDE DEF x
<1>8. Call(x) = "commit"
  BY <1>2, <1>7 DEF Call
<1> QED BY <1>1, <1>2, <1>5, <1>6, <1>7, <1>8, InPlaceMarks DEF SameMarks

LEMMA HearsCommitMarks == ASSUME BenchIInv, Marked, NEW g \in Goroutine, HearsCommit(g)  PROVE Marks(g)
<1> DEFINE s == slot[g]
           t == [s EXCEPT !.kept = s.kept \cup {s.id}]
<1>1. /\ On(g, "served", {"commit"}) /\ cache' = CacheCommit(cache, s.id) /\ slot' = [slot EXCEPT ![g] = Past(t, 1)]
  BY DEF HearsCommit
<1>2. /\ g \in Passengers /\ g # tester /\ s # Done /\ SlotOK(s) /\ SlotCore(s) /\ OwnsOK(s, booked, cache.canceled)
      /\ Mine(g) = Owns(s) /\ Call(s) = "commit" /\ s.pc = "served"
      /\ s.todo[1].calls \in Seq(CallName) /\ 1 \in DOMAIN s.todo[1].calls
  BY <1>1, OnFacts DEF BenchIInv, SlotOK
<1>3. s \in SlotType
  BY <1>2 DEF SlotCore
<1>4. s.id # 0 /\ Holds(s)
  BY <1>2 DEF SlotOK, HasId, Holds, ReserveCalls
<1>5. s.id \in Mine(g)
  BY <1>2, <1>4, HeldOK
<1>6. s.id \in DOMAIN cache.added /\ s.kept \subseteq cache.committed
  BY <1>2 DEF Marked, Noted, ToBeCommitted
<1>7. /\ t \in SlotType /\ t.trip = s.trip /\ t.todo = s.todo /\ t.asked = s.asked
      /\ t.kept = s.kept \cup {s.id}
  BY <1>3 DEF SlotType
<1> HIDE DEF t
<1>8. SlotCore(t)
  BY <1>2, <1>7 DEF SlotCore
<1>9. cache'.committed = cache.committed \cup {s.id} /\ cache'.canceled = cache.canceled
  BY <1>1, <1>6 DEF CacheCommit, BenchIInv, Books
<1>10. 1 \in 1 .. Len(t.todo[1].calls) /\ \E k \in 1 .. 1 : t.todo[1].calls[k] \in {"commit", "cancel", "racer"}
  BY <1>2, <1>7 DEF Call
<1>11. Noted(Past(t, 1), cache')
  BY <1>6, <1>7, <1>8, <1>9, <1>10, ReleasedNoted
<1>12. MarksOwn(g)
  BY <1>5, <1>9 DEF MarksOwn
<1> QED BY <1>1, <1>2, <1>11, <1>12, MarksInPlace

LEMMA CancelsMarks == ASSUME BenchIInv, Marked, NEW g \in Goroutine, Cancels(g)  PROVE Marks(g)
<1> DEFINE s == slot[g]
           i == NextKept(g)
           x == [s EXCEPT !.pc = "served", !.id = i, !.kept = s.kept \ {i}]
<1>1. /\ On(g, "calling", {"cancel"}) /\ cache' = cache /\ s.kept # {}
      /\ slot' = [slot EXCEPT ![g].pc = "served", ![g].id = i, ![g].kept = @ \ {i}]
  BY DEF Cancels
<1>2. g \in Passengers /\ s # Done /\ SlotCore(s) /\ Call(s) = "cancel"
  BY <1>1, OnFacts DEF BenchIInv, SlotOK
<1>3. s \in SlotType /\ s.kept \subseteq Nat
  BY <1>2 DEF SlotCore, SlotType
<1>4. i \in s.kept /\ s.kept \subseteq cache.committed
  BY <1>1, <1>2, <1>3, LeastNumber DEF NextKept, Marked, Noted
<1> HIDE DEF i
<1>5. slot' = [slot EXCEPT ![g] = x]
  BY <1>1 DEF BenchIInv, Owners
<1>6. x.pc = "served" /\ x.id = i /\ x.kept = s.kept \ {i} /\ x.todo = s.todo
  BY <1>3 DEF SlotType
<1> HIDE DEF x
<1>7. ~ ToBeCommitted(x)
  BY <1>2, <1>6 DEF ToBeCommitted, Call
<1> QED BY <1>1, <1>2, <1>4, <1>5, <1>6, <1>7, InPlaceMarks DEF SameMarks

LEMMA HearsCancelMarks == ASSUME BenchIInv, Marked, NEW g \in Goroutine, HearsCancel(g)  PROVE Marks(g)
<1> DEFINE s == slot[g]
<1>1. /\ On(g, "served", {"cancel"}) /\ cache' = CacheCancel(cache, s.id) /\ slot' = [slot EXCEPT ![g] = Past(s, 1)]
  BY DEF HearsCancel, Next1
<1>2. /\ g \in Passengers /\ g # tester /\ s # Done /\ SlotOK(s) /\ SlotCore(s) /\ OwnsOK(s, booked, cache.canceled)
      /\ Mine(g) = Owns(s) /\ Call(s) = "cancel" /\ s.pc = "served"
      /\ s.todo[1].calls \in Seq(CallName) /\ 1 \in DOMAIN s.todo[1].calls
  BY <1>1, OnFacts DEF BenchIInv, SlotOK
<1>3. s.id # 0 /\ Holds(s)
  BY <1>2 DEF SlotOK, HasId, Holds, ReserveCalls
<1>4. s.id \in Mine(g) /\ s.id \notin s.kept
  BY <1>2, <1>3, HeldOK
<1>5. s.id \in cache.committed /\ s.kept \subseteq cache.committed
  BY <1>2 DEF Marked, Noted
<1>6. s.id \in DOMAIN cache.added
  BY <1>5 DEF BenchIInv, Books
<1>7. cache'.committed = cache.committed \ {s.id} /\ cache'.canceled = cache.canceled \cup {s.id}
  BY <1>1, <1>6 DEF CacheCancel, BenchIInv, Books
<1>8. 1 \in 1 .. Len(s.todo[1].calls) /\ \E k \in 1 .. 1 : s.todo[1].calls[k] \in {"commit", "cancel", "racer"}
  BY <1>2 DEF Call
<1>9. Noted(Past(s, 1), cache')
  BY <1>2, <1>4, <1>5, <1>7, <1>8, ReleasedNoted
<1>10. MarksOwn(g)
  BY <1>4, <1>7 DEF MarksOwn
<1> QED BY <1>1, <1>2, <1>9, <1>10, MarksInPlace

LEMMA QuietMarks ==
  ASSUME BenchIInv, Marked, NEW g \in Goroutine, AsksRegardless(g) \/ NothingToCancel(g)
  PROVE  Marks(g)
<1>1. On(g, "calling", {"card", "foreignCancel", "cancel"}) /\ cache' = cache /\ Next1(g)
  BY DEF AsksRegardless, NothingToCancel, On
<1> QED BY <1>1, Next1Marks

LEMMA CountsMarks == ASSUME BenchIInv, Marked, NEW g \in Goroutine, Counts(g)  PROVE Marks(g)
<1>1. On(g, "calling", {"count"})
  BY DEF Counts
<1>2. slot[g].won \in Nat
  BY <1>1, OnFacts, NotDone DEF BenchIInv, SlotOK
<1>3. cache' = cache /\ (Fails(g, "application") \/ Next1(g) \/ Fails(g, "sold twice"))
  BY <1>2, CountsCases
<1>4. "sold twice" \in Critical
  BY DEF Critical
<1> QED BY <1>1, <1>3, <1>4, Next1Marks, FailsMarks

LEMMA AsksForWrongSeatMarks == ASSUME BenchIInv, Marked, NEW g \in Goroutine, AsksForWrongSeat(g)  PROVE Marks(g)
<1>1. On(g, "calling", {"wrongSeat"}) /\ cache' = cache /\ (slot' = slot \/ Next1(g))
  BY DEF AsksForWrongSeat
<1>2. CASE slot' = slot
  BY <1>1, <1>2, SameMarksOwn DEF Marks, SameMarks, Marked
<1>3. CASE Next1(g)
  BY <1>1, <1>3, Next1Marks
<1> QED BY <1>1, <1>2, <1>3

LEMMA LosesAnswerMarks == ASSUME BenchIInv, Marked, NEW g \in Goroutine, LosesAnswer(g)  PROVE Marks(g)
<1>1. PICK pc \in {"calling", "served", "added"} : \E names : On(g, pc, names)
  BY LosesAnswerCases
<1>2. PICK names : On(g, pc, names)
  BY <1>1
<1>3. pc # "done" /\ slot[g].pc = pc /\ cache' = cache
  BY <1>2, LosesAnswerCases DEF On
<1>4. CASE On(g, slot[g].pc, {"racer"}) /\ Next1(g)
  BY <1>3, <1>4, Next1Marks
<1>5. ASSUME NEW kind \in LossKind, Fails(g, kind)  PROVE Marks(g)
  BY <1>2, <1>3, <1>5, LossKinds, FailsMarks
<1> QED BY <1>4, <1>5, LosesAnswerCases

LEMMA PassengerMarks == ASSUME BenchIInv, Marked, NEW g \in Goroutine, Passenger(g)  PROVE Marks(g)
BY AsksMarks, QuietMarks, MapsMarks, ReservesMarks, HearsReserveMarks, AddsMarks, AssertsReserveMarks, CommitsMarks,
   HearsCommitMarks, CancelsMarks, HearsCancelMarks, CountsMarks, AsksForWrongSeatMarks, LosesAnswerMarks DEF Passenger

LEMMA TesterMarks == ASSUME BenchIInv, Marked, Tester  PROVE Marks(tester)
<1>1. SameMarks
  <2>1. CASE TesterReserves
    <3>1. cache' = cache \/ \E i, req : cache' = CacheAdd(cache, i, req)
      BY <2>1 DEF TesterReserves
    <3> QED BY <3>1 DEF SameMarks, CacheAdd, BenchIInv, Books
  <2>2. CASE TesterStarts \/ TesterLooks \/ TesterMaps \/ TesterLosesAnswer
    BY <2>2 DEF TesterStarts, TesterLooks, TesterMaps, TesterLosesAnswer, SameMarks
  <2> QED BY <2>1, <2>2 DEF Tester
<1> QED BY <1>1, SameMarksOwn, SomeGoroutine DEF Marks

(* Steps that move nobody, and steps that begin a scenario.                *)
LEMMA StandingMarked ==
  ASSUME Marked, cache' = cache, slot' = slot
  PROVE  Marked' /\ \A g : MarksOwn(g)
BY SameMarksOwn DEF SameMarks, Marked

LEMMA BeginMarked ==
  ASSUME BenchIInv, Marked, cache' = cache, NEW g \in Passengers, NEW blocks, NEW trip \in AnyTrip,
         ScenarioOK(blocks, trip), slot' = [slot EXCEPT ![g] = Start(blocks, trip)]
  PROVE  Marked' /\ \A h : MarksOwn(h)
<1> DEFINE t == Start(blocks, trip)
<1>1. \A h : MarksOwn(h)
  BY SameMarksOwn DEF SameMarks
<1>2. t.pc = "calling" /\ t.todo = blocks /\ t.kept = {}
  BY DEF Start
<1>3. Covered(t.todo[1].calls)
  BY <1>2 DEF ScenarioOK, NotBegun
<1>4. Noted(t, cache)
  BY <1>2, <1>3 DEF Noted, ToBeCommitted
<1> HIDE DEF t
<1>5. \A h \in Passengers : slot'[h] = IF h = g THEN t ELSE slot[h]
  BY SomeGoroutine DEF BenchIInv, Owners, t
<1>6. Marked'
  BY <1>4, <1>5 DEF Marked
<1> QED BY <1>1, <1>6

LEMMA StartScenarioMarked ==
  ASSUME BenchIInv, Marked, StartScenario
  PROVE  Marked' /\ \A g : MarksOwn(g)
<1>1. (\E g \in Load : slot[g] = Done) /\ cache' = cache
  BY DEF StartScenario
<1>2. PICK n \in DOMAIN LoadPlan : \E trip \in TripsOf(LoadPlan[n]) :
        slot' = [slot EXCEPT ![FreeSlot] = Start(LoadPlan[n], trip)]
  BY DEF StartScenario
<1>3. PICK trip \in TripsOf(LoadPlan[n]) : slot' = [slot EXCEPT ![FreeSlot] = Start(LoadPlan[n], trip)]
  BY <1>2
<1>4. FreeSlot \in Passengers
  BY <1>1 DEF FreeSlot, Passengers
<1>5. trip \in AnyTrip /\ ScenarioOK(LoadPlan[n], trip)
  BY PlannedOK
<1> HIDE DEF ScenarioOK
<1> QED BY <1>1, <1>3, <1>4, <1>5, BeginMarked

LEMMA MainMarked ==
  ASSUME BenchIInv, Marked, Main
  PROVE  Marked' /\ \A g : MarksOwn(g)
<1>1. /\ driver \in Passengers /\ PretestTrip \in AnyTrip /\ VagueTrip \in AnyTrip
      /\ ScenarioOK(<<PretestNormal>>, PretestTrip) /\ ScenarioOK(<<PretestReserveVague>>, VagueTrip)
  BY SimpleScenarios DEF Passengers, AnyTrip
<1>2. CASE PretestRefusals
  <2>1. cache' = cache /\ (slot' = slot \/ slot' = [slot EXCEPT ![driver] = Start(<<PretestNormal>>, PretestTrip)])
    BY <1>2 DEF PretestRefusals, Stage
  <2> QED BY <1>1, <2>1, StandingMarked, BeginMarked
<1>3. CASE PretestGoesOn
  <2>1. cache' = cache /\ (slot' = slot \/ slot' = [slot EXCEPT ![driver] = Start(<<PretestReserveVague>>, VagueTrip)])
    BY <1>3, PretestGoesOnCases
  <2> QED BY <1>1, <2>1, StandingMarked, BeginMarked
<1>4. CASE \/ InitializePayment \/ InitializeApplication \/ PretestReads \/ NewTester
           \/ TimeIsUp \/ LoadEnds \/ FinalChecks
  <2>1. cache' = cache /\ slot' \in {slot, NoGoroutines}
    BY <1>4 DEF InitializePayment, InitializeApplication, PretestReads, NewTester, Stage, TimeIsUp, LoadEnds,
                FinalChecks
  <2>2. CASE slot' = NoGoroutines
    BY <2>1, <2>2, NobodyLeft DEF Marked, Noted, MarksOwn
  <2> QED BY <2>1, <2>2, StandingMarked
<1> QED BY <1>2, <1>3, <1>4 DEF Main, Prepares

LEMMA InitMarked == ASSUME BenchInit  PROVE Marked
<1>1. \A g \in Passengers : slot[g] = Done
  BY SomeGoroutine DEF BenchInit, NoGoroutines
<1> QED BY <1>1 DEF Marked, Noted

LEMMA BenchNextMarked ==
  ASSUME BenchIInv, Sold, Marked, BenchNext \/ UNCHANGED benchVars
  PROVE  Marked'
<1>1. CASE Main \/ StartScenario
  BY <1>1, MainMarked, StartScenarioMarked
<1>2. CASE UNCHANGED benchVars
  BY <1>2 DEF benchVars, Marked
<1>3. CASE Tester
  BY <1>3, SomeGoroutine, TesterSold, TesterMarks, MarkedStep DEF StaysSold
<1>4. ASSUME NEW g \in Goroutine, Passenger(g)  PROVE Marked'
  BY <1>4, PassengerSold, PassengerMarks, MarkedStep DEF StaysSold
<1> QED BY <1>1, <1>2, <1>3, <1>4 DEF BenchNext

-----------------------------------------------------------------------------
(* Why a good application is blamed.                                       *)

(* A reservation that was not shown, or not paid for, is left to itself:   *)
(* no passenger will ever pay for it.                                      *)
UnshownForGood ==
  errs.msgs \cap {"not shown", "card"} # {} =>
    \E i \in DOMAIN cache.added \ cache.committed : booked[i].status = "held" /\ i \notin Owned(slot)
StillForGood ==
  "still shown" \in errs.msgs =>
    \E i \in cache.committed \ cache.canceled : booked[i].status = "gone" /\ i \notin Owned(slot)

SoldForCauses == TakenSeatHadBeenCanceled /\ TooFewWereAskedFor /\ RacersAskedVaguely
                 /\ UnshownForGood /\ StillForGood

(* What is left to itself stays as it is.                                  *)
LEMMA LeftToItself ==
  ASSUME BenchIInv, NEW g \in Goroutine, Grows(g), MarksOwn(g), NEW i \in DOMAIN cache.added, i \notin Owned(slot)
  PROVE  /\ i \in DOMAIN cache'.added /\ booked'[i] = booked[i] /\ i \notin Owned(slot')
         /\ i \in cache'.committed <=> i \in cache.committed
         /\ i \in cache'.canceled <=> i \in cache.canceled
<1>1. Owned(slot') \subseteq Owned(slot) \cup New /\ Mine(g) \subseteq Owned(slot)
  BY OwnedStep, SomeGoroutine DEF Mine, Owned
<1>2. i \in DOMAIN booked /\ i \notin Mine(g)
  BY <1>1 DEF BenchIInv, Books
<1> HIDE DEF Owned, Mine
<1> QED BY <1>1, <1>2 DEF Grows, New, MarksOwn

(* A cause is there for good, and an error that is new has one.            *)
LEMMA CausesRemain ==
  ASSUME BenchIInv, SoldForCauses, NEW g \in Goroutine, Grows(g), MarksOwn(g),
         NEW kind, errs'.msgs \subseteq errs.msgs \cup {kind},
         kind = "taken seat sold" => TakenSeatHadBeenCanceled',
         kind = "too few seats" => TooFewWereAskedFor',
         kind = "sold twice" => RacersAskedVaguely',
         kind \in {"not shown", "card"} => UnshownForGood',
         kind = "still shown" => StillForGood'
  PROVE  SoldForCauses'
<1>1. /\ \A i \in DOMAIN booked : /\ i \in DOMAIN booked' /\ booked'[i].trip = booked[i].trip
                                  /\ booked'[i].seats = booked[i].seats
                                  /\ booked[i].status = "gone" => booked'[i].status = "gone"
      /\ \A i \in DOMAIN cache.added : i \in DOMAIN cache'.added /\ cache'.added[i] = cache.added[i]
  BY DEF Grows, Kept
<1>2. TakenSeatHadBeenCanceled'
  BY <1>1 DEF SoldForCauses, TakenSeatHadBeenCanceled
<1>3. TooFewWereAskedFor'
  BY <1>1 DEF SoldForCauses, TooFewWereAskedFor
<1>4. RacersAskedVaguely'
  BY <1>1 DEF SoldForCauses, RacersAskedVaguely
<1>5. UnshownForGood'
  <2>1. CASE errs.msgs \cap {"not shown", "card"} # {}
    <3>1. PICK i \in DOMAIN cache.added \ cache.committed : booked[i].status = "held" /\ i \notin Owned(slot)
      BY <2>1 DEF SoldForCauses, UnshownForGood
    <3>2. i \in DOMAIN cache'.added \ cache'.committed /\ booked'[i].status = "held" /\ i \notin Owned(slot')
      BY <3>1, LeftToItself
    <3> HIDE DEF Owned
    <3> QED BY <3>2 DEF UnshownForGood
  <2>2. CASE errs.msgs \cap {"not shown", "card"} = {} /\ kind \notin {"not shown", "card"}
    <3>1. errs'.msgs \cap {"not shown", "card"} = {}
      BY <2>2
    <3> QED BY <3>1 DEF UnshownForGood
  <2> QED BY <2>1, <2>2
<1>6. StillForGood'
  <2>1. CASE "still shown" \in errs.msgs
    <3>1. PICK i \in cache.committed \ cache.canceled : booked[i].status = "gone" /\ i \notin Owned(slot)
      BY <2>1 DEF SoldForCauses, StillForGood
    <3>2. i \in DOMAIN cache.added
      BY <3>1 DEF BenchIInv, Books
    <3>3. i \in cache'.committed \ cache'.canceled /\ booked'[i].status = "gone" /\ i \notin Owned(slot')
      BY <3>1, <3>2, LeftToItself
    <3> HIDE DEF Owned
    <3> QED BY <3>3 DEF StillForGood
  <2>2. CASE "still shown" \notin errs.msgs /\ kind # "still shown"
    <3>1. "still shown" \notin errs'.msgs
      BY <2>2
    <3> QED BY <3>1 DEF StillForGood
  <2> QED BY <2>1, <2>2
<1> QED BY <1>2, <1>3, <1>4, <1>5, <1>6 DEF SoldForCauses

(* An error of one kind, and none of the kinds that need a cause.           *)
LEMMA MildRemains ==
  ASSUME BenchIInv, SoldForCauses, NEW g \in Goroutine, Grows(g), MarksOwn(g),
         NEW kind \in {"timeout", "application", "sign"}, errs'.msgs \subseteq errs.msgs \cup {kind}
  PROVE  SoldForCauses'
<1>1. kind # "taken seat sold" /\ kind # "too few seats" /\ kind # "sold twice"
      /\ kind \notin {"not shown", "card"} /\ kind # "still shown"
  OBVIOUS
<1> QED BY <1>1, CausesRemain

LEMMA TakenRemains ==
  ASSUME BenchIInv, SoldForCauses, NEW g \in Goroutine, Grows(g), MarksOwn(g), TakenSeatHadBeenCanceled',
         NEW kind, kind = "taken seat sold", errs'.msgs \subseteq errs.msgs \cup {kind}
  PROVE  SoldForCauses'
<1>1. kind # "too few seats" /\ kind # "sold twice" /\ kind \notin {"not shown", "card"} /\ kind # "still shown"
  OBVIOUS
<1> QED BY <1>1, CausesRemain

LEMMA FewRemains ==
  ASSUME BenchIInv, SoldForCauses, NEW g \in Goroutine, Grows(g), MarksOwn(g), TooFewWereAskedFor',
         NEW kind, kind = "too few seats", errs'.msgs \subseteq errs.msgs \cup {kind}
  PROVE  SoldForCauses'
<1>1. kind # "taken seat sold" /\ kind # "sold twice" /\ kind \notin {"not shown", "card"} /\ kind # "still shown"
  OBVIOUS
<1> QED BY <1>1, CausesRemain

LEMMA TwiceRemains ==
  ASSUME BenchIInv, SoldForCauses, NEW g \in Goroutine, Grows(g), MarksOwn(g), RacersAskedVaguely',
         NEW kind, kind = "sold twice", errs'.msgs \subseteq errs.msgs \cup {kind}
  PROVE  SoldForCauses'
<1>1. kind # "taken seat sold" /\ kind # "too few seats" /\ kind \notin {"not shown", "card"} /\ kind # "still shown"
  OBVIOUS
<1> QED BY <1>1, CausesRemain

LEMMA UnshownRemains ==
  ASSUME BenchIInv, SoldForCauses, NEW g \in Goroutine, Grows(g), MarksOwn(g), UnshownForGood',
         NEW kind \in {"not shown", "card"}, errs'.msgs \subseteq errs.msgs \cup {kind}
  PROVE  SoldForCauses'
<1>1. kind # "taken seat sold" /\ kind # "too few seats" /\ kind # "sold twice" /\ kind # "still shown"
  OBVIOUS
<1> QED BY <1>1, CausesRemain

LEMMA StillRemains ==
  ASSUME BenchIInv, SoldForCauses, NEW g \in Goroutine, Grows(g), MarksOwn(g), StillForGood',
         NEW kind, kind = "still shown", errs'.msgs \subseteq errs.msgs \cup {kind}
  PROVE  SoldForCauses'
<1>1. kind # "taken seat sold" /\ kind # "too few seats" /\ kind # "sold twice" /\ kind \notin {"not shown", "card"}
  OBVIOUS
<1> QED BY <1>1, CausesRemain

(* What is added to the errors.                                            *)
LEMMA FailsAdds ==
  ASSUME BenchIInv, NEW g \in Goroutine, NEW pc, pc # "done", NEW names, On(g, pc, names),
         NEW kind \in Critical \cup {"timeout", "application"}, Fails(g, kind)
  PROVE  errs'.msgs \subseteq errs.msgs \cup {kind} /\ (g = driver => errs'.msgs = errs.msgs)
<1>1. g \in Passengers /\ slot[g] # Done /\ errs \in ErrsType
  BY OnFacts DEF BenchIInv, Stages
<1>2. errs' = WithError(g, kind, slot[g].todo[1].adds) /\ slot[g].todo[1].adds \in Nat
  BY <1>1, FailsOK DEF BenchIInv
<1> QED BY <1>1, <1>2, WithErrorOK

(* A seat that the cache has as taken, and the application gave away, was  *)
(* given back to it.                                                       *)
LEMMA TakenHadBeenCanceled ==
  ASSUME BenchIInv, Sold, NEW g \in Goroutine, On(g, "served", ReserveCalls), slot[g].id # 0,
         ~ CanReserve(cache, Request(g)), UNCHANGED <<cache, booked>>
  PROVE  TakenSeatHadBeenCanceled'
<1> DEFINE s == slot[g]
           req == Request(g)
           j == s.id
<1>1. /\ g \in Passengers /\ s # Done /\ SlotOK(s) /\ SlotCore(s) /\ OwnsOK(s, booked, cache.canceled)
      /\ Call(s) \in ReserveCalls /\ s.pc = "served"
      /\ Head(s.todo) = s.todo[1] /\ s.todo[1].calls \in Seq(CallName) /\ 1 \in DOMAIN s.todo[1].calls
  BY OnFacts DEF BenchIInv, SlotOK
<1>2. s.trip \in AnyTrip
  BY <1>1 DEF SlotCore, SlotType
<1>3. Holds(s) /\ Standing(s) = "held"
  BY <1>1 DEF Holds, Standing, ReserveCalls
<1>4. j \in DOMAIN booked /\ booked[j].trip = s.trip /\ booked[j].status = "held"
  BY <1>1, <1>3, HeldOK
<1>a. s.trip \in Served
  <2>1. booked[j] \in Booking
    BY <1>4 DEF BenchIInv, Books
  <2> QED BY <1>4, <2>1 DEF Booking
<1>5. req = RequestOf(s.trip, IF Call(s) = "vague" THEN {} ELSE s.asked)
  <2>1. Head(Head(s.todo).calls) = Call(s)
    BY <1>1 DEF Call
  <2> QED BY <2>1 DEF Request, Asked
<1>6. j \notin DOMAIN cache.added /\ (Call(s) # "vague" /\ s.asked # {} => booked[j].seats = s.asked)
  BY <1>1 DEF Sold, ToBeAdded
<1> HIDE DEF req
<1>7. req.from = s.trip.from /\ req.to = s.trip.to /\ req.day = s.trip.day /\ req.time = s.trip.time
      /\ req.train = s.trip.train /\ req.seats \subseteq booked[j].seats
  BY <1>5, <1>6 DEF RequestOf
<1>8. \A i \in DOMAIN cache.added :
        /\ i \in DOMAIN booked /\ booked[i].trip \in Served
        /\ cache.added[i].seats \subseteq booked[i].seats
        /\ cache.added[i].from = booked[i].trip.from /\ cache.added[i].to = booked[i].trip.to
        /\ cache.added[i].day = booked[i].trip.day /\ cache.added[i].time = booked[i].trip.time
        /\ cache.added[i].train = booked[i].trip.train
  <2> SUFFICES ASSUME NEW i \in DOMAIN cache.added
               PROVE  /\ i \in DOMAIN booked /\ booked[i].trip \in Served
                      /\ cache.added[i].seats \subseteq booked[i].seats
                      /\ cache.added[i].from = booked[i].trip.from /\ cache.added[i].to = booked[i].trip.to
                      /\ cache.added[i].day = booked[i].trip.day /\ cache.added[i].time = booked[i].trip.time
                      /\ cache.added[i].train = booked[i].trip.train
    OBVIOUS
  <2>1. i \in DOMAIN booked /\ booked[i] \in Booking
    BY DEF BenchIInv, Books
  <2>2. PICK seats \in SUBSET booked[i].seats : cache.added[i] = RequestOf(booked[i].trip, seats)
    BY DEF Sold, AddedAsBooked
  <2> QED BY <2>1, <2>2 DEF RequestOf, Booking
<1>9. PICK i \in DOMAIN cache.added :
         /\ <<cache.added[i].day, cache.added[i].time>> = <<req.day, req.time>>
         /\ cache.added[i].train = req.train
         /\ Overlap(req.from, req.to, cache.added[i].from, cache.added[i].to)
         /\ cache.added[i].seats \cap req.seats # {}
  <2>1. /\ req.from \in Int /\ req.to \in Int /\ req.from # req.to
        /\ \A i \in DOMAIN cache.added :
              /\ cache.added[i].from \in Int /\ cache.added[i].to \in Int
              /\ cache.added[i].from # cache.added[i].to
    BY <1>a, <1>7, <1>8, BenchAssumption DEF Served
  <2> QED BY <2>1, CanReserveExact DEF req
<1>10. /\ i # j /\ SameRun(booked[i].trip, booked[j].trip) /\ booked[i].trip.time = booked[j].trip.time
       /\ Overlap(booked[i].trip.from, booked[i].trip.to, booked[j].trip.from, booked[j].trip.to)
       /\ cache.added[i].seats \cap booked[j].seats # {} /\ booked[i].seats \cap booked[j].seats # {}
  BY <1>4, <1>6, <1>7, <1>8, <1>9 DEF SameRun, Overlap
<1>11. booked[i].status = "gone"
  <2>1. i \in DOMAIN booked /\ InTheWay(booked[i].trip, booked[j].trip)
    BY <1>8, <1>10 DEF InTheWay
  <2> QED BY <1>4, <1>10, <2>1 DEF Sold, SoldOnce
<1> QED BY <1>4, <1>8, <1>10, <1>11 DEF TakenSeatHadBeenCanceled

(* A passenger whose scenario or block is broken off leaves the reservation *)
(* it was busy with to itself.                                             *)
LEMMA LeavesBehind ==
  ASSUME BenchIInv, NEW g \in Goroutine, Grows(g), NEW pc, pc # "done", NEW names, On(g, pc, names),
         NEW kind \in LossKind, Fails(g, kind), Holds(slot[g])
  PROVE  slot[g].id \notin Owned(slot')
<1> DEFINE s == slot[g]
<1>1. g \in Passengers /\ s # Done /\ SlotCore(s) /\ OwnsOK(s, booked, cache.canceled)
  BY OnFacts DEF BenchIInv, SlotOK
<1>2. /\ \/ slot' = [slot EXCEPT ![g] = Done]
         \/ slot' = [slot EXCEPT ![g] = Past(s, Len(s.todo[1].calls))]
      /\ Len(s.todo[1].calls) \in 1 .. Len(s.todo[1].calls)
  BY <1>1, LossKinds, FailsOK DEF BenchIInv
<1>3. slot'[g] = Done \/ slot'[g] = Past(s, Len(s.todo[1].calls))
  BY <1>1, <1>2, SomeGoroutine DEF BenchIInv, Owners
<1>4. s.id \in Owns(s) /\ s.id \notin s.kept
  BY <1>1, HeldOK
<1>5. s.id \notin Owns(slot'[g])
  <2>1. CASE slot'[g] = Done
    BY <2>1 DEF Owns
  <2>2. CASE slot'[g] = Past(s, Len(s.todo[1].calls)) /\ slot'[g] # Done
    <3> DEFINE n == Len(s.todo[1].calls)
               t == Past(s, n)
    <3>a. n \in 1 .. n /\ t # Done /\ SlotCore(s)
      BY <1>1, <1>2, <2>2
    <3>b. t.kept = s.kept /\ t.pc = "calling" /\ NotBegun(t.todo[1])
      BY <3>a, PastOK
    <3>1. slot'[g].kept = s.kept /\ slot'[g].pc = "calling" /\ Covered(slot'[g].todo[1].calls)
      BY <2>2, <3>b DEF NotBegun
    <3>2. Owns(slot'[g]) = s.kept
      BY <2>2, <3>1 DEF Owns, Holds
    <3> QED BY <1>4, <3>2
  <2> QED BY <1>3, <2>1, <2>2
<1>6. ASSUME NEW h \in Passengers, h # g  PROVE s.id \notin Owns(slot'[h])
  <2>1. slot'[h] = slot[h]
    BY <1>6 DEF Grows
  <2> QED BY <1>1, <1>4, <1>6, <2>1 DEF BenchIInv, Owners
<1> QED BY <1>5, <1>6 DEF Owned

(* What the reservation is whose look or card was lost.                    *)
LEMMA LostIsLeft ==
  ASSUME BenchIInv, Marked, NEW g \in Goroutine, Grows(g), UNCHANGED <<cache, booked>>,
         NEW kind \in LossKind, Fails(g, kind), Lost(g, kind)
  PROVE  /\ kind \in {"not shown", "card"} => UnshownForGood'
         /\ kind = "still shown" => StillForGood'
<1> DEFINE s == slot[g]
<1>1. ASSUME kind \in {"not shown", "card"}  PROVE UnshownForGood'
  <2>1. PICK pc \in {"calling", "added"} : On(g, pc, {"card", "reserve", "vague"})
                                          /\ (pc = "calling" => On(g, pc, {"card"}))
    BY <1>1 DEF Lost, On
  <2>2. /\ g \in Passengers /\ s # Done /\ SlotOK(s) /\ SlotCore(s) /\ OwnsOK(s, booked, cache.canceled) /\ s.pc = pc
        /\ s.todo[1].calls \in Seq(CallName) /\ 1 \in DOMAIN s.todo[1].calls /\ (pc = "calling" => Call(s) = "card")
    BY <2>1, OnFacts DEF BenchIInv, SlotOK
  <2>3. s.pc = "calling" => ~ Covered(s.todo[1].calls)
    <3>1. s.todo \in Seq(BlockType) /\ s.todo # << >> /\ \A m \in DOMAIN s.todo : BlockOK(s.todo[m])
      BY <2>2 DEF SlotCore, TodoOK
    <3>2. CardThenCommit(s.todo[1].calls)
      BY <3>1 DEF BlockOK
    <3> SUFFICES ASSUME s.pc = "calling"  PROVE ~ Covered(s.todo[1].calls)
      OBVIOUS
    <3>3. s.todo[1].calls[1] = "card"
      BY <2>2 DEF Call
    <3>4. 2 \in DOMAIN s.todo[1].calls /\ s.todo[1].calls[2] = "commit"
      BY <2>2, <3>2, <3>3 DEF CardThenCommit
    <3>5. \A j \in 1 .. (2 - 1) : s.todo[1].calls[j] \notin {"reserve", "vague"}
      BY <3>3
    <3> QED BY <3>4, <3>5 DEF Covered
  <2>4. Holds(s) /\ Standing(s) = "held"
    BY <2>2, <2>3 DEF SlotOK, HasId, Holds, Standing
  <2>5. booked[s.id].status = "held"
    BY <2>2, <2>4, HeldOK
  <2>6. s.id \in DOMAIN cache.added /\ s.id \notin cache.committed
    BY <2>2, <2>3, <2>5 DEF Marked, Noted, ToBeCommitted, BenchIInv, Books
  <2>7. s.id \notin Owned(slot')
    BY <2>1, <2>4, LeavesBehind
  <2> HIDE DEF s, Owned
  <2> QED BY <2>5, <2>6, <2>7 DEF UnshownForGood
<1>2. ASSUME kind = "still shown"  PROVE StillForGood'
  <2>1. On(g, "served", {"cancel"})
    BY <1>2 DEF Lost
  <2>2. /\ g \in Passengers /\ s # Done /\ SlotOK(s) /\ OwnsOK(s, booked, cache.canceled) /\ s.pc = "served"
        /\ Call(s) = "cancel"
    BY <2>1, OnFacts DEF BenchIInv
  <2>3. Holds(s) /\ Standing(s) = "gone"
    BY <2>2 DEF SlotOK, HasId, Holds, Standing, ReserveCalls
  <2>4. booked[s.id].status = "gone" /\ s.id \notin cache.canceled
    BY <2>2, <2>3, HeldOK
  <2>5. s.id \in cache.committed
    BY <2>2 DEF Marked, Noted
  <2>6. s.id \notin Owned(slot')
    BY <2>1, <2>3, LeavesBehind
  <2> HIDE DEF s, Owned
  <2> QED BY <2>4, <2>5, <2>6 DEF StillForGood
<1> QED BY <1>1, <1>2

LEMMA PassengerCauses ==
  ASSUME BenchIInv, Sold, Marked, SoldForCauses, NEW g \in Goroutine, Passenger(g)
  PROVE  SoldForCauses'
<1>0. Grows(g) /\ MarksOwn(g)
  BY PassengerSold, PassengerMarks DEF StaysSold, Marks
<1>1. ASSUME errs'.msgs \subseteq errs.msgs  PROVE SoldForCauses'
  <2>1. errs'.msgs \subseteq errs.msgs \cup {"timeout"}
    BY <1>1
  <2> QED BY <1>0, <1>1, <2>1, MildRemains
<1>2. ASSUME NEW pc, pc # "done", NEW names, On(g, pc, names), NEW kind \in {"timeout", "application"}, Fails(g, kind)
      PROVE  SoldForCauses'
  <2>1. errs'.msgs \subseteq errs.msgs \cup {kind}
    BY <1>2, FailsAdds
  <2> QED BY <1>0, <1>2, <2>1, MildRemains
<1>3. CASE HearsReserve(g)
  <2>1. On(g, "served", ReserveCalls) /\ hurt' = hurt /\ UNCHANGED <<cache, booked>>
    BY <1>3, HearsReserveCases
  <2>2. \/ errs' = errs \/ Fails(g, "application")
        \/ slot[g].id # 0 /\ ~ CanReserve(cache, Request(g)) /\ Fails(g, "taken seat sold")
    BY <1>3, HearsReserveCases
  <2>3. CASE slot[g].id # 0 /\ ~ CanReserve(cache, Request(g)) /\ Fails(g, "taken seat sold")
    <3>1. TakenSeatHadBeenCanceled'
      BY <2>1, <2>3, TakenHadBeenCanceled
    <3>2. "taken seat sold" \in Critical
      BY DEF Critical
    <3>3. errs'.msgs \subseteq errs.msgs \cup {"taken seat sold"}
      BY <2>1, <2>3, <3>2, FailsAdds
    <3> QED BY <1>0, <2>1, <3>1, <3>3, TakenRemains
  <2> QED BY <1>1, <1>2, <2>1, <2>2, <2>3
<1>4. CASE AssertsReserve(g)
  <2>1. /\ On(g, "added", {"reserve", "vague"}) /\ hurt' = hurt /\ booked' = booked
        /\ \/ errs' = errs
           \/ Cardinality(booked[slot[g].id].seats) # People /\ Fails(g, "too few seats")
    BY <1>4 DEF AssertsReserve
  <2>2. CASE Cardinality(booked[slot[g].id].seats) # People /\ Fails(g, "too few seats")
    <3>1. slot[g] # Done /\ SlotOK(slot[g]) /\ slot[g].pc = "added" /\ OwnsOK(slot[g], booked, cache.canceled)
      BY <2>1, OnFacts DEF BenchIInv
    <3>2. Holds(slot[g])
      BY <3>1 DEF SlotOK, HasId, Holds
    <3>3. slot[g].id \in DOMAIN booked
      BY <3>1, <3>2, HeldOK
    <3>4. IsFiniteSet(booked[slot[g].id].seats) /\ Cardinality(booked[slot[g].id].seats) <= People
      BY <3>3 DEF Sold, FewSold
    <3>5. Cardinality(booked[slot[g].id].seats) < People
      <4> DEFINE n == Cardinality(booked[slot[g].id].seats)
      <4>1. n \in Nat
        BY <3>4, FS_CardinalityType
      <4>2. n # People /\ n <= People /\ People \in Nat
        BY <2>2, <3>4 DEF People
      <4> HIDE DEF n
      <4>3. n < People
        BY <4>1, <4>2
      <4> QED BY <4>3 DEF n
    <3>6. TooFewWereAskedFor'
      BY <2>1, <3>3, <3>5 DEF TooFewWereAskedFor
    <3>7. "too few seats" \in Critical
      BY DEF Critical
    <3>8. errs'.msgs \subseteq errs.msgs \cup {"too few seats"}
      BY <2>1, <2>2, <3>7, FailsAdds
    <3> QED BY <1>0, <2>1, <3>6, <3>8, FewRemains
  <2> QED BY <1>1, <2>1, <2>2
<1>5. CASE Counts(g)
  <2>0. On(g, "calling", {"count"})
    BY <1>5 DEF Counts
  <2>1. g \in Passengers /\ slot[g] # Done /\ slot[g].won \in Nat
    BY <2>0, OnFacts, NotDone DEF BenchIInv, SlotOK
  <2>2. /\ hurt' = hurt /\ cache' = cache
        /\ Fails(g, "application") \/ errs' = errs \/ (slot[g].won > 1 /\ Fails(g, "sold twice"))
    BY <1>5, <2>1, CountsCases
  <2>3. CASE slot[g].won > 1 /\ Fails(g, "sold twice")
    <3>1. TwoAlike(cache.added)
      BY <2>1, <2>3 DEF Sold, WonOK
    <3>2. RacersAskedVaguely'
      BY <2>2, <3>1 DEF TwoAlike, RacersAskedVaguely
    <3>3. "sold twice" \in Critical
      BY DEF Critical
    <3>4. errs'.msgs \subseteq errs.msgs \cup {"sold twice"}
      BY <2>0, <2>3, <3>3, FailsAdds
    <3> QED BY <1>0, <2>2, <3>2, <3>4, TwiceRemains
  <2> QED BY <1>1, <1>2, <2>0, <2>2, <2>3
<1>6. CASE LosesAnswer(g)
  <2>0. PICK pc \in {"calling", "served", "added"} : \E names : On(g, pc, names)
    BY <1>6, LosesAnswerCases
  <2>1. PICK names : On(g, pc, names)
    BY <2>0
  <2>2. ASSUME NEW kind \in LossKind, Fails(g, kind), Lost(g, kind)  PROVE SoldForCauses'
    <3>1. errs'.msgs \subseteq errs.msgs \cup {kind}
      BY <2>1, <2>2, LossKinds, FailsAdds
    <3>2. /\ kind \in {"not shown", "card"} => UnshownForGood'
          /\ kind = "still shown" => StillForGood'
      BY <1>0, <1>6, <2>2, LosesAnswerCases, LostIsLeft
    <3>3. kind \in {"timeout", "application"} \/ kind \in {"not shown", "card"} \/ kind = "still shown"
      BY DEF LossKind
    <3> QED BY <1>0, <3>1, <3>2, <3>3, MildRemains, UnshownRemains, StillRemains
  <2> QED BY <1>1, <1>6, <2>2, LosesAnswerCases
<1>7. CASE \/ Asks(g) \/ AsksRegardless(g) \/ Maps(g) \/ Reserves(g) \/ Adds(g) \/ Commits(g) \/ HearsCommit(g) \/ Cancels(g)
           \/ HearsCancel(g) \/ NothingToCancel(g) \/ AsksForWrongSeat(g)
  <2>1. errs' = errs
    BY <1>7 DEF Asks, AsksRegardless, Maps, Reserves, Adds, Commits, HearsCommit, Cancels, HearsCancel, NothingToCancel,
                AsksForWrongSeat
  <2> QED BY <1>1, <2>1
<1> QED BY <1>3, <1>4, <1>5, <1>6, <1>7 DEF Passenger

LEMMA CausesNext ==
  ASSUME BenchIInv, Sold, Marked, SoldForCauses, BenchNext \/ UNCHANGED benchVars  PROVE SoldForCauses'
<1>1. ASSUME NEW g \in Goroutine, Grows(g), MarksOwn(g), NEW kind \in {"sign", "timeout"},
             errs'.msgs \subseteq errs.msgs \cup {kind}
      PROVE  SoldForCauses'
  BY <1>1, MildRemains
<1>2. errs \in ErrsType
  BY DEF BenchIInv, Stages
<1>3. CASE Main
  <2>1. errs' = errs \/ \E final : errs' = [errs EXCEPT !.final = final]
    BY <1>3 DEF Main, Prepares, InitializePayment, InitializeApplication, PretestReads, PretestRefusals, NewTester,
                Stage, PretestGoesOn, TimeIsUp, LoadEnds, FinalChecks
  <2>2. errs'.msgs = errs.msgs
    BY <1>2, <2>1 DEF ErrsType
  <2>3. CASE Exit
    <3>1. Owned(slot') = {}
      BY <2>3, ExitSold
    <3> HIDE DEF Owned
    <3> QED BY <2>2, <2>3, <3>1 DEF Exit, SoldForCauses, TakenSeatHadBeenCanceled, TooFewWereAskedFor,
                                    RacersAskedVaguely, UnshownForGood, StillForGood
  <2>4. CASE \E g \in Goroutine : StaysSold(g)
    BY <1>1, <1>3, <2>2, <2>4, MainMarked DEF StaysSold
  <2> QED BY <1>3, <2>3, <2>4, MainSold
<1>4. CASE Tester
  <2>1. errs' = errs \/ errs' = WithError(tester, "sign", 1)
    BY <1>4 DEF Tester, TesterStarts, TesterLooks, TesterMaps, TesterReserves, TesterLosesAnswer
  <2>2. errs'.msgs \subseteq errs.msgs \cup {"sign"}
    <3>1. "sign" \in Critical /\ 1 \in Nat
      BY DEF Critical
    <3> QED BY <1>2, <2>1, <3>1, WithErrorOK
  <2>3. Grows(tester) /\ MarksOwn(tester)
    BY <1>4, TesterSold, TesterMarks DEF StaysSold, Marks
  <2> QED BY <1>1, <2>2, <2>3, SomeGoroutine
<1>5. CASE StartScenario
  <2>1. errs' = errs
    BY <1>5 DEF StartScenario
  <2>2. PICK g \in Goroutine : Grows(g)
    BY <1>5, StartScenarioSold DEF StaysSold
  <2> QED BY <1>1, <1>5, <2>1, <2>2, StartScenarioMarked
<1>6. CASE UNCHANGED benchVars
  BY <1>6 DEF benchVars, SoldForCauses, TakenSeatHadBeenCanceled, TooFewWereAskedFor, RacersAskedVaguely,
              UnshownForGood, StillForGood, Owned
<1> QED BY <1>3, <1>4, <1>5, <1>6, PassengerCauses DEF BenchNext

(* The panic.                                                              *)
LEMMA PanicNext ==
  ASSUME BenchIInv, Sold, PretestTrainWasFull, BenchNext \/ UNCHANGED benchVars  PROVE PretestTrainWasFull'
<1>1. CASE UNCHANGED benchVars
  BY <1>1 DEF benchVars, PretestTrainWasFull
<1>2. CASE BenchNext
  <2>1. verdict = "none"
    BY <1>2, OverIsOver DEF BenchIInv, Stages
  <2>2. ASSUME NEW g \in Goroutine, AsksForWrongSeat(g)  PROVE PretestTrainWasFull'
    <3>1. /\ On(g, "calling", {"wrongSeat"}) /\ booked' = booked
          /\ Cardinality(slot[g].asked) < 2 \/ verdict' = verdict
      BY <2>2 DEF AsksForWrongSeat
    <3>2. g \in Passengers /\ slot[g] # Done /\ Call(slot[g]) = "wrongSeat"
      BY <3>1, OnFacts DEF BenchIInv
    <3>3. Cardinality(slot[g].asked) < 2 => Cardinality(PretestPlaces(booked)) < 2
      BY <3>2 DEF Sold, SpoilsOK
    <3> QED BY <2>1, <3>1, <3>3 DEF PretestTrainWasFull, PretestPlaces
  <2>3. CASE Main \/ Tester \/ StartScenario
    <3>1. verdict' # "crash"
      BY <2>1, <2>3 DEF Main, Prepares, InitializePayment, InitializeApplication, PretestReads, PretestRefusals,
                        NewTester, Stage, PretestGoesOn, TimeIsUp, LoadEnds, FinalChecks, Ends, Tester,
                        TesterStarts, TesterLooks, TesterMaps, TesterReserves, TesterLosesAnswer, StartScenario
    <3> QED BY <3>1 DEF PretestTrainWasFull
  <2>4. ASSUME NEW g \in Goroutine, Passenger(g), ~ AsksForWrongSeat(g)  PROVE PretestTrainWasFull'
    <3>1. verdict' = verdict
      BY <2>4 DEF Passenger, Asks, AsksRegardless, Maps, Reserves, HearsReserve, Adds, AssertsReserve, Commits,
                  HearsCommit, Cancels, HearsCancel, NothingToCancel, Counts, LosesAnswer
    <3> QED BY <2>1, <3>1 DEF PretestTrainWasFull
  <2> QED BY <1>2, <2>2, <2>3, <2>4 DEF BenchNext
<1> QED BY <1>1, <1>2

-----------------------------------------------------------------------------
(* Why a sign is wrong.                                                    *)

(* What is left of the pretest: it reserves at most once, commits at most  *)
(* once after it, and ends with a cancel.                                  *)
PretestCalls(calls) ==
  /\ ~ Has(calls, {"racer", "count", "wrongSeat"})
  /\ \A j, k \in DOMAIN calls :
       calls[j] \in ReserveCalls \cup {"commit"} /\ calls[k] \in ReserveCalls => k <= j
  /\ \A j, k \in DOMAIN calls : calls[j] = "commit" /\ calls[k] = "commit" => j = k
  /\ Has(calls, ReserveCalls) => Has(calls, {"commit"})
  /\ \A j \in DOMAIN calls : calls[j] = "cancel" <=> j = Len(calls)

PretestOK(s) ==
  s # Done =>
    /\ Len(s.todo) = 1 /\ PretestCalls(s.todo[1].calls)
    /\ Has(s.todo[1].calls, {"commit"}) \/ s.pc = "served" => s.kept = {}
    /\ \A i, j \in s.kept : i = j

(* The bookings it is still to cancel.                                     *)
ToCancel(s) ==
  IF s = Done THEN {}
  ELSE IF s.pc = "calling" /\ Has(s.todo[1].calls, ReserveCalls) THEN {}
  ELSE IF Has(s.todo[1].calls, {"commit"}) THEN {s.id} ELSE s.kept

GoneBut(books, left) == \A i \in DOMAIN books : books[i].status = "gone" \/ i \in left
OnlyFor(books, trips) == \A i \in DOMAIN books : books[i].status = "gone" \/ books[i].trip \in trips

EarlyPhase == {"off", "payment", "initialize", "reads", "refusals"}
PretestPhase == {"pretest", "pretest vague", "account"}

(* The pretest leaves nothing that lasts but its vague reservation.        *)
Pretested ==
  /\ phase \in EarlyPhase => booked = << >>
  /\ phase \in EarlyPhase \cup PretestPhase => slot[tester] = TesterIdle /\ \A g \in Load : slot[g] = Done
  /\ phase = "pretest" /\ ~ errs.pretest => PretestOK(slot[driver]) /\ GoneBut(booked, ToCancel(slot[driver]))
  /\ phase = "pretest vague" => slot[driver] = Done \/ slot[driver].trip = VagueTrip
  /\ phase \in {"pretest vague", "account"} => OnlyFor(booked, {VagueTrip})

(* The passengers reserve for the trips of the load.                       *)
LoadTrips(s) ==
  \/ s = Done \/ s.trip \in Trip \cup {VagueTrip}
  \/ Owns(s) = {} /\ ~ Left(s.todo, ReserveCalls)

Rivals(books) ==
  \E i \in DOMAIN books : /\ books[i].trip \in Trip /\ SameRun(books[i].trip, TesterTrip)
                          /\ Overlap(books[i].trip.from, books[i].trip.to, TesterTrip.from, TesterTrip.to)

(* The tester that is alone knows how many seats are left.                 *)
TesterCar == CarsOf[TesterTrip.train][1]
TesterSees(s, free) ==
  /\ s.remain \in Nat /\ s.remain = Cardinality(free)
  /\ s.want = "plenty" => s.remain = TesterSeats /\ s.pc \in {"look", "looking"}
  /\ s.want = "few" => /\ s.remain % 2 = 1
                       /\ s.pc = "look" => s.remain <= TesterFew
                       /\ s.pc \in {"map", "reserve"} => s.remain > TesterFew
  /\ s.want = "none" => /\ s.pc = "look" => s.remain = 0
                        /\ s.pc \in {"map", "reserve"} => s.remain > 0
  /\ s.pc = "looking" => s.want = "plenty"
  /\ s.pc = "reserve" => s.asked = FirstOf(free, 2)

TesterKnows ==
  "tester" \notin hurt /\ ~ Rivals(booked) /\ slot[tester].pc # "over" =>
    TesterSees(slot[tester], Free(TesterTrip, TesterCar))

Watched ==
  /\ Pretested
  /\ \A g \in Load : LoadTrips(slot[g])
  /\ phase = "load" => OnlyFor(booked, Trip \cup {VagueTrip, TesterTrip})
  /\ phase = "load" => TesterKnows

-----------------------------------------------------------------------------
(* What a passenger's step leaves of its scenario, and what it books.      *)

OnItsWay(s, t) ==
  \/ t = Done
  \/ /\ t # Done /\ t.trip = s.trip /\ \A names : Left(t.todo, names) => Left(s.todo, names)

LEMMA PastOnItsWay ==
  ASSUME NEW s, NEW x, SlotCore(x), x.todo = s.todo, x.trip = s.trip, NEW n \in 1 .. Len(x.todo[1].calls)
  PROVE  OnItsWay(s, Past(x, n))
<1> DEFINE t == Past(x, n)
<1>1. ASSUME t # Done  PROVE t.trip = s.trip /\ \A names : Left(t.todo, names) => Left(s.todo, names)
  <2>1. t.todo = Rest(x.todo, n) /\ t.trip = x.trip
    BY <1>1, PastOK
  <2>2. x.todo \in Seq(BlockType) /\ x.todo # << >>
    BY DEF SlotCore, TodoOK
  <2> HIDE DEF t
  <2> QED BY <2>1, <2>2, LeftOfRest
<1> QED BY <1>1 DEF OnItsWay

(* A step of passenger g that leaves the application's books alone.        *)
Walks(g) == /\ g \in Passengers /\ Awake(g) /\ slot[g] # Done
            /\ \E t : OnItsWay(slot[g], t) /\ slot' = [slot EXCEPT ![g] = t]

LEMMA WalksPast ==
  ASSUME BenchIInv, NEW g \in Goroutine, NEW pc, pc # "done", NEW names, On(g, pc, names),
         NEW x, SlotCore(x), x.todo = slot[g].todo, x.trip = slot[g].trip, NEW n \in 1 .. Len(x.todo[1].calls),
         slot' = [slot EXCEPT ![g] = Past(x, n)]
  PROVE  Walks(g)
<1>1. g \in Passengers /\ Awake(g) /\ slot[g] # Done
  BY OnFacts DEF BenchIInv
<1> QED BY <1>1, PastOnItsWay DEF Walks

LEMMA WalksNext1 ==
  ASSUME BenchIInv, NEW g \in Goroutine, NEW pc, pc # "done", NEW names, On(g, pc, names), Next1(g)
  PROVE  Walks(g)
<1>1. SlotCore(slot[g]) /\ 1 \in 1 .. Len(slot[g].todo[1].calls)
  BY OnFacts DEF BenchIInv, SlotOK
<1>2. slot' = [slot EXCEPT ![g] = Past(slot[g], 1)]
  BY DEF Next1
<1> QED BY <1>1, <1>2, WalksPast

LEMMA WalksFails ==
  ASSUME BenchIInv, NEW g \in Goroutine, NEW pc, pc # "done", NEW names, On(g, pc, names),
         NEW kind \in Critical \cup {"timeout", "application"}, Fails(g, kind)
  PROVE  Walks(g)
<1>1. g \in Passengers /\ Awake(g) /\ slot[g] # Done /\ SlotCore(slot[g])
  BY OnFacts DEF BenchIInv, SlotOK
<1> DEFINE n == Len(slot[g].todo[1].calls)
<1>2. /\ \/ slot' = [slot EXCEPT ![g] = Done]
         \/ slot' = [slot EXCEPT ![g] = Past(slot[g], n)]
      /\ n \in 1 .. n
  BY <1>1, FailsOK DEF BenchIInv
<1> HIDE DEF n
<1>3. CASE slot' = [slot EXCEPT ![g] = Done]
  <2>1. OnItsWay(slot[g], Done)
    BY DEF OnItsWay
  <2> QED BY <1>1, <1>3, <2>1 DEF Walks
<1>4. CASE slot' = [slot EXCEPT ![g] = Past(slot[g], n)]
  BY <1>1, <1>2, <1>4, WalksPast DEF n
<1> QED BY <1>2, <1>3, <1>4

LEMMA WalksInPlace ==
  ASSUME BenchIInv, NEW g \in Goroutine, NEW pc, pc # "done", NEW names, On(g, pc, names),
         NEW x, x # Done, x.todo = slot[g].todo, x.trip = slot[g].trip, slot' = [slot EXCEPT ![g] = x]
  PROVE  Walks(g)
<1>1. g \in Passengers /\ Awake(g) /\ slot[g] # Done
  BY OnFacts DEF BenchIInv
<1>2. OnItsWay(slot[g], x)
  BY DEF OnItsWay
<1> QED BY <1>1, <1>2 DEF Walks

(* What it books, it has reserved for its trip.                            *)
Enters(g) == \A i \in New : booked'[i].trip = slot[g].trip /\ Left(slot[g].todo, ReserveCalls)

LEMMA ReservesWalks ==
  ASSUME BenchIInv, NEW g \in Goroutine, Reserves(g)
  PROVE  Walks(g) /\ Enters(g)
<1> DEFINE s == slot[g]
           given == GivenSeats(s.trip, Asked(g))
           b == [trip |-> s.trip, seats |-> given, status |-> "held"]
           id == IF given = {} THEN 0 ELSE Len(booked) + 1
           x == [s EXCEPT !.pc = "served", !.id = id]
<1>1. /\ On(g, "calling", ReserveCalls)
      /\ booked' = IF given = {} THEN booked ELSE Append(booked, b)
      /\ given # {} => b \in Booking
      /\ slot' = [slot EXCEPT ![g] = x]
      /\ x # Done /\ x.trip = s.trip /\ x.todo = s.todo
  BY ReservesCases
<1>2. b.trip = s.trip
  OBVIOUS
<1> HIDE DEF x, id, b, given
<1>3. Walks(g)
  BY <1>1, WalksInPlace
<1>4. /\ s # Done /\ Call(s) \in ReserveCalls /\ SlotCore(s) /\ 1 \in DOMAIN s.todo[1].calls
  BY <1>1, OnFacts DEF BenchIInv, SlotOK
<1>5. Left(s.todo, ReserveCalls)
  <2>1. s.todo \in Seq(BlockType) /\ s.todo # << >>
    BY <1>4 DEF SlotCore, TodoOK
  <2>2. 1 \in DOMAIN s.todo /\ Has(s.todo[1].calls, ReserveCalls)
    BY <1>4, <2>1 DEF Has, Call
  <2> QED BY <2>2 DEF Left
<1>6. \A i \in New : booked'[i].trip = s.trip
  <2>1. booked \in Seq(Booking)
    BY DEF BenchIInv, Books
  <2>2. CASE given = {}
    BY <1>1, <2>2 DEF New
  <2>3. CASE given # {}
    <3>1. booked' = Append(booked, b)
      BY <1>1, <2>3
    <3>2. DOMAIN booked' = DOMAIN booked \cup {Len(booked) + 1} /\ booked'[Len(booked) + 1] = b
      BY <1>1, <2>1, <2>3, <3>1, AppendOK
    <3> QED BY <1>2, <3>2 DEF New
  <2> QED BY <2>2, <2>3
<1> QED BY <1>3, <1>5, <1>6 DEF Enters

LEMMA NoNew == ASSUME DOMAIN booked' = DOMAIN booked, NEW g  PROVE Enters(g)
BY DEF Enters, New

LEMMA HearsReserveWalks == ASSUME BenchIInv, NEW g \in Goroutine, HearsReserve(g)  PROVE Walks(g)
<1>1. On(g, "served", ReserveCalls)
  BY HearsReserveCases
<1>2. CASE Next1(g)
  BY <1>1, <1>2, WalksNext1
<1>3. ASSUME NEW kind \in {"application", "taken seat sold"}, Fails(g, kind)  PROVE Walks(g)
  <2>1. kind \in Critical \cup {"timeout", "application"}
    BY DEF Critical
  <2> QED BY <1>1, <1>3, <2>1, WalksFails
<1>4. CASE slot' = [slot EXCEPT ![g].pc = "approved"]
  <2> DEFINE x == [slot[g] EXCEPT !.pc = "approved"]
  <2>1. slot[g] \in SlotType
    BY <1>1, OnFacts DEF BenchIInv, SlotOK, SlotCore
  <2>2. slot' = [slot EXCEPT ![g] = x]
    BY <1>4 DEF BenchIInv, Owners
  <2>3. x # Done /\ x.todo = slot[g].todo /\ x.trip = slot[g].trip
    <3>1. x.pc = "approved"
      BY <2>1 DEF SlotType
    <3> QED BY <2>1, <3>1 DEF SlotType, Done
  <2> HIDE DEF x
  <2> QED BY <1>1, <2>2, <2>3, WalksInPlace
<1> QED BY <1>2, <1>3, <1>4, HearsReserveCases

LEMMA AddsWalks == ASSUME BenchIInv, NEW g \in Goroutine, Adds(g)  PROVE Walks(g)
<1> DEFINE s == slot[g]
           t == [s EXCEPT !.won = s.won + 1]
           x == [s EXCEPT !.pc = "added"]
<1>1. /\ On(g, "approved", ReserveCalls)
      /\ slot' = [slot EXCEPT ![g] = Past(t, 1)] \/ slot' = [slot EXCEPT ![g] = x]
  BY DEF Adds, ReserveCalls
<1>2. SlotCore(s) /\ s \in SlotType /\ 1 \in 1 .. Len(s.todo[1].calls)
  BY <1>1, OnFacts DEF BenchIInv, SlotOK, SlotCore
<1>3. t \in SlotType /\ t.trip = s.trip /\ t.todo = s.todo /\ t.asked = s.asked
  BY <1>2 DEF SlotType
<1>4. x.trip = s.trip /\ x.todo = s.todo /\ x.pc = "added"
  BY <1>2 DEF SlotType
<1> HIDE DEF t, x
<1>5. SlotCore(t)
  BY <1>2, <1>3 DEF SlotCore
<1>6. x # Done
  BY <1>4 DEF Done
<1> QED BY <1>1, <1>2, <1>3, <1>4, <1>5, <1>6, WalksPast, WalksInPlace

LEMMA CommitsWalks ==
  ASSUME BenchIInv, NEW g \in Goroutine, Commits(g)
  PROVE  Walks(g) /\ DOMAIN booked' = DOMAIN booked
<1> DEFINE s == slot[g]
           x == [s EXCEPT !.pc = "served"]
<1>1. /\ On(g, "calling", {"commit"})
      /\ booked' = [booked EXCEPT ![s.id].status = "paid"]
      /\ slot' = [slot EXCEPT ![g].pc = "served"]
  BY DEF Commits
<1>2. s \in SlotType
  BY <1>1, OnFacts DEF BenchIInv, SlotOK, SlotCore
<1>3. slot' = [slot EXCEPT ![g] = x]
  BY <1>1 DEF BenchIInv, Owners
<1>4. x.trip = s.trip /\ x.todo = s.todo /\ x.pc = "served"
  BY <1>2 DEF SlotType
<1> HIDE DEF x
<1>5. x # Done
  BY <1>4 DEF Done
<1> QED BY <1>1, <1>3, <1>4, <1>5, WalksInPlace

LEMMA CancelsWalks ==
  ASSUME BenchIInv, NEW g \in Goroutine, Cancels(g)
  PROVE  Walks(g) /\ DOMAIN booked' = DOMAIN booked
<1> DEFINE s == slot[g]
           i == NextKept(g)
           x == [s EXCEPT !.pc = "served", !.id = i, !.kept = s.kept \ {i}]
<1>1. /\ On(g, "calling", {"cancel"})
      /\ booked' = [booked EXCEPT ![i].status = "gone"]
      /\ slot' = [slot EXCEPT ![g].pc = "served", ![g].id = i, ![g].kept = @ \ {i}]
  BY DEF Cancels
<1>2. s \in SlotType
  BY <1>1, OnFacts DEF BenchIInv, SlotOK, SlotCore
<1> HIDE DEF i
<1>3. slot' = [slot EXCEPT ![g] = x]
  BY <1>1 DEF BenchIInv, Owners
<1>4. x.trip = s.trip /\ x.todo = s.todo /\ x.pc = "served"
  BY <1>2 DEF SlotType
<1> HIDE DEF x
<1>5. x # Done
  BY <1>4 DEF Done
<1> QED BY <1>1, <1>3, <1>4, <1>5, WalksInPlace

LEMMA HearsCommitWalks == ASSUME BenchIInv, NEW g \in Goroutine, HearsCommit(g)  PROVE Walks(g)
<1> DEFINE s == slot[g]
           t == [s EXCEPT !.kept = s.kept \cup {s.id}]
<1>1. On(g, "served", {"commit"}) /\ slot' = [slot EXCEPT ![g] = Past(t, 1)]
  BY DEF HearsCommit
<1>2. SlotCore(s) /\ s \in SlotType /\ 1 \in 1 .. Len(s.todo[1].calls)
  BY <1>1, OnFacts DEF BenchIInv, SlotOK, SlotCore
<1>3. t \in SlotType /\ t.trip = s.trip /\ t.todo = s.todo /\ t.asked = s.asked
  BY <1>2 DEF SlotType
<1> HIDE DEF t
<1>4. SlotCore(t)
  BY <1>2, <1>3 DEF SlotCore
<1> QED BY <1>1, <1>2, <1>3, <1>4, WalksPast

LEMMA MapsWalks == ASSUME BenchIInv, NEW g \in Goroutine, Maps(g)  PROVE Walks(g)
<1> DEFINE s == slot[g]
           x == [s EXCEPT !.asked = FilterTrainSeats(s.trip)]
<1>1. On(g, "calling", {"map"}) /\ slot' = [slot EXCEPT ![g] = Past(x, 1)]
  BY DEF Maps
<1>2. g \in Passengers /\ slot[g] # Done /\ Awake(g) /\ SlotCore(s) /\ s \in SlotType /\ 1 \in 1 .. Len(s.todo[1].calls)
  BY <1>1, OnFacts DEF BenchIInv, SlotOK, SlotCore
<1>3. s.trip \in AnyTrip /\ 1 \in DOMAIN CarsOf[s.trip.train]
  BY <1>2, BenchAssumption DEF SlotType
<1> DEFINE seats == FilterTrainSeats(s.trip)
<1>4. seats \subseteq Nat /\ IsFiniteSet(seats) /\ Cardinality(seats) <= 2
  BY <1>3, FreePlaces, FirstOfFew DEF FilterTrainSeats
<1> HIDE DEF seats
<1>5. x \in SlotType /\ x.trip = s.trip /\ x.todo = s.todo /\ x.asked = seats
  BY <1>2, <1>4 DEF SlotType, seats
<1> HIDE DEF x
<1>6. SlotCore(x)
  BY <1>2, <1>4, <1>5 DEF SlotCore, People
<1> QED BY <1>1, <1>2, <1>5, <1>6, WalksPast

LEMMA LosesAnswerWalks == ASSUME BenchIInv, NEW g \in Goroutine, LosesAnswer(g)  PROVE Walks(g)
<1>1. PICK pc \in {"calling", "served", "added"} : \E names : On(g, pc, names)
  BY LosesAnswerCases
<1>2. PICK names : On(g, pc, names)
  BY <1>1
<1>3. ASSUME NEW kind \in LossKind, Fails(g, kind)  PROVE Walks(g)
  BY <1>2, <1>3, LossKinds, WalksFails
<1>4. Next1(g) => Walks(g)
  BY <1>2, WalksNext1
<1> QED BY <1>3, <1>4, LosesAnswerCases

LEMMA CountsWalks == ASSUME BenchIInv, NEW g \in Goroutine, Counts(g)  PROVE Walks(g)
<1>1. On(g, "calling", {"count"})
  BY DEF Counts
<1>2. slot[g].won \in Nat
  BY <1>1, OnFacts, NotDone DEF BenchIInv, SlotOK
<1>3. Fails(g, "application") \/ Next1(g) \/ Fails(g, "sold twice")
  BY <1>2, CountsCases
<1>4. ASSUME NEW kind \in {"application", "sold twice"}, Fails(g, kind)  PROVE Walks(g)
  <2>1. kind \in Critical \cup {"timeout", "application"}
    BY DEF Critical
  <2> QED BY <1>1, <1>4, <2>1, WalksFails
<1> QED BY <1>1, <1>3, <1>4, WalksNext1

(* Every step of a passenger, short of the panic.                          *)
LEMMA PassengerWalks ==
  ASSUME BenchIInv, NEW g \in Goroutine, Passenger(g)
  PROVE  /\ g \in Passengers /\ Awake(g)
         /\ (Walks(g) /\ Enters(g)) \/ UNCHANGED <<slot, booked>>
<1>1. CASE Reserves(g)
  BY <1>1, ReservesWalks DEF Walks
<1>2. CASE Asks(g)
  <2>1. On(g, "calling", Plain) /\ booked' = booked
    BY <1>2 DEF Asks
  <2>2. PICK n \in 1 .. Len(slot[g].todo[1].calls) : slot' = [slot EXCEPT ![g] = Past(slot[g], n)]
    BY <1>2, AsksOK DEF BenchIInv
  <2>3. SlotCore(slot[g])
    BY <2>1, OnFacts DEF BenchIInv, SlotOK
  <2> QED BY <2>1, <2>2, <2>3, WalksPast, NoNew DEF Walks
<1>3. CASE AssertsReserve(g)
  <2>1. On(g, "added", {"reserve", "vague"}) /\ booked' = booked /\ (Next1(g) \/ Fails(g, "too few seats"))
    BY <1>3 DEF AssertsReserve
  <2>2. "too few seats" \in Critical
    BY DEF Critical
  <2> QED BY <2>1, <2>2, WalksNext1, WalksFails, NoNew DEF Walks
<1>4. CASE HearsCancel(g)
  <2>1. On(g, "served", {"cancel"}) /\ booked' = booked /\ Next1(g)
    BY <1>4 DEF HearsCancel
  <2> QED BY <2>1, WalksNext1, NoNew DEF Walks
<1>5. CASE NothingToCancel(g) \/ AsksRegardless(g)
  <2>1. On(g, "calling", {"cancel", "card", "foreignCancel"}) /\ booked' = booked /\ Next1(g)
    BY <1>5 DEF NothingToCancel, AsksRegardless, On
  <2> QED BY <2>1, WalksNext1, NoNew DEF Walks
<1>6. CASE AsksForWrongSeat(g)
  <2>1. On(g, "calling", {"wrongSeat"}) /\ booked' = booked /\ (Next1(g) \/ slot' = slot)
    BY <1>6 DEF AsksForWrongSeat
  <2>2. g \in Passengers /\ Awake(g)
    BY <2>1, OnFacts DEF BenchIInv
  <2> QED BY <2>1, <2>2, WalksNext1, NoNew
<1>7. CASE Maps(g) \/ HearsReserve(g) \/ Adds(g) \/ HearsCommit(g) \/ Counts(g) \/ LosesAnswer(g)
  <2>1. booked' = booked
    BY <1>7, HearsReserveCases, LosesAnswerCases DEF Maps, Adds, HearsCommit, Counts
  <2> QED BY <1>7, <2>1, MapsWalks, HearsReserveWalks, AddsWalks, HearsCommitWalks, CountsWalks, LosesAnswerWalks,
             NoNew DEF Walks
<1>8. CASE Commits(g) \/ Cancels(g)
  BY <1>8, CommitsWalks, CancelsWalks, NoNew DEF Walks
<1> QED BY <1>1, <1>2, <1>3, <1>4, <1>5, <1>6, <1>7, <1>8 DEF Passenger

(* A passenger's errors are none of a sign, and the pretest's its own.     *)
MildErrs(g) == /\ hurt \subseteq hurt' /\ ("sign" \in errs'.msgs => "sign" \in errs.msgs)
               /\ g # driver => errs'.pretest = errs.pretest

LEMMA PassengerErrs == ASSUME BenchIInv, NEW g \in Goroutine, Passenger(g)  PROVE MildErrs(g)
<1>1. ASSUME NEW pc, pc # "done", NEW names, On(g, pc, names),
             NEW kind \in LossKind \cup {"taken seat sold", "too few seats", "sold twice"}, Fails(g, kind),
             hurt \subseteq hurt'
      PROVE  MildErrs(g)
  <2>0. kind \in Critical \cup {"timeout", "application"} /\ kind # "sign"
    BY DEF Critical, LossKind
  <2>1. g \in Passengers /\ slot[g] # Done /\ errs \in ErrsType
    BY <1>1, OnFacts DEF BenchIInv, Stages
  <2>2. errs' = WithError(g, kind, slot[g].todo[1].adds) /\ slot[g].todo[1].adds \in Nat
    BY <1>1, <2>0, <2>1, FailsOK DEF BenchIInv
  <2>3. errs'.msgs \subseteq errs.msgs \cup {kind} /\ (g # driver => errs'.pretest = errs.pretest)
    BY <2>0, <2>1, <2>2, WithErrorOK
  <2> QED BY <1>1, <2>0, <2>3 DEF MildErrs
<1>2. ASSUME errs' = errs, hurt \subseteq hurt'  PROVE MildErrs(g)
  BY <1>2 DEF MildErrs
<1>3. CASE HearsReserve(g)
  <2>1. On(g, "served", ReserveCalls) /\ hurt' = hurt
    BY <1>3, HearsReserveCases
  <2>2. errs' = errs \/ Fails(g, "application") \/ Fails(g, "taken seat sold")
    BY <1>3, HearsReserveCases
  <2> QED BY <1>1, <1>2, <2>1, <2>2 DEF LossKind
<1>4. CASE AssertsReserve(g)
  <2>1. /\ On(g, "added", {"reserve", "vague"}) /\ hurt' = hurt
        /\ errs' = errs \/ Fails(g, "too few seats")
    BY <1>4 DEF AssertsReserve
  <2> QED BY <1>1, <1>2, <2>1
<1>5. CASE Counts(g)
  <2>1. On(g, "calling", {"count"})
    BY <1>5 DEF Counts
  <2>2. slot[g].won \in Nat
    BY <2>1, OnFacts, NotDone DEF BenchIInv, SlotOK
  <2>3. hurt' = hurt /\ (Fails(g, "application") \/ errs' = errs \/ Fails(g, "sold twice"))
    BY <1>5, <2>2, CountsCases
  <2> QED BY <1>1, <1>2, <2>1, <2>3 DEF LossKind
<1>6. CASE LosesAnswer(g)
  <2>0. PICK pc \in {"calling", "served", "added"} : \E names : On(g, pc, names)
    BY <1>6, LosesAnswerCases
  <2>1. PICK names : On(g, pc, names)
    BY <2>0
  <2>2. hurt \subseteq hurt' /\ (errs' = errs \/ \E kind \in LossKind : Fails(g, kind))
    BY <1>6, LosesAnswerCases
  <2> QED BY <1>1, <1>2, <2>1, <2>2
<1>7. CASE \/ Asks(g) \/ AsksRegardless(g) \/ Maps(g) \/ Reserves(g) \/ Adds(g) \/ Commits(g) \/ HearsCommit(g) \/ Cancels(g)
           \/ HearsCancel(g) \/ NothingToCancel(g) \/ AsksForWrongSeat(g)
  <2>1. errs' = errs /\ hurt' = hurt
    BY <1>7 DEF Asks, AsksRegardless, Maps, Reserves, Adds, Commits, HearsCommit, Cancels, HearsCancel, NothingToCancel,
                AsksForWrongSeat
  <2> QED BY <1>2, <2>1
<1> QED BY <1>3, <1>4, <1>5, <1>6, <1>7 DEF Passenger

(* The trips of the load.                                                  *)
LEMMA WalkKeepsTrips ==
  ASSUME BenchIInv, NEW g \in Load, LoadTrips(slot[g]), Walks(g), Enters(g), Grows(g)
  PROVE  /\ LoadTrips(slot'[g])
         /\ \A i \in New : booked'[i].trip \in Trip \cup {VagueTrip}
<1>1. PICK t : OnItsWay(slot[g], t) /\ slot' = [slot EXCEPT ![g] = t]
  BY DEF Walks
<1>2. slot'[g] = t /\ slot[g] # Done
  BY <1>1 DEF Walks, BenchIInv, Owners, Goroutine
<1>3. Owns(slot'[g]) \subseteq Owns(slot[g]) \cup New
  BY DEF Grows, Passengers
<1>4. CASE slot[g].trip \in Trip \cup {VagueTrip}
  BY <1>1, <1>2, <1>4 DEF LoadTrips, OnItsWay, Enters
<1>5. CASE Owns(slot[g]) = {} /\ ~ Left(slot[g].todo, ReserveCalls)
  <2>1. New = {}
    BY <1>5 DEF Enters
  <2> QED BY <1>1, <1>2, <1>3, <1>5, <2>1 DEF LoadTrips, OnItsWay
<1> QED BY <1>2, <1>4, <1>5 DEF LoadTrips

(* Rivals of the tester do not go away.                                    *)
LEMMA RivalsRemain == ASSUME NEW g, Grows(g), Rivals(booked)  PROVE Rivals(booked')
BY DEF Rivals, Grows, Kept

LEMMA OverlapTurned ==
  ASSUME NEW a \in AnyTrip, NEW b \in AnyTrip
  PROVE  Overlap(a.from, a.to, b.from, b.to) <=> Overlap(b.from, b.to, a.from, a.to)
BY DEF Overlap

(* A passenger whose reservations are no rivals of the tester's leaves it  *)
(* its seats.                                                              *)
LEMMA FreeStays ==
  ASSUME BenchIInv, BenchIInv', NEW g \in Load, LoadTrips(slot[g]), Walks(g), Enters(g), Grows(g),
         ~ Rivals(booked'), NEW car
  PROVE  Free(TesterTrip, car)' = Free(TesterTrip, car)
<1> DEFINE Counts2(books, k) ==
             /\ books[k].status # "gone" /\ SameRun(books[k].trip, TesterTrip)
             /\ Overlap(TesterTrip.from, TesterTrip.to, books[k].trip.from, books[k].trip.to)
<1>1. \A k \in New : booked'[k].trip \in Trip \cup {VagueTrip}
  BY WalkKeepsTrips
<1>2. g # tester /\ g \in Passengers /\ Mine(g) = Owns(slot[g])
  BY BenchAssumption DEF Mine, Passengers
<1>3. \A k \in Mine(g) : booked[k].trip \in Trip \cup {VagueTrip}
  <2> SUFFICES ASSUME NEW k \in Owns(slot[g])  PROVE booked[k].trip \in Trip \cup {VagueTrip}
    BY <1>2
  <2>1. booked[k].trip = slot[g].trip /\ slot[g] # Done
    BY <1>2 DEF BenchIInv, Owners, OwnsOK, Owns
  <2> QED BY <2>1 DEF LoadTrips
<1>4. \A k \in DOMAIN booked' : booked'[k].trip \in AnyTrip
  <2> SUFFICES ASSUME NEW k \in DOMAIN booked'  PROVE booked'[k].trip \in AnyTrip
    OBVIOUS
  <2>1. booked' \in Seq(Booking)
    BY DEF BenchIInv, Books
  <2>2. booked'[k] \in Booking
    BY <2>1
  <2> QED BY <2>2 DEF Booking, Served
<1>5. TesterTrip \in AnyTrip
  BY DEF AnyTrip
<1>6. ASSUME NEW k \in DOMAIN booked', booked'[k].trip \in Trip \cup {VagueTrip}
      PROVE  ~ (/\ SameRun(booked'[k].trip, TesterTrip)
                /\ Overlap(TesterTrip.from, TesterTrip.to, booked'[k].trip.from, booked'[k].trip.to))
  <2>1. CASE booked'[k].trip = VagueTrip
    BY <2>1, BenchAssumption DEF SameRun
  <2>2. CASE booked'[k].trip \in Trip
    BY <1>4, <1>5, <2>2, OverlapTurned DEF Rivals
  <2> QED BY <1>6, <2>1, <2>2
<1>7. /\ DOMAIN booked \subseteq DOMAIN booked'
      /\ \A k \in DOMAIN booked : booked'[k].trip = booked[k].trip /\ booked'[k].seats = booked[k].seats
      /\ \A k \in DOMAIN booked \ Mine(g) : booked'[k] = booked[k]
      /\ DOMAIN booked' = DOMAIN booked \cup New
  BY DEF Grows, Kept, New
<1>8. ASSUME NEW k \in New  PROVE k \in DOMAIN booked' /\ ~ Counts2(booked', k)
  <2>1. k \in DOMAIN booked'
    BY <1>8 DEF New
  <2> QED BY <1>1, <1>6, <1>8, <2>1
<1>9. ASSUME NEW k \in DOMAIN booked  PROVE Counts2(booked', k) <=> Counts2(booked, k)
  <2>1. CASE k \in Mine(g)
    BY <1>3, <1>6, <1>7, <1>9, <2>1
  <2>2. CASE k \notin Mine(g)
    BY <1>7, <1>9, <2>2
  <2> QED BY <2>1, <2>2
<1> DEFINE A == {k \in DOMAIN booked : Counts2(booked, k)}
           B == {k \in DOMAIN booked' : Counts2(booked', k)}
<1>10. Free(TesterTrip, car) = car \ UNION {booked[i].seats : i \in A}
  BY DEF Free
<1>11. Free(TesterTrip, car)' = car \ UNION {booked'[i].seats : i \in B}
  BY DEF Free
<1> HIDE DEF Counts2
<1>12. A = B /\ \A i \in A : booked'[i].seats = booked[i].seats
  BY <1>7, <1>8, <1>9
<1> HIDE DEF A, B
<1>13. {booked'[i].seats : i \in B} = {booked[i].seats : i \in A}
  BY <1>12
<1> QED BY <1>10, <1>11, <1>13

(* The tester goes by the number of seats it knows to be left.             *)
LEMMA TurnSees ==
  ASSUME NEW free, NEW s \in Watching, s.remain \in Nat, s.remain = Cardinality(free),
         (s.want = "few" /\ s.remain % 2 = 1) \/ s.want = "none"
  PROVE  TesterSees(TesterTurn(s), free)
<1> DEFINE t == TesterTurn(s)
<1>1. /\ t \in Watching /\ t.want = s.want /\ t.remain = s.remain
      /\ t.pc = IF (s.want = "few" /\ s.remain > TesterFew) \/ (s.want = "none" /\ s.remain > 0) THEN "map" ELSE "look"
  BY TurnOK
<1> HIDE DEF t
<1>2. TesterFew \in Nat
  BY BenchAssumption
<1>3. CASE s.want = "few" /\ s.remain > TesterFew
  <2>1. t.pc = "map" /\ s.remain % 2 = 1
    BY <1>1, <1>3
  <2> QED BY <1>1, <1>3, <2>1 DEF TesterSees, t
<1>4. CASE s.want = "few" /\ ~ (s.remain > TesterFew)
  <2>1. t.pc = "look" /\ s.remain % 2 = 1 /\ s.remain <= TesterFew
    BY <1>1, <1>2, <1>4
  <2> QED BY <1>1, <1>4, <2>1 DEF TesterSees, t
<1>5. CASE s.want = "none" /\ s.remain > 0
  <2>1. t.pc = "map"
    BY <1>1, <1>5
  <2> QED BY <1>1, <1>5, <2>1 DEF TesterSees, t
<1>6. CASE s.want = "none" /\ ~ (s.remain > 0)
  <2>1. t.pc = "look" /\ s.remain = 0
    BY <1>1, <1>6
  <2> QED BY <1>1, <1>6, <2>1 DEF TesterSees, t
<1> QED BY <1>3, <1>4, <1>5, <1>6

(* It is shown the sign it expects.                                        *)
LEMMA SignAsWanted ==
  ASSUME NEW s \in Watching, s.pc \in {"look", "looking"}, TesterSees(s, Free(TesterTrip, TesterCar))
  PROVE  Sign(TesterTrip) = s.want
<1> DEFINE n == Cardinality(Free(TesterTrip, TesterCar))
<1>1. Sign(TesterTrip) = IF n = 0 THEN "none" ELSE IF n < FewSeats THEN "few" ELSE "plenty"
  BY DEF Sign, TesterCar
<1>2. s.remain = n /\ n \in Nat /\ s.want \in Signs
  BY DEF TesterSees, Watching
<1> HIDE DEF n
<1>3. /\ TesterSeats \in Nat /\ FewSeats \in 1 .. TesterSeats /\ TesterFew \in 1 .. FewSeats
      /\ FewSeats % 2 = 1 => TesterFew < FewSeats
  BY BenchAssumption
<1>4. CASE s.want = "plenty"
  <2>1. n = TesterSeats
    BY <1>2, <1>4 DEF TesterSees
  <2>2. n # 0 /\ ~ (n < FewSeats)
    BY <1>3, <2>1
  <2> QED BY <1>1, <1>4, <2>2
<1>5. CASE s.want = "few"
  <2>1. s.pc = "look"
    BY <1>5 DEF TesterSees
  <2>2. n % 2 = 1 /\ n <= TesterFew
    BY <1>2, <1>5, <2>1 DEF TesterSees
  <2>3. n # 0 /\ n < FewSeats
    BY <1>2, <1>3, <2>2
  <2> QED BY <1>1, <1>5, <2>3
<1>6. CASE s.want = "none"
  <2>1. s.pc = "look"
    BY <1>6 DEF TesterSees
  <2>2. n = 0
    BY <1>2, <1>6, <2>1 DEF TesterSees
  <2> QED BY <1>1, <1>6, <2>2
<1> QED BY <1>2, <1>4, <1>5, <1>6 DEF Signs

(* After a sign that was right it waits for the next.                      *)
LEMMA NextSignSees ==
  ASSUME NEW s \in Watching, NEW free, TesterSees(s, free), s.pc \in {"look", "looking"},
         AfterSign(s).pc # "over"
  PROVE  TesterSees(AfterSign(s), free)
<1>1. s.remain \in Nat /\ s.remain = Cardinality(free) /\ s.want \in Signs
  BY DEF TesterSees, Watching
<1>2. CASE s.want = "plenty"
  <2> DEFINE u == [s EXCEPT !.want = "few"]
  <2>1. u \in Watching /\ u.want = "few" /\ u.remain = s.remain /\ AfterSign(s) = TesterTurn(u)
    BY <1>2, WantsNext, AfterSignOK DEF Signs
  <2>2. s.remain % 2 = 1
    BY <1>2, BenchAssumption DEF TesterSees
  <2> HIDE DEF u
  <2> QED BY <1>1, <2>1, <2>2, TurnSees
<1>3. CASE s.want = "few"
  <2> DEFINE u == [s EXCEPT !.want = "none"]
  <2>1. u \in Watching /\ u.want = "none" /\ u.remain = s.remain /\ AfterSign(s) = TesterTurn(u)
    BY <1>3, WantsNext, AfterSignOK DEF Signs
  <2> HIDE DEF u
  <2> QED BY <1>1, <2>1, TurnSees
<1>4. CASE s.want = "none"
  BY <1>4, AfterSignOK, TesterOverOK
<1> QED BY <1>1, <1>2, <1>3, <1>4 DEF Signs

LEMMA FirstSome ==
  ASSUME NEW S, S \subseteq Nat, IsFiniteSet(S), S # {}
  PROVE  /\ FirstOf(S, 2) # {} /\ Cardinality(FirstOf(S, 2)) \in Nat
         /\ Cardinality(S) > 1 => Cardinality(FirstOf(S, 2)) = 2
         /\ Cardinality(S \ FirstOf(S, 2)) = Cardinality(S) - Cardinality(FirstOf(S, 2))
         /\ Cardinality(S \ FirstOf(S, 2)) \in Nat
<1> DEFINE F == FirstOf(S, 2)
<1>1. F \subseteq S /\ IsFiniteSet(F) /\ Cardinality(F) <= 2
  BY FirstOfFew
<1>2. Cardinality(F) \in Nat /\ Cardinality(S) \in Nat
  BY <1>1, FS_CardinalityType
<1>3. Cardinality(F) < 2 => F = S
  BY FirstTwo
<1> HIDE DEF F
<1>4. F # {}
  <2>1. F = {} => Cardinality(F) = 0
    BY FS_EmptySet
  <2> QED BY <1>3, <2>1
<1>5. Cardinality(S) > 1 => Cardinality(F) = 2
  <2>1. CASE Cardinality(F) < 2
    <3>1. F = S
      BY <1>3, <2>1
    <3> QED BY <1>2, <2>1, <3>1
  <2> QED BY <1>1, <1>2, <2>1
<1>6. S \cap F = F
  BY <1>1
<1>7. IsFiniteSet(S \ F) /\ Cardinality(S \ F) = Cardinality(S) - Cardinality(F)
  BY <1>6, FS_Difference
<1>8. Cardinality(S \ F) \in Nat
  BY <1>7, FS_CardinalityType
<1> QED BY <1>2, <1>4, <1>5, <1>7, <1>8 DEF F

(* What the tester reserves is free no more.                               *)
LEMMA FreeShrinks ==
  ASSUME booked \in Seq(Booking), NEW b \in Booking, b.trip = TesterTrip, b.status = "held",
         booked' = Append(booked, b), NEW car
  PROVE  Free(TesterTrip, car)' = Free(TesterTrip, car) \ b.seats
<1> DEFINE Way(t) == SameRun(t, TesterTrip) /\ Overlap(TesterTrip.from, TesterTrip.to, t.from, t.to)
           A == {k \in DOMAIN booked : booked[k].status # "gone" /\ Way(booked[k].trip)}
           B == {k \in DOMAIN booked' : booked'[k].status # "gone" /\ Way(booked'[k].trip)}
           new == Len(booked) + 1
<1>1. /\ DOMAIN booked' = DOMAIN booked \cup {new} /\ new \notin DOMAIN booked
      /\ booked'[new] = b /\ \A k \in DOMAIN booked : booked'[k] = booked[k]
  BY AppendOK
<1>2. Way(TesterTrip)
  <2>1. TesterTrip.from \in Int /\ TesterTrip.to \in Int /\ TesterTrip.from # TesterTrip.to
    BY BenchAssumption DEF AnyTrip, Served
  <2>2. Overlap(TesterTrip.from, TesterTrip.to, TesterTrip.from, TesterTrip.to)
    BY <2>1 DEF Overlap, Segments
  <2> QED BY <2>2 DEF SameRun
<1>3. Free(TesterTrip, car) = car \ UNION {booked[i].seats : i \in A}
  BY DEF Free
<1>4. Free(TesterTrip, car)' = car \ UNION {booked'[i].seats : i \in B}
  BY DEF Free
<1> HIDE DEF Way, new
<1>5. B = A \cup {new} /\ new \notin A
  BY <1>1, <1>2
<1>6. \A i \in A : booked'[i].seats = booked[i].seats
  BY <1>1
<1> HIDE DEF A, B
<1>7. ASSUME NEW x  PROVE x \in UNION {booked'[i].seats : i \in B}
                            <=> x \in UNION {booked[i].seats : i \in A} \/ x \in b.seats
  <2>1. x \in UNION {booked'[i].seats : i \in B} <=> \E i \in B : x \in booked'[i].seats
    OBVIOUS
  <2>2. x \in UNION {booked[i].seats : i \in A} <=> \E i \in A : x \in booked[i].seats
    OBVIOUS
  <2>3. (\E i \in B : x \in booked'[i].seats) <=> (\E i \in A : x \in booked'[i].seats) \/ x \in booked'[new].seats
    BY <1>5
  <2> QED BY <1>1, <1>6, <2>1, <2>2, <2>3
<1> QED BY <1>3, <1>4, <1>7

(* As long as nobody else touches its seats, the tester knows.             *)
LEMMA KnowsStill ==
  ASSUME TesterKnows, slot'[tester] = slot[tester], hurt \subseteq hurt', NEW g, Grows(g),
         ~ Rivals(booked') => Free(TesterTrip, TesterCar)' = Free(TesterTrip, TesterCar)
  PROVE  TesterKnows'
<1>1. ~ Rivals(booked') => ~ Rivals(booked)
  BY RivalsRemain
<1> QED BY <1>1 DEF TesterKnows

LEMMA TesterReservesSees ==
  ASSUME BenchIInv, TesterReserves, TesterSees(slot[tester], Free(TesterTrip, TesterCar)), "tester" \notin hurt'
  PROVE  TesterSees(slot'[tester], Free(TesterTrip, TesterCar)')
<1> DEFINE s == slot[tester]
           given == GivenSeats(TesterTrip, s.asked)
           b == [trip |-> TesterTrip, seats |-> given, status |-> "held"]
           free == Free(TesterTrip, TesterCar)
           u == [pc |-> "map", want |-> s.want, remain |-> s.remain - Cardinality(s.asked)]
<1>1. /\ s \in Reserving /\ IsFiniteSet(s.asked) /\ Cardinality(s.asked) <= People
      /\ b \in Booking
      /\ booked' = IF given = {} THEN booked ELSE Append(booked, b)
      /\ (given # {} /\ slot' = [slot EXCEPT ![tester] = TesterTurn(u)]) \/ (given = {} \/ "tester" \in hurt')
  BY TesterReservesCases DEF BenchIInv
<1>2. TesterTrip \in AnyTrip /\ TesterTrip \in Served /\ 1 \in DOMAIN CarsOf[TesterTrip.train]
  BY BenchAssumption DEF AnyTrip
<1>3. free \subseteq Nat /\ IsFiniteSet(free)
  BY <1>2, FreePlaces DEF TesterCar
<1>4. b.trip = TesterTrip /\ b.status = "held" /\ b.seats = given
  OBVIOUS
<1>5. s.pc = "reserve" /\ s.want \in Signs /\ s.remain \in Int
  BY <1>1 DEF Reserving
<1> HIDE DEF free
<1>6. s.remain \in Nat /\ s.remain = Cardinality(free) /\ s.asked = FirstOf(free, 2)
  BY <1>5 DEF TesterSees, free
<1>7. s.want # "plenty" /\ s.remain > 0
  <2>1. s.want # "plenty"
    BY <1>5 DEF TesterSees
  <2>2. TesterFew \in Nat
    BY BenchAssumption
  <2>3. s.want = "few" => s.remain > TesterFew
    BY <1>5 DEF TesterSees
  <2>4. s.want = "none" => s.remain > 0
    BY <1>5 DEF TesterSees
  <2> QED BY <1>5, <1>6, <2>1, <2>2, <2>3, <2>4 DEF Signs
<1>8. free # {}
  <2>1. free = {} => Cardinality(free) = 0
    BY FS_EmptySet
  <2> QED BY <1>6, <1>7, <2>1
<1>9. /\ s.asked # {} /\ Cardinality(s.asked) \in Nat
      /\ Cardinality(free) > 1 => Cardinality(s.asked) = 2
      /\ Cardinality(free \ s.asked) = Cardinality(free) - Cardinality(s.asked)
      /\ Cardinality(free \ s.asked) \in Nat
  BY <1>3, <1>6, <1>8, FirstSome
<1>10. given = s.asked
  <2>1. s.asked \subseteq free
    BY <1>3, <1>6, FirstOfFew
  <2>2. s.asked \subseteq Free(TesterTrip, CarsOf[TesterTrip.train][1])
    BY <2>1 DEF free, TesterCar
  <2> QED BY <1>1, <1>2, <1>9, <2>2, GivenOK
<1>11. slot' = [slot EXCEPT ![tester] = TesterTurn(u)] /\ booked' = Append(booked, b)
  BY <1>1, <1>9, <1>10
<1>12. slot'[tester] = TesterTurn(u)
  BY <1>11 DEF BenchIInv, Owners, Goroutine
<1> HIDE DEF b, given
<1>13. Free(TesterTrip, TesterCar)' = free \ s.asked
  <2>1. booked \in Seq(Booking)
    BY DEF BenchIInv, Books
  <2> QED BY <1>1, <1>4, <1>10, <1>11, <2>1, FreeShrinks DEF free, TesterCar
<1>14. u \in Watching /\ u.want = s.want /\ u.remain = Cardinality(free \ s.asked) /\ u.remain \in Nat
  BY <1>5, <1>6, <1>9 DEF Watching
<1>15. (u.want = "few" /\ u.remain % 2 = 1) \/ u.want = "none"
  <2>1. CASE s.want = "few"
    <3>1. s.remain % 2 = 1 /\ s.remain > TesterFew /\ TesterFew >= 1 /\ TesterFew \in Nat
      BY <1>5, <2>1, BenchAssumption DEF TesterSees
    <3>2. s.remain > 1 /\ Cardinality(s.asked) = 2
      BY <1>6, <1>9, <3>1
    <3>3. u.remain = s.remain - 2
      BY <3>2
    <3> HIDE DEF u
    <3>4. u.remain % 2 = 1
      BY <1>6, <3>1, <3>3
    <3> QED BY <1>14, <2>1, <3>4
  <2>2. CASE s.want = "none"
    BY <1>14, <2>2
  <2> QED BY <1>5, <1>7, <2>1, <2>2 DEF Signs
<1> HIDE DEF u
<1>16. TesterSees(TesterTurn(u), free \ s.asked)
  BY <1>14, <1>15, TurnSees
<1> QED BY <1>12, <1>13, <1>16

(* The tester knows after its step, and finds the sign right.              *)
LEMMA TesterKnowsNext ==
  ASSUME BenchIInv, TesterKnows, Tester, NEW g, Grows(g)
  PROVE  /\ TesterKnows' /\ hurt \subseteq hurt' /\ errs'.pretest = errs.pretest
         /\ "sign" \in errs'.msgs => "sign" \in errs.msgs \/ "tester" \in hurt' \/ Rivals(booked')
<1> DEFINE s == slot[tester]
           free == Free(TesterTrip, TesterCar)
<1>0. tester \in DOMAIN slot /\ (~ Rivals(booked') => ~ Rivals(booked))
  BY RivalsRemain DEF BenchIInv, Owners, Goroutine
<1>1. CASE TesterStarts
  <2>1. /\ s \in Watching /\ s.pc = "look" /\ s.want = "plenty"
        /\ UNCHANGED <<errs, booked, hurt>> /\ slot' = [slot EXCEPT ![tester].pc = "looking"]
    BY <1>1, TesterIsOn DEF TesterStarts, BenchIInv
  <2>2. /\ slot'[tester].pc = "looking" /\ slot'[tester].want = s.want /\ slot'[tester].remain = s.remain
    BY <1>0, <2>1 DEF Watching
  <2>3. free' = free
    BY <2>1 DEF Free
  <2>4. TesterSees(s, free) => TesterSees(slot'[tester], free)
    BY <2>1, <2>2 DEF TesterSees
  <2> QED BY <2>1, <2>3, <2>4 DEF TesterKnows
<1>2. CASE TesterLooks
  <2>1. /\ s \in Watching /\ s.pc \in {"look", "looking"}
        /\ UNCHANGED <<booked, hurt>>
        /\ \/ Sign(TesterTrip) = s.want /\ slot' = [slot EXCEPT ![tester] = AfterSign(s)] /\ errs' = errs
           \/ /\ Sign(TesterTrip) # s.want /\ slot' = [slot EXCEPT ![tester] = TesterOver]
              /\ errs' = WithError(tester, "sign", 1)
    BY <1>2, TesterIsOn DEF TesterLooks, TesterOn, BenchIInv
  <2>2. free' = free
    BY <2>1 DEF Free
  <2>3. CASE Sign(TesterTrip) = s.want /\ slot' = [slot EXCEPT ![tester] = AfterSign(s)] /\ errs' = errs
    <3>1. slot'[tester] = AfterSign(s)
      BY <1>0, <2>3
    <3>2. TesterSees(s, free) /\ AfterSign(s).pc # "over" => TesterSees(AfterSign(s), free)
      BY <2>1, NextSignSees
    <3>3. s.pc # "over"
      BY <2>1
    <3> QED BY <2>1, <2>2, <2>3, <3>1, <3>2, <3>3 DEF TesterKnows
  <2>4. CASE Sign(TesterTrip) # s.want /\ slot' = [slot EXCEPT ![tester] = TesterOver]
             /\ errs' = WithError(tester, "sign", 1)
    <3>1. slot'[tester].pc = "over"
      BY <1>0, <2>4, TesterOverOK
    <3>2. ~ TesterSees(s, free)
      BY <2>1, <2>4, SignAsWanted
    <3>3. "tester" \in hurt \/ Rivals(booked)
      <4>1. s.pc # "over"
        BY <2>1
      <4> QED BY <3>2, <4>1 DEF TesterKnows
    <3>4. errs'.pretest = errs.pretest
      <4>1. "sign" \in Critical /\ 1 \in Nat /\ errs \in ErrsType /\ tester # driver
        BY BenchAssumption DEF Critical, BenchIInv, Stages
      <4> QED BY <2>4, <4>1, WithErrorOK
    <3> QED BY <2>1, <3>1, <3>3, <3>4 DEF TesterKnows
  <2> QED BY <2>1, <2>3, <2>4
<1>3. CASE TesterMaps
  <2> DEFINE x == [pc |-> "reserve", want |-> s.want, remain |-> s.remain, asked |-> FilterTrainSeats(TesterTrip)]
  <2>1. /\ TesterOn("map") /\ s \in Watching /\ slot' = [slot EXCEPT ![tester] = x]
        /\ UNCHANGED <<errs, booked, hurt>>
    BY <1>3, TesterMapsOK DEF BenchIInv
  <2>2. slot'[tester] = x /\ s.pc = "map"
    BY <1>0, <2>1 DEF TesterOn
  <2>3. free' = free
    BY <2>1 DEF Free
  <2>4. x.asked = FirstOf(free, 2) /\ x.pc = "reserve" /\ x.want = s.want /\ x.remain = s.remain
    BY DEF FilterTrainSeats, TesterCar
  <2> HIDE DEF x, free
  <2>5. TesterSees(s, free) => TesterSees(x, free)
    BY <2>2, <2>4 DEF TesterSees
  <2> QED BY <2>1, <2>2, <2>3, <2>5 DEF TesterKnows, free
<1>4. CASE TesterReserves
  <2>1. /\ s.pc = "reserve" /\ UNCHANGED errs /\ hurt \subseteq hurt'
    BY <1>4, TesterReservesCases DEF BenchIInv, TesterOn
  <2>2. TesterSees(s, free) /\ "tester" \notin hurt' => TesterSees(slot'[tester], free')
    BY <1>4, TesterReservesSees
  <2> HIDE DEF free
  <2>3. TesterKnows'
    BY <1>0, <2>1, <2>2 DEF TesterKnows, free
  <2> QED BY <2>1, <2>3
<1>5. CASE TesterLosesAnswer
  <2>1. UNCHANGED errs /\ hurt' = hurt \cup {"tester"}
    BY <1>5 DEF TesterLosesAnswer
  <2> QED BY <2>1 DEF TesterKnows
<1> QED BY <1>1, <1>2, <1>3, <1>4, <1>5 DEF Tester

-----------------------------------------------------------------------------
(* The pretest cleans up behind itself.                                    *)

PretestHolds(s, books) == PretestOK(s) /\ GoneBut(books, ToCancel(s))

(* What the first n calls leave of the pretest.                            *)
PretestLeaves(calls, n, less) ==
  /\ PretestCalls(less)
  /\ \A names : (\A k \in 1 .. n : calls[k] \notin names) => (Has(less, names) <=> Has(calls, names))
  /\ calls[n] \in ReserveCalls => ~ Has(less, ReserveCalls) /\ Has(less, {"commit"})
  /\ calls[n] = "commit" => ~ Has(less, ReserveCalls) /\ ~ Has(less, {"commit"})

LEMMA PretestLess ==
  ASSUME NEW calls \in Seq(CallName), NEW less \in Seq(CallName), NEW n \in Nat, n >= 1, n < Len(calls),
         Len(less) = Len(calls) - n, \A k \in 1 .. (Len(calls) - n) : less[k] = calls[k + n],
         PretestCalls(calls)
  PROVE  PretestLeaves(calls, n, less)
<1>1. /\ DOMAIN calls = 1 .. Len(calls) /\ DOMAIN less = 1 .. (Len(calls) - n) /\ Len(calls) \in Nat
      /\ n \in DOMAIN calls
  OBVIOUS
<1>2. \A k \in DOMAIN less : k + n \in DOMAIN calls /\ less[k] = calls[k + n] /\ k + n > n /\ k \in Nat
  BY <1>1
<1>3. \A j \in DOMAIN calls : j > n => j - n \in DOMAIN less /\ less[j - n] = calls[j]
  <2> SUFFICES ASSUME NEW j \in DOMAIN calls, j > n  PROVE j - n \in DOMAIN less /\ less[j - n] = calls[j]
    OBVIOUS
  <2>1. j - n \in 1 .. (Len(calls) - n) /\ (j - n) + n = j
    BY <1>1
  <2> QED BY <1>1, <2>1
<1>4. /\ \A j, k \in DOMAIN calls :
           calls[j] \in ReserveCalls \cup {"commit"} /\ calls[k] \in ReserveCalls => k <= j
      /\ \A j, k \in DOMAIN calls : calls[j] = "commit" /\ calls[k] = "commit" => j = k
      /\ \A j \in DOMAIN calls : calls[j] = "cancel" <=> j = Len(calls)
  BY DEF PretestCalls
<1>5. \A names : Has(less, names) => \E j \in DOMAIN calls : j > n /\ calls[j] \in names
  BY <1>2 DEF Has
<1>6. \A names : (\E j \in DOMAIN calls : j > n /\ calls[j] \in names) => Has(less, names)
  BY <1>3 DEF Has
<1>7. ASSUME Has(less, ReserveCalls)  PROVE Has(less, {"commit"})
  <2>1. PICK k \in DOMAIN calls : k > n /\ calls[k] \in ReserveCalls
    BY <1>5, <1>7
  <2>2. PICK j \in DOMAIN calls : calls[j] \in {"commit"}
    BY <2>1 DEF PretestCalls, Has
  <2>3. k <= j
    BY <1>4, <2>1, <2>2
  <2>4. j > n
    BY <1>1, <2>1, <2>3
  <2> QED BY <1>6, <2>2, <2>4
<1>8. PretestCalls(less)
  <2>1. ~ Has(less, {"racer", "count", "wrongSeat"})
    BY <1>5 DEF PretestCalls, Has
  <2>2. \A j, k \in DOMAIN less :
          less[j] \in ReserveCalls \cup {"commit"} /\ less[k] \in ReserveCalls => k <= j
    <3> SUFFICES ASSUME NEW j \in DOMAIN less, NEW k \in DOMAIN less, less[j] \in ReserveCalls \cup {"commit"},
                        less[k] \in ReserveCalls
                 PROVE  k <= j
      OBVIOUS
    <3>1. k + n <= j + n
      BY <1>2, <1>4
    <3> QED BY <1>2, <3>1
  <2>3. \A j, k \in DOMAIN less : less[j] = "commit" /\ less[k] = "commit" => j = k
    <3> SUFFICES ASSUME NEW j \in DOMAIN less, NEW k \in DOMAIN less, less[j] = "commit", less[k] = "commit"
                 PROVE  j = k
      OBVIOUS
    <3>1. j + n = k + n
      BY <1>2, <1>4
    <3> QED BY <1>2, <3>1
  <2>4. \A j \in DOMAIN less : less[j] = "cancel" <=> j = Len(less)
    <3> SUFFICES ASSUME NEW j \in DOMAIN less  PROVE less[j] = "cancel" <=> j = Len(less)
      OBVIOUS
    <3>1. calls[j + n] = "cancel" <=> j + n = Len(calls)
      BY <1>2, <1>4
    <3> QED BY <1>1, <1>2, <3>1
  <2> QED BY <1>7, <2>1, <2>2, <2>3, <2>4 DEF PretestCalls
<1>9. ASSUME NEW names, \A k \in 1 .. n : calls[k] \notin names
      PROVE  Has(less, names) <=> Has(calls, names)
  <2>1. \A j \in DOMAIN calls : calls[j] \in names => j > n
    BY <1>1, <1>9
  <2> QED BY <1>5, <1>6, <2>1 DEF Has
<1>10. ASSUME calls[n] \in ReserveCalls \cup {"commit"}  PROVE ~ Has(less, ReserveCalls)
  <2> SUFFICES ASSUME Has(less, ReserveCalls)  PROVE FALSE
    OBVIOUS
  <2>1. PICK k \in DOMAIN calls : k > n /\ calls[k] \in ReserveCalls
    BY <1>5
  <2>2. k <= n
    BY <1>1, <1>4, <1>10, <2>1
  <2> QED BY <1>1, <2>1, <2>2
<1>11. ASSUME calls[n] \in ReserveCalls  PROVE Has(less, {"commit"})
  <2>1. PICK j \in DOMAIN calls : calls[j] \in {"commit"}
    BY <1>1, <1>11 DEF PretestCalls, Has
  <2>2. n <= j /\ n # j
    BY <1>1, <1>4, <1>11, <2>1 DEF ReserveCalls
  <2>3. j > n
    BY <1>1, <2>2
  <2> QED BY <1>6, <2>1, <2>3
<1>12. ASSUME calls[n] = "commit"  PROVE ~ Has(less, {"commit"})
  <2> SUFFICES ASSUME Has(less, {"commit"})  PROVE FALSE
    OBVIOUS
  <2>1. PICK k \in DOMAIN calls : k > n /\ calls[k] \in {"commit"}
    BY <1>5
  <2> QED BY <1>1, <1>4, <1>12, <2>1
<1> QED BY <1>8, <1>9, <1>10, <1>11, <1>12 DEF PretestLeaves

(* The block of the pretest, some calls further.                           *)
LEMMA PretestPast ==
  ASSUME NEW s, SlotCore(s), Len(s.todo) = 1, PretestCalls(s.todo[1].calls), NEW n \in 1 .. Len(s.todo[1].calls),
         s.todo[1].calls[n] # "cancel"
  PROVE  LET t == Past(s, n)
             calls == s.todo[1].calls
             less == t.todo[1].calls
         IN  /\ t # Done /\ Len(t.todo) = 1 /\ t.pc = "calling" /\ t.id = s.id /\ t.kept = s.kept
             /\ PretestLeaves(calls, n, less)
<1> DEFINE calls == s.todo[1].calls
           t == Past(s, n)
<1>1. /\ s.todo \in Seq(BlockType) /\ s.todo # << >> /\ calls \in Seq(CallName) /\ s \in SlotType
  <2>1. s.todo \in Seq(BlockType) /\ s.todo # << >> /\ s \in SlotType
    BY DEF SlotCore, TodoOK
  <2>2. s.todo[1] \in BlockType
    BY <2>1
  <2> QED BY <2>1, <2>2 DEF BlockType
<1>2. n # Len(calls) /\ n \in Nat /\ n >= 1 /\ n < Len(calls) /\ n \in 1 .. (Len(calls) - 1)
  <2>1. Len(calls) \in Nat /\ n \in DOMAIN calls
    BY <1>1
  <2>2. n # Len(calls)
    BY <2>1 DEF PretestCalls
  <2> QED BY <2>1, <2>2
<1>3. LET rest == Rest(s.todo, n)
      IN  /\ rest \in Seq(BlockType) /\ Len(rest) = 1
          /\ Len(rest[1].calls) = Len(calls) - n /\ rest[1].calls \in Seq(CallName)
          /\ \A k \in 1 .. (Len(calls) - n) : rest[1].calls[k] = calls[k + n]
  BY <1>1, <1>2, RestOfBlock
<1> DEFINE rest == Rest(s.todo, n)
<1>4. t = Settled(s, rest)
  BY DEF Past, Rest
<1>5. rest # << >>
  BY <1>3
<1> HIDE DEF rest, t
<1>6. t = [s EXCEPT !.pc = "calling", !.todo = rest]
  BY <1>4, <1>5 DEF Settled
<1>7. t.pc = "calling"
  BY <1>1, <1>6 DEF SlotType
<1>8. t # Done
  BY <1>7 DEF Done
<1>9. t.todo = Rest(s.todo, n) /\ t.id = s.id /\ t.kept = s.kept
  BY <1>8, PastOK DEF t
<1> HIDE DEF calls
<1> DEFINE less == t.todo[1].calls
<1>10. /\ less \in Seq(CallName) /\ Len(less) = Len(calls) - n
       /\ \A k \in 1 .. (Len(calls) - n) : less[k] = calls[k + n]
       /\ Len(t.todo) = 1
  BY <1>3, <1>9
<1>11. calls \in Seq(CallName) /\ PretestCalls(calls)
  BY <1>1 DEF calls
<1> HIDE DEF less
<1>12. PretestLeaves(calls, n, less)
  BY <1>2, <1>10, <1>11, PretestLess
<1> QED BY <1>7, <1>8, <1>9, <1>10, <1>12 DEF less, calls, t

(* A call that neither reserves, nor commits, nor cancels.                 *)
LEMMA QuietPretest ==
  ASSUME NEW s, s # Done, PretestOK(s), s.pc = "calling",
         NEW x, SlotCore(x), x.todo = s.todo, x.id = s.id, x.kept = s.kept, x.pc = s.pc,
         NEW n \in 1 .. Len(x.todo[1].calls),
         \A k \in 1 .. n : x.todo[1].calls[k] \notin ReserveCalls \cup {"commit", "cancel"},
         NEW books, GoneBut(books, ToCancel(s))
  PROVE  PretestHolds(Past(x, n), books)
<1> DEFINE t == Past(x, n)
           calls == x.todo[1].calls
           less == t.todo[1].calls
<1>1. /\ Len(s.todo) = 1 /\ Len(x.todo) = 1 /\ PretestCalls(x.todo[1].calls)
      /\ Has(calls, {"commit"}) => s.kept = {}
      /\ \A i, j \in s.kept : i = j
  BY DEF PretestOK
<1>2. x.todo[1].calls[n] # "cancel" /\ n \in 1 .. n
  <2>1. n \in 1 .. n
    BY DEF SlotCore, TodoOK
  <2> QED BY <2>1
<1>3. /\ t # Done /\ Len(t.todo) = 1 /\ t.pc = "calling" /\ t.id = x.id /\ t.kept = x.kept
      /\ PretestLeaves(calls, n, less)
  BY <1>1, <1>2, PretestPast
<1> HIDE DEF t, calls
<1>4. (Has(less, ReserveCalls) <=> Has(calls, ReserveCalls)) /\ (Has(less, {"commit"}) <=> Has(calls, {"commit"}))
  <2>1. \A k \in 1 .. n : calls[k] \notin ReserveCalls
    BY DEF calls
  <2>2. \A k \in 1 .. n : calls[k] \notin {"commit"}
    BY DEF calls
  <2> HIDE DEF less
  <2>3. Has(less, ReserveCalls) <=> Has(calls, ReserveCalls)
    BY <1>3, <2>1 DEF less, PretestLeaves
  <2>4. Has(less, {"commit"}) <=> Has(calls, {"commit"})
    BY <1>3, <2>2 DEF less, PretestLeaves
  <2> QED BY <2>3, <2>4
<1> HIDE DEF less
<1>5. PretestOK(t)
  BY <1>1, <1>3, <1>4 DEF PretestOK, less, PretestLeaves
<1>6. ToCancel(t) = ToCancel(s)
  BY <1>3, <1>4 DEF ToCancel, less, calls
<1> QED BY <1>5, <1>6 DEF PretestHolds, t

(* It waits for the answer of the call it is busy with.                    *)
LEMMA WaitingPretest ==
  ASSUME NEW s, s # Done, PretestOK(s), NEW x, x # Done, x.todo = s.todo, x.id = s.id, x.kept = s.kept,
         s.pc # "calling", x.pc # "calling", Has(s.todo[1].calls, {"commit"}),
         NEW books, GoneBut(books, ToCancel(s))
  PROVE  PretestHolds(x, books)
<1>1. PretestOK(x)
  BY DEF PretestOK
<1>2. ToCancel(x) = ToCancel(s)
  BY DEF ToCancel
<1> QED BY <1>1, <1>2 DEF PretestHolds

LEMMA PretestFails ==
  ASSUME BenchIInv, driver \in Passengers, slot[driver] # Done, NEW kind \in Critical \cup {"timeout", "application"},
         Fails(driver, kind)
  PROVE  errs'.pretest
<1>1. errs' = WithError(driver, kind, slot[driver].todo[1].adds) /\ slot[driver].todo[1].adds \in Nat
  BY FailsOK DEF BenchIInv
<1>2. errs \in ErrsType
  BY DEF BenchIInv, Stages
<1>3. WithError(driver, kind, slot[driver].todo[1].adds).pretest
  BY <1>1, <1>2, WithErrorOK
<1> QED BY <1>1, <1>3

(* What it has to do with bookings, call by call.                          *)
LEMMA PretestFacts ==
  ASSUME BenchIInv, PretestOK(slot[driver]), NEW pc, pc # "done", NEW names, On(driver, pc, names)
  PROVE  LET s == slot[driver]
             calls == s.todo[1].calls
         IN  /\ driver \in Passengers /\ s # Done /\ SlotOK(s) /\ SlotCore(s) /\ s \in SlotType /\ s.pc = pc
             /\ Call(s) = calls[1] /\ calls[1] \in names /\ 1 \in 1 .. Len(calls) /\ 1 \in DOMAIN calls
             /\ Len(s.todo) = 1 /\ PretestCalls(calls)
             /\ calls[1] \notin {"racer", "count", "wrongSeat"}
             /\ calls[1] \in ReserveCalls => Has(calls, ReserveCalls) /\ Has(calls, {"commit"})
             /\ calls[1] = "commit" => ~ Has(calls, ReserveCalls) /\ Has(calls, {"commit"})
             /\ calls[1] = "cancel" => ~ Has(calls, ReserveCalls) /\ ~ Has(calls, {"commit"}) /\ Len(calls) = 1
             /\ Has(calls, {"commit"}) \/ s.pc = "served" => s.kept = {}
             /\ \A i, j \in s.kept : i = j
<1> DEFINE s == slot[driver]
           calls == s.todo[1].calls
<1>1. /\ driver \in Passengers /\ s # Done /\ SlotOK(s) /\ s.pc = pc /\ Call(s) \in names
      /\ calls \in Seq(CallName) /\ 1 \in DOMAIN calls
  <2>1. driver \in Goroutine /\ Owners
    BY DEF Goroutine, BenchIInv
  <2> QED BY <2>1, OnFacts
<1>2. SlotCore(s) /\ s \in SlotType /\ Call(s) = calls[1]
  BY <1>1 DEF SlotOK, SlotCore, Call
<1>3. /\ Len(s.todo) = 1 /\ PretestCalls(calls)
      /\ Has(calls, {"commit"}) \/ s.pc = "served" => s.kept = {}
      /\ \A i, j \in s.kept : i = j
  BY <1>1 DEF PretestOK
<1> HIDE DEF s, calls
<1>4. 1 \in 1 .. Len(calls) /\ DOMAIN calls = 1 .. Len(calls) /\ Len(calls) \in Nat
  BY <1>1
<1>5. calls[1] \notin {"racer", "count", "wrongSeat"}
  BY <1>1, <1>3 DEF PretestCalls, Has
<1>6. calls[1] \in ReserveCalls => Has(calls, ReserveCalls) /\ Has(calls, {"commit"})
  BY <1>1, <1>3 DEF PretestCalls, Has
<1>7. ASSUME calls[1] = "commit"  PROVE ~ Has(calls, ReserveCalls) /\ Has(calls, {"commit"})
  <2>1. Has(calls, {"commit"})
    BY <1>1, <1>7 DEF Has
  <2>2. ASSUME NEW k \in DOMAIN calls, calls[k] \in ReserveCalls  PROVE FALSE
    <3>1. k <= 1
      BY <1>1, <1>3, <1>7, <2>2 DEF PretestCalls
    <3>2. k = 1
      BY <1>4, <3>1
    <3> QED BY <1>7, <2>2, <3>2 DEF ReserveCalls
  <2> QED BY <2>1, <2>2 DEF Has
<1>8. ASSUME calls[1] = "cancel"  PROVE ~ Has(calls, ReserveCalls) /\ ~ Has(calls, {"commit"}) /\ Len(calls) = 1
  <2>1. Len(calls) = 1
    BY <1>1, <1>3, <1>8 DEF PretestCalls
  <2>2. \A k \in DOMAIN calls : calls[k] = "cancel"
    BY <1>4, <1>8, <2>1
  <2> QED BY <2>1, <2>2 DEF Has, ReserveCalls
<1> QED BY <1>1, <1>2, <1>3, <1>4, <1>5, <1>6, <1>7, <1>8 DEF s, calls

LEMMA DriverSlot ==
  ASSUME BenchIInv, NEW x, slot' = [slot EXCEPT ![driver] = x]
  PROVE  slot'[driver] = x
<1>1. driver \in DOMAIN slot
  BY DEF BenchIInv, Owners, Goroutine
<1> QED BY <1>1

LEMMA PastIsRest == ASSUME NEW s, NEW n  PROVE Past(s, n) = Settled(s, Rest(s.todo, n))
BY DEF Past, Rest

(* The block is over with its last call, the cancel.                       *)
LEMMA PretestEnds ==
  ASSUME BenchIInv, PretestHolds(slot[driver], booked), NEW pc \in {"calling", "served"}, On(driver, pc, {"cancel"}),
         slot[driver].kept = {}, Next1(driver), booked' = booked
  PROVE  PretestHolds(slot'[driver], booked')
<1> DEFINE s == slot[driver]
<1>1. /\ s # Done /\ SlotCore(s) /\ s.todo[1].calls[1] = "cancel" /\ Len(s.todo) = 1
      /\ ~ Has(s.todo[1].calls, ReserveCalls) /\ ~ Has(s.todo[1].calls, {"commit"}) /\ Len(s.todo[1].calls) = 1
  BY PretestFacts DEF PretestHolds
<1>2. s.todo \in Seq(BlockType)
  BY <1>1 DEF SlotCore, TodoOK
<1>3. GoneBut(booked, {})
  BY <1>1 DEF PretestHolds, ToCancel
<1>4. slot'[driver] = Past(s, 1)
  BY DriverSlot DEF Next1
<1>5. Past(s, 1) = Done
  <2> DEFINE rest == Rest(s.todo, 1)
  <2>1. rest \in Seq(BlockType) /\ Len(rest) = 0
    <3>1. s.todo # << >>
      BY <1>1, <1>2
    <3>2. LET less == Rest(s.todo, Len(s.todo[1].calls)) IN less \in Seq(BlockType) /\ Len(less) = Len(s.todo) - 1
      BY <1>2, <3>1, RestAfterBlock
    <3> QED BY <1>1, <3>2
  <2>2. rest = << >>
    <3> HIDE DEF rest
    <3> QED BY <2>1
  <2>3. Past(s, 1) = Settled(s, rest)
    BY PastIsRest
  <2> HIDE DEF rest
  <2> QED BY <2>2, <2>3 DEF Settled
<1> QED BY <1>3, <1>4, <1>5 DEF PretestHolds, PretestOK, ToCancel

LEMMA PretestAsks ==
  ASSUME BenchIInv, PretestHolds(slot[driver], booked), Asks(driver)
  PROVE  PretestHolds(slot'[driver], booked')
<1> DEFINE s == slot[driver]
<1>1. On(driver, "calling", Plain) /\ booked' = booked
  BY DEF Asks
<1>2. PICK n \in 1 .. Len(s.todo[1].calls) :
        /\ slot' = [slot EXCEPT ![driver] = Past(s, n)]
        /\ \A i \in 1 .. n : s.todo[1].calls[i] \in Plain
  BY AsksOK DEF BenchIInv, Goroutine
<1>3. s # Done /\ SlotCore(s) /\ s.pc = "calling"
  BY <1>1, PretestFacts DEF PretestHolds
<1>4. Plain \cap (ReserveCalls \cup {"commit", "cancel"}) = {}
  BY DEF Plain, ReserveCalls, AccountCalls, TimetableCalls, ViewCalls
<1>5. \A i \in 1 .. n : s.todo[1].calls[i] \notin ReserveCalls \cup {"commit", "cancel"}
  BY <1>2, <1>4
<1>6. slot'[driver] = Past(s, n)
  BY <1>2, DriverSlot
<1> HIDE DEF s
<1>7. PretestHolds(Past(s, n), booked)
  BY <1>3, <1>5, QuietPretest DEF PretestHolds, s
<1> QED BY <1>1, <1>6, <1>7

LEMMA PretestRegisters ==
  ASSUME BenchIInv, PretestHolds(slot[driver], booked), AsksRegardless(driver)
  PROVE  PretestHolds(slot'[driver], booked')
<1> DEFINE s == slot[driver]
<1>1. On(driver, "calling", {"card", "foreignCancel"}) /\ booked' = booked /\ slot' = [slot EXCEPT ![driver] = Past(s, 1)]
  BY DEF AsksRegardless, Next1
<1>2. s # Done /\ SlotCore(s) /\ s.pc = "calling" /\ s.todo[1].calls[1] \in {"card", "foreignCancel"}
      /\ 1 \in 1 .. Len(s.todo[1].calls)
  BY <1>1, PretestFacts DEF PretestHolds
<1>3. \A i \in 1 .. 1 : s.todo[1].calls[i] \notin ReserveCalls \cup {"commit", "cancel"}
  BY <1>2 DEF ReserveCalls
<1>4. slot'[driver] = Past(s, 1)
  BY <1>1, DriverSlot
<1> HIDE DEF s
<1>5. PretestHolds(Past(s, 1), booked)
  BY <1>2, <1>3, QuietPretest DEF PretestHolds, s
<1> QED BY <1>1, <1>4, <1>5

LEMMA PretestMaps ==
  ASSUME BenchIInv, PretestHolds(slot[driver], booked), Maps(driver)
  PROVE  PretestHolds(slot'[driver], booked')
<1> DEFINE s == slot[driver]
           seats == FilterTrainSeats(s.trip)
           x == [s EXCEPT !.asked = seats]
<1>1. On(driver, "calling", {"map"}) /\ booked' = booked /\ slot' = [slot EXCEPT ![driver] = Past(x, 1)]
  BY DEF Maps
<1>2. s # Done /\ SlotCore(s) /\ s \in SlotType /\ s.pc = "calling" /\ 1 \in 1 .. Len(s.todo[1].calls)
      /\ s.todo[1].calls[1] \in {"map"}
  BY <1>1, PretestFacts DEF PretestHolds
<1>3. s.trip \in AnyTrip /\ 1 \in DOMAIN CarsOf[s.trip.train]
  BY <1>2, BenchAssumption DEF SlotType
<1>4. seats \subseteq Nat /\ IsFiniteSet(seats) /\ Cardinality(seats) <= 2
  BY <1>3, FreePlaces, FirstOfFew DEF FilterTrainSeats
<1>5. slot'[driver] = Past(x, 1)
  BY <1>1, DriverSlot
<1> HIDE DEF seats
<1>6. /\ x \in SlotType /\ x.trip = s.trip /\ x.todo = s.todo /\ x.asked = seats /\ x.pc = s.pc
      /\ x.kept = s.kept /\ x.id = s.id
  BY <1>2, <1>4 DEF SlotType
<1> HIDE DEF x, s
<1>7. SlotCore(x)
  BY <1>2, <1>4, <1>6 DEF SlotCore, People
<1>8. \A k \in 1 .. 1 : x.todo[1].calls[k] \notin ReserveCalls \cup {"commit", "cancel"}
  BY <1>2, <1>6 DEF ReserveCalls
<1>9. PretestOK(s) /\ GoneBut(booked, ToCancel(s)) /\ 1 \in 1 .. Len(x.todo[1].calls)
  BY <1>2, <1>6 DEF PretestHolds, s
<1>10. PretestHolds(Past(x, 1), booked)
  BY <1>2, <1>6, <1>7, <1>8, <1>9, QuietPretest
<1> QED BY <1>1, <1>5, <1>10

LEMMA PretestReserves ==
  ASSUME BenchIInv, PretestHolds(slot[driver], booked), Reserves(driver)
  PROVE  PretestHolds(slot'[driver], booked')
<1> DEFINE s == slot[driver]
           given == GivenSeats(s.trip, Asked(driver))
           b == [trip |-> s.trip, seats |-> given, status |-> "held"]
           id == IF given = {} THEN 0 ELSE Len(booked) + 1
           x == [s EXCEPT !.pc = "served", !.id = id]
<1>1. /\ On(driver, "calling", ReserveCalls)
      /\ booked' = IF given = {} THEN booked ELSE Append(booked, b)
      /\ given # {} => b \in Booking
      /\ slot' = [slot EXCEPT ![driver] = x]
      /\ given # {} => id = Len(booked) + 1
      /\ x # Done /\ x.todo = s.todo /\ x.id = id /\ x.kept = s.kept /\ x.pc = "served"
  BY ReservesCases DEF Goroutine
<1>2. slot'[driver] = x
  BY <1>1, DriverSlot
<1> HIDE DEF x, id, b, given
<1>3. /\ s # Done /\ s.pc = "calling" /\ Has(s.todo[1].calls, ReserveCalls) /\ Has(s.todo[1].calls, {"commit"})
      /\ s.kept = {} /\ Len(s.todo) = 1 /\ PretestCalls(s.todo[1].calls)
  <2>1. s.todo[1].calls[1] \in ReserveCalls /\ s.pc = "calling" /\ s # Done
    BY <1>1, PretestFacts DEF PretestHolds
  <2>2. Has(s.todo[1].calls, ReserveCalls) /\ Has(s.todo[1].calls, {"commit"})
    BY <1>1, <2>1, PretestFacts DEF PretestHolds
  <2> QED BY <2>1, <2>2 DEF PretestHolds, PretestOK
<1>4. GoneBut(booked, {})
  BY <1>3 DEF PretestHolds, ToCancel
<1>5. ToCancel(x) = {id} /\ PretestOK(x)
  BY <1>1, <1>3 DEF ToCancel, PretestOK
<1>6. GoneBut(booked', {id})
  <2>1. CASE given = {}
    BY <1>1, <1>4, <2>1 DEF GoneBut
  <2>2. CASE given # {}
    <3>1. booked' = Append(booked, b) /\ booked \in Seq(Booking)
      BY <1>1, <2>2 DEF BenchIInv, Books
    <3>2. DOMAIN booked' = DOMAIN booked \cup {Len(booked) + 1} /\ \A k \in DOMAIN booked : booked'[k] = booked[k]
      BY <1>1, <2>2, <3>1, AppendOK
    <3> QED BY <1>1, <1>4, <2>2, <3>2 DEF GoneBut
  <2> QED BY <2>1, <2>2
<1> QED BY <1>2, <1>5, <1>6 DEF PretestHolds

LEMMA PretestHearsReserve ==
  ASSUME BenchIInv, PretestHolds(slot[driver], booked), HearsReserve(driver), ~ errs'.pretest
  PROVE  PretestHolds(slot'[driver], booked')
<1> DEFINE s == slot[driver]
           x == [s EXCEPT !.pc = "approved"]
<1>1. On(driver, "served", ReserveCalls) /\ booked' = booked
  BY HearsReserveCases
<1>2. /\ driver \in Passengers /\ s # Done /\ s \in SlotType /\ s.pc = "served" /\ s.todo[1].calls[1] # "racer"
      /\ Has(s.todo[1].calls, {"commit"})
  BY <1>1, PretestFacts DEF PretestHolds
<1>3. ~ On(driver, "served", {"racer"})
  BY OnFacts, <1>2 DEF BenchIInv, Call, Goroutine
<1>4. ~ Fails(driver, "application") /\ ~ Fails(driver, "taken seat sold")
  <2>1. "taken seat sold" \in Critical \cup {"timeout", "application"}
    BY DEF Critical
  <2> QED BY <1>2, <2>1, PretestFails
<1>5. slot' = [slot EXCEPT ![driver] = x]
  <2>1. slot' = [slot EXCEPT ![driver].pc = "approved"]
    BY <1>3, <1>4, HearsReserveCases
  <2> QED BY <2>1
<1>6. slot'[driver] = x
  BY <1>5, DriverSlot
<1>7. x.pc = "approved" /\ x.todo = s.todo /\ x.id = s.id /\ x.kept = s.kept
  BY <1>2 DEF SlotType
<1> HIDE DEF x, s
<1>8. x # Done /\ PretestOK(s) /\ GoneBut(booked, ToCancel(s))
  BY <1>7 DEF Done, PretestHolds, s
<1>9. PretestHolds(x, booked)
  BY <1>2, <1>7, <1>8, WaitingPretest
<1> QED BY <1>1, <1>6, <1>9

LEMMA PretestAdds ==
  ASSUME BenchIInv, PretestHolds(slot[driver], booked), Adds(driver)
  PROVE  PretestHolds(slot'[driver], booked')
<1> DEFINE s == slot[driver]
           x == [s EXCEPT !.pc = "added"]
<1>1. On(driver, "approved", ReserveCalls) /\ booked' = booked
  BY DEF Adds, ReserveCalls
<1>2. /\ driver \in Passengers /\ s # Done /\ s \in SlotType /\ s.pc = "approved" /\ s.todo[1].calls[1] # "racer"
      /\ Has(s.todo[1].calls, {"commit"})
  BY <1>1, PretestFacts DEF PretestHolds
<1>3. ~ On(driver, "approved", {"racer"})
  BY OnFacts, <1>2 DEF BenchIInv, Call, Goroutine
<1>4. slot'[driver] = x
  <2>1. slot' = [slot EXCEPT ![driver] = x]
    BY <1>3 DEF Adds
  <2> QED BY <2>1, DriverSlot
<1>5. x.pc = "added" /\ x.todo = s.todo /\ x.id = s.id /\ x.kept = s.kept
  BY <1>2 DEF SlotType
<1> HIDE DEF x, s
<1>6. x # Done /\ PretestOK(s) /\ GoneBut(booked, ToCancel(s))
  BY <1>5 DEF Done, PretestHolds, s
<1>7. PretestHolds(x, booked)
  BY <1>2, <1>5, <1>6, WaitingPretest
<1> QED BY <1>1, <1>4, <1>7

LEMMA PretestAssertsReserve ==
  ASSUME BenchIInv, PretestHolds(slot[driver], booked), AssertsReserve(driver), ~ errs'.pretest
  PROVE  PretestHolds(slot'[driver], booked')
<1> DEFINE s == slot[driver]
           t == Past(s, 1)
<1>1. On(driver, "added", ReserveCalls) /\ On(driver, "added", {"reserve", "vague"}) /\ booked' = booked
      /\ (Next1(driver) \/ Fails(driver, "too few seats"))
  BY DEF AssertsReserve, On, ReserveCalls
<1>2. /\ driver \in Passengers /\ s # Done /\ s.pc = "added" /\ s.todo[1].calls[1] \in ReserveCalls
      /\ SlotCore(s) /\ Len(s.todo) = 1 /\ PretestCalls(s.todo[1].calls) /\ 1 \in 1 .. Len(s.todo[1].calls)
  BY <1>1, PretestFacts DEF PretestHolds
<1>3. Has(s.todo[1].calls, {"commit"}) /\ s.kept = {}
  <2>1. Has(s.todo[1].calls, {"commit"})
    BY <1>1, <1>2, PretestFacts DEF PretestHolds
  <2> QED BY <1>2, <2>1 DEF PretestHolds, PretestOK
<1>4. slot'[driver] = t
  <2>1. "too few seats" \in Critical \cup {"timeout", "application"}
    BY DEF Critical
  <2>2. ~ Fails(driver, "too few seats")
    BY <1>2, <2>1, PretestFails
  <2> QED BY <1>1, <2>2, DriverSlot DEF Next1
<1> HIDE DEF s
<1>5. s.todo[1].calls[1] # "cancel"
  BY <1>2 DEF ReserveCalls
<1>6. /\ t # Done /\ Len(t.todo) = 1 /\ t.pc = "calling" /\ t.id = s.id /\ t.kept = s.kept
      /\ PretestLeaves(s.todo[1].calls, 1, t.todo[1].calls)
  BY <1>2, <1>5, PretestPast
<1> HIDE DEF t
<1>7. ~ Has(t.todo[1].calls, ReserveCalls) /\ Has(t.todo[1].calls, {"commit"}) /\ PretestCalls(t.todo[1].calls)
  BY <1>2, <1>6 DEF PretestLeaves
<1>8. ToCancel(t) = {s.id} /\ ToCancel(s) = {s.id}
  BY <1>2, <1>3, <1>6, <1>7 DEF ToCancel
<1>9. PretestOK(t)
  BY <1>3, <1>6, <1>7 DEF PretestOK
<1> QED BY <1>1, <1>4, <1>8, <1>9 DEF PretestHolds, s

LEMMA PretestCommits ==
  ASSUME BenchIInv, PretestHolds(slot[driver], booked), Commits(driver)
  PROVE  PretestHolds(slot'[driver], booked')
<1> DEFINE s == slot[driver]
           x == [s EXCEPT !.pc = "served"]
<1>1. /\ On(driver, "calling", {"commit"})
      /\ booked' = [booked EXCEPT ![s.id].status = "paid"]
      /\ slot' = [slot EXCEPT ![driver].pc = "served"]
  BY DEF Commits
<1>2. /\ s # Done /\ s \in SlotType /\ s.pc = "calling" /\ s.todo[1].calls[1] = "commit"
      /\ ~ Has(s.todo[1].calls, ReserveCalls) /\ Has(s.todo[1].calls, {"commit"})
  <2>1. s # Done /\ s \in SlotType /\ s.pc = "calling" /\ s.todo[1].calls[1] = "commit"
    <3>1. PretestOK(slot[driver])
      BY DEF PretestHolds
    <3>2. s.todo[1].calls[1] \in {"commit"}
      BY <1>1, <3>1, PretestFacts
    <3> QED BY <1>1, <3>1, <3>2, PretestFacts
  <2> QED BY <1>1, <2>1, PretestFacts DEF PretestHolds
<1>3. s.kept = {} /\ Len(s.todo) = 1 /\ PretestCalls(s.todo[1].calls)
  BY <1>2 DEF PretestHolds, PretestOK
<1>4. slot'[driver] = x
  <2>1. slot' = [slot EXCEPT ![driver] = x]
    BY <1>1
  <2> QED BY <2>1, DriverSlot
<1>5. x.pc = "served" /\ x.todo = s.todo /\ x.id = s.id /\ x.kept = s.kept
  BY <1>2 DEF SlotType
<1> HIDE DEF x
<1>6. x # Done
  BY <1>5 DEF Done
<1>7. PretestOK(x)
  BY <1>3, <1>5 DEF PretestOK
<1>8. ToCancel(x) = {s.id} /\ ToCancel(s) = {s.id}
  BY <1>2, <1>5, <1>6 DEF ToCancel
<1>9. GoneBut(booked', {s.id})
  <2>1. DOMAIN booked' = DOMAIN booked /\ \A i \in DOMAIN booked : i # s.id => booked'[i] = booked[i]
    BY <1>1
  <2> QED BY <1>8, <2>1 DEF PretestHolds, GoneBut
<1> QED BY <1>4, <1>7, <1>8, <1>9 DEF PretestHolds

LEMMA PretestHearsCommit ==
  ASSUME BenchIInv, PretestHolds(slot[driver], booked), HearsCommit(driver)
  PROVE  PretestHolds(slot'[driver], booked')
<1> DEFINE s == slot[driver]
           x == [s EXCEPT !.kept = s.kept \cup {s.id}]
           t == Past(x, 1)
<1>1. On(driver, "served", {"commit"}) /\ booked' = booked /\ slot' = [slot EXCEPT ![driver] = Past(x, 1)]
  BY DEF HearsCommit
<1>2. /\ s # Done /\ SlotCore(s) /\ s \in SlotType /\ s.pc = "served" /\ s.todo[1].calls[1] = "commit"
      /\ Has(s.todo[1].calls, {"commit"}) /\ Len(s.todo) = 1 /\ PretestCalls(s.todo[1].calls)
      /\ 1 \in 1 .. Len(s.todo[1].calls)
  <2>1. /\ s # Done /\ SlotCore(s) /\ s \in SlotType /\ s.pc = "served" /\ s.todo[1].calls[1] = "commit"
        /\ Len(s.todo) = 1 /\ PretestCalls(s.todo[1].calls) /\ 1 \in 1 .. Len(s.todo[1].calls)
    <3>1. PretestOK(slot[driver])
      BY DEF PretestHolds
    <3>2. s.todo[1].calls[1] \in {"commit"}
      BY <1>1, <3>1, PretestFacts
    <3> QED BY <1>1, <3>1, <3>2, PretestFacts
  <2> QED BY <1>1, <2>1, PretestFacts DEF PretestHolds
<1>3. s.kept = {}
  BY <1>2 DEF PretestHolds, PretestOK
<1>4. slot'[driver] = t
  BY <1>1, DriverSlot
<1>5. x \in SlotType /\ x.trip = s.trip /\ x.todo = s.todo /\ x.asked = s.asked /\ x.id = s.id /\ x.kept = {s.id}
  BY <1>2, <1>3 DEF SlotType
<1> HIDE DEF x, s
<1>6. SlotCore(x)
  BY <1>2, <1>5 DEF SlotCore
<1>7. /\ Len(x.todo) = 1 /\ PretestCalls(x.todo[1].calls) /\ 1 \in 1 .. Len(x.todo[1].calls)
      /\ x.todo[1].calls[1] = "commit" /\ x.todo[1].calls[1] # "cancel"
  BY <1>2, <1>5
<1>8. /\ t # Done /\ Len(t.todo) = 1 /\ t.pc = "calling" /\ t.id = x.id /\ t.kept = x.kept
      /\ PretestLeaves(x.todo[1].calls, 1, t.todo[1].calls)
  BY <1>6, <1>7, PretestPast
<1> HIDE DEF t
<1>9. ~ Has(t.todo[1].calls, ReserveCalls) /\ ~ Has(t.todo[1].calls, {"commit"}) /\ PretestCalls(t.todo[1].calls)
  BY <1>7, <1>8 DEF PretestLeaves
<1>10. PretestOK(t)
  BY <1>5, <1>8, <1>9 DEF PretestOK
<1>11. ToCancel(t) = {s.id} /\ ToCancel(s) = {s.id}
  BY <1>2, <1>5, <1>8, <1>9 DEF ToCancel
<1> QED BY <1>1, <1>4, <1>10, <1>11 DEF PretestHolds, s

LEMMA PretestCancels ==
  ASSUME BenchIInv, PretestHolds(slot[driver], booked), Cancels(driver)
  PROVE  PretestHolds(slot'[driver], booked')
<1> DEFINE s == slot[driver]
           i == NextKept(driver)
           x == [s EXCEPT !.pc = "served", !.id = i, !.kept = s.kept \ {i}]
<1>1. /\ On(driver, "calling", {"cancel"}) /\ s.kept # {}
      /\ booked' = [booked EXCEPT ![i].status = "gone"]
      /\ slot' = [slot EXCEPT ![driver].pc = "served", ![driver].id = i, ![driver].kept = @ \ {i}]
  BY DEF Cancels
<1>2. /\ s # Done /\ s \in SlotType /\ s.pc = "calling" /\ s.todo[1].calls[1] = "cancel"
      /\ ~ Has(s.todo[1].calls, ReserveCalls) /\ ~ Has(s.todo[1].calls, {"commit"})
      /\ Len(s.todo) = 1 /\ PretestCalls(s.todo[1].calls)
  BY <1>1, PretestFacts DEF PretestHolds
<1>3. \A j, k \in s.kept : j = k
  BY <1>2 DEF PretestHolds, PretestOK
<1>4. s.kept = {i}
  <2>1. PICK k \in s.kept : TRUE
    BY <1>1
  <2>2. k \in Nat /\ \A j \in s.kept : j = k
    BY <1>2, <1>3, <2>1 DEF SlotType
  <2>3. \A j \in s.kept : k <= j
    BY <2>2
  <2>4. i \in s.kept
    BY <2>1, <2>3 DEF NextKept
  <2> QED BY <1>3, <2>4
<1> HIDE DEF i
<1>5. slot'[driver] = x
  <2>1. slot' = [slot EXCEPT ![driver] = x]
    BY <1>1 DEF BenchIInv, Owners
  <2> QED BY <2>1, DriverSlot
<1>6. x.pc = "served" /\ x.todo = s.todo /\ x.kept = {}
  BY <1>2, <1>4 DEF SlotType
<1> HIDE DEF x
<1>7. x # Done
  BY <1>6 DEF Done
<1>8. PretestOK(x) /\ ToCancel(x) = {} /\ ToCancel(s) = {i}
  BY <1>2, <1>4, <1>6, <1>7 DEF PretestOK, ToCancel
<1>9. GoneBut(booked', {})
  <2>1. DOMAIN booked' = DOMAIN booked /\ \A k \in DOMAIN booked : k # i => booked'[k] = booked[k]
    BY <1>1
  <2>2. i \in DOMAIN booked => booked'[i].status = "gone"
    BY <1>1, StatusOK DEF BenchIInv, Books
  <2> QED BY <1>8, <2>1, <2>2 DEF PretestHolds, GoneBut
<1> QED BY <1>5, <1>8, <1>9 DEF PretestHolds

(* An error of the pretest is not forgotten.                               *)
LEMMA PretestErrs ==
  ASSUME BenchIInv, Passenger(driver)
  PROVE  errs' = errs \/ errs'.pretest
<1>0. driver \in Goroutine
  BY DEF Goroutine
<1>1. ASSUME NEW pc, pc # "done", NEW names, On(driver, pc, names),
             NEW kind \in LossKind \cup {"taken seat sold", "too few seats", "sold twice"}, Fails(driver, kind)
      PROVE  errs'.pretest
  <2>1. kind \in Critical \cup {"timeout", "application"}
    BY DEF Critical, LossKind
  <2>2. driver \in Passengers /\ slot[driver] # Done
    BY <1>0, <1>1, OnFacts DEF BenchIInv
  <2> QED BY <1>1, <2>1, <2>2, PretestFails
<1>2. CASE HearsReserve(driver)
  BY <1>1, <1>2, HearsReserveCases DEF LossKind
<1>3. CASE AssertsReserve(driver)
  BY <1>1, <1>3 DEF AssertsReserve
<1>4. CASE Counts(driver)
  <2>1. On(driver, "calling", {"count"})
    BY <1>4 DEF Counts
  <2>2. slot[driver].won \in Nat
    BY <1>0, <2>1, OnFacts, NotDone DEF BenchIInv, SlotOK
  <2> QED BY <1>1, <1>4, <2>1, <2>2, CountsCases DEF LossKind
<1>5. CASE LosesAnswer(driver)
  <2>1. PICK pc \in {"calling", "served", "added"} : \E names : On(driver, pc, names)
    BY <1>5, LosesAnswerCases
  <2> QED BY <1>1, <1>5, <2>1, LosesAnswerCases
<1>6. CASE Asks(driver) \/ AsksRegardless(driver) \/ Maps(driver) \/ Reserves(driver) \/ Adds(driver) \/ Commits(driver) \/ HearsCommit(driver)
           \/ Cancels(driver) \/ HearsCancel(driver) \/ NothingToCancel(driver) \/ AsksForWrongSeat(driver)
  BY <1>6 DEF Asks, AsksRegardless, Maps, Reserves, Adds, Commits, HearsCommit, Cancels, HearsCancel, NothingToCancel, AsksForWrongSeat
<1> QED BY <1>2, <1>3, <1>4, <1>5, <1>6 DEF Passenger

(* Every call of the pretest.                                              *)
LEMMA PretestStep ==
  ASSUME BenchIInv, PretestHolds(slot[driver], booked), Passenger(driver), ~ errs'.pretest
  PROVE  PretestHolds(slot'[driver], booked')
<1>0. PretestOK(slot[driver])
  BY DEF PretestHolds
<1>1. CASE HearsCancel(driver)
  <2>1. On(driver, "served", {"cancel"}) /\ Next1(driver) /\ booked' = booked
    BY <1>1 DEF HearsCancel
  <2>2. slot[driver].kept = {}
    BY <1>0, <2>1, PretestFacts
  <2> QED BY <2>1, <2>2, PretestEnds
<1>2. CASE NothingToCancel(driver)
  <2>1. On(driver, "calling", {"cancel"}) /\ Next1(driver) /\ booked' = booked /\ slot[driver].kept = {}
    BY <1>2 DEF NothingToCancel
  <2> QED BY <2>1, PretestEnds
<1>3. ~ Counts(driver) /\ ~ AsksForWrongSeat(driver)
  <2>1. ASSUME NEW name \in {"count", "wrongSeat"}, On(driver, "calling", {name})  PROVE FALSE
    <3>1. /\ slot[driver].todo[1].calls[1] \in {name}
          /\ slot[driver].todo[1].calls[1] \notin {"racer", "count", "wrongSeat"}
      BY <1>0, <2>1, PretestFacts
    <3> QED BY <3>1
  <2> QED BY <2>1 DEF Counts, AsksForWrongSeat
<1>4. CASE LosesAnswer(driver)
  <2>1. PICK pc \in {"calling", "served", "added"} : \E names : On(driver, pc, names)
    BY <1>4, LosesAnswerCases
  <2>2. PICK names : On(driver, pc, names)
    BY <2>1
  <2>3. driver \in Passengers /\ slot[driver] # Done /\ slot[driver].pc = pc
    BY <1>0, <2>2, PretestFacts
  <2>4. ~ On(driver, slot[driver].pc, {"racer"})
    <3> SUFFICES ASSUME On(driver, pc, {"racer"})  PROVE FALSE
      BY <2>3
    <3>1. /\ slot[driver].todo[1].calls[1] \in {"racer"}
          /\ slot[driver].todo[1].calls[1] \notin {"racer", "count", "wrongSeat"}
      BY <1>0, PretestFacts
    <3> QED BY <3>1
  <2>5. PICK kind \in LossKind : Fails(driver, kind)
    BY <1>4, <2>4, LosesAnswerCases
  <2>6. kind \in Critical \cup {"timeout", "application"}
    BY LossKinds
  <2> QED BY <2>3, <2>5, <2>6, PretestFails
<1> QED BY <1>1, <1>2, <1>3, <1>4, PretestAsks, PretestRegisters, PretestMaps, PretestReserves, PretestHearsReserve, PretestAdds,
           PretestAssertsReserve, PretestCommits, PretestHearsCommit, PretestCancels
   DEF Passenger

(* The pretest as it starts.                                               *)
LEMMA PretestStarts ==
  ASSUME NEW books, books = << >>
  PROVE  PretestHolds(Start(<<PretestNormal>>, PretestTrip), books)
<1> DEFINE calls == Stations \o <<"search", "map", "reserve", "show", "list", "card", "commit", "cancel">>
           s == Start(<<PretestNormal>>, PretestTrip)
<1>1. PretestNormal.calls = calls
  BY DEF PretestNormal, Block
<1>2. DOMAIN calls = 1 .. 11 /\ Len(calls) = 11
  BY DEF Stations, Register
<1>3. /\ ~ Has(calls, {"racer", "count", "wrongSeat"})
      /\ Has(calls, {"commit"})
      /\ \A j \in 1 .. 11 : calls[j] \in ReserveCalls <=> j = 6
      /\ \A j \in 1 .. 11 : calls[j] = "commit" <=> j = 10
      /\ \A j \in 1 .. 11 : calls[j] = "cancel" <=> j = 11
  <2>1. \A j \in 1 .. 11 : calls[j] \in ReserveCalls <=> j = 6
    BY DEF ReserveCalls, Stations, Register
  <2>2. \A j \in 1 .. 11 : calls[j] = "commit" <=> j = 10
    BY DEF Stations, Register
  <2>3. \A j \in 1 .. 11 : calls[j] = "cancel" <=> j = 11
    BY DEF Stations, Register
  <2>4. \A j \in 1 .. 11 : calls[j] \notin {"racer", "count", "wrongSeat"}
    BY DEF Stations, Register
  <2>5. 10 \in 1 .. 11
    OBVIOUS
  <2> HIDE DEF calls
  <2> QED BY <1>2, <2>1, <2>2, <2>3, <2>4, <2>5 DEF Has
<1>4. s.pc = "calling" /\ s.todo = <<PretestNormal>> /\ s.kept = {} /\ Len(s.todo) = 1
  BY DEF Start
<1> HIDE DEF calls, s
<1>5. PretestCalls(calls)
  BY <1>2, <1>3 DEF PretestCalls, ReserveCalls
<1>6. s # Done /\ s.todo[1].calls = calls
  BY <1>1, <1>4 DEF Done
<1>7. PretestOK(s)
  BY <1>4, <1>5, <1>6 DEF PretestOK
<1> QED BY <1>7 DEF PretestHolds, GoneBut, s

LEMMA PretestedInDriver ==
  ASSUME BenchIInv, Pretested, Passenger(driver), phase' = phase, Grows(driver)
  PROVE  Pretested'
<1>1. phase \in {"pretest", "pretest vague"}
  BY PassengerPhase DEF Awake
<1>2. driver \in Goroutine /\ driver \in DOMAIN slot /\ tester # driver /\ driver \notin Load
  BY BenchAssumption DEF BenchIInv, Owners, Goroutine
<1>3. (Walks(driver) /\ Enters(driver)) \/ UNCHANGED <<slot, booked>>
  BY <1>2, PassengerWalks
<1>4. \A h \in Goroutine : h # driver => slot'[h] = slot[h]
  BY <1>3 DEF Walks, BenchIInv, Owners
<1>5. slot'[tester] = TesterIdle /\ \A g \in Load : slot'[g] = Done
  BY <1>1, <1>2, <1>4 DEF Pretested, PretestPhase, Goroutine
<1>6. ASSUME phase = "pretest", ~ errs'.pretest
      PROVE  PretestOK(slot'[driver]) /\ GoneBut(booked', ToCancel(slot'[driver]))
  <2>1. ~ errs.pretest
    BY <1>6, PretestErrs
  <2>2. PretestHolds(slot[driver], booked)
    BY <1>6, <2>1 DEF Pretested, PretestHolds
  <2> QED BY <1>6, <2>2, PretestStep DEF PretestHolds
<1>7. ASSUME phase = "pretest vague"
      PROVE  (slot'[driver] = Done \/ slot'[driver].trip = VagueTrip) /\ OnlyFor(booked', {VagueTrip})
  <2>1. CASE UNCHANGED <<slot, booked>>
    BY <1>7, <2>1 DEF Pretested
  <2>2. CASE Walks(driver) /\ Enters(driver)
    <3>1. PICK t : OnItsWay(slot[driver], t) /\ slot' = [slot EXCEPT ![driver] = t]
      BY <2>2 DEF Walks
    <3>2. slot'[driver] = t /\ slot[driver].trip = VagueTrip
      BY <1>2, <1>7, <2>2, <3>1 DEF Pretested, Walks
    <3>3. t = Done \/ t.trip = VagueTrip
      BY <3>1, <3>2 DEF OnItsWay
    <3>4. OnlyFor(booked', {VagueTrip})
      <4> SUFFICES ASSUME NEW i \in DOMAIN booked'
                   PROVE  booked'[i].status = "gone" \/ booked'[i].trip \in {VagueTrip}
        BY DEF OnlyFor
      <4>1. CASE i \in DOMAIN booked
        BY <1>7, <4>1 DEF Pretested, OnlyFor, Grows, Kept
      <4>2. CASE i \notin DOMAIN booked
        BY <2>2, <3>2, <4>2 DEF Enters, New
      <4> QED BY <4>1, <4>2
    <3> QED BY <3>2, <3>3, <3>4
  <2> QED BY <1>3, <2>1, <2>2
<1> QED BY <1>1, <1>5, <1>6, <1>7 DEF Pretested, EarlyPhase, PretestPhase

LEMMA PretestedLater ==
  ASSUME phase' \notin EarlyPhase \cup PretestPhase  PROVE Pretested'
BY DEF Pretested, EarlyPhase, PretestPhase

LEMMA PretestedSame ==
  ASSUME Pretested, UNCHANGED <<phase, errs, booked, slot>>  PROVE Pretested'
BY DEF Pretested

(* The main goroutine goes from stage to stage.                            *)
LEMMA PretestedInMain == ASSUME BenchIInv, Pretested, Main  PROVE Pretested'
<1>0. /\ driver \in DOMAIN slot /\ tester # driver /\ driver \notin Load
      /\ \A h : h # driver => h \in Load \/ h = tester \/ h \notin DOMAIN slot
  BY BenchAssumption DEF BenchIInv, Owners, Goroutine
<1>1. ASSUME NEW from, NEW to \in {"initialize", "reads", "refusals"}, from \in EarlyPhase, Stage(from, to), slot' = slot
      PROVE  Pretested'
  <2>1. phase = from /\ UNCHANGED <<errs, booked>> /\ (phase' = "over" \/ phase' = to)
    BY <1>1 DEF Stage, Ends
  <2>2. CASE phase' = "over"
    BY <2>2, PretestedLater DEF EarlyPhase, PretestPhase
  <2>3. CASE phase' = to
    BY <1>1, <2>1, <2>3 DEF Pretested, EarlyPhase, PretestPhase
  <2> QED BY <2>1, <2>2, <2>3
<1>2. CASE PretestRefusals
  <2>1. /\ phase = "refusals" /\ UNCHANGED <<errs, booked>> /\ (phase' = "over" \/ phase' = "pretest")
        /\ slot' = IF phase' = "pretest"
                     THEN [slot EXCEPT ![driver] = Start(<<PretestNormal>>, PretestTrip)] ELSE slot
    BY <1>2 DEF PretestRefusals, Stage, Ends
  <2>2. CASE phase' = "over"
    BY <2>2, PretestedLater DEF EarlyPhase, PretestPhase
  <2>3. CASE phase' = "pretest"
    <3>1. slot' = [slot EXCEPT ![driver] = Start(<<PretestNormal>>, PretestTrip)] /\ booked' = << >>
      BY <2>1, <2>3 DEF Pretested, EarlyPhase
    <3>2. slot'[tester] = TesterIdle /\ \A g \in Load : slot'[g] = Done
      BY <1>0, <2>1, <3>1 DEF Pretested, EarlyPhase, BenchIInv, Owners, Goroutine
    <3>3. slot'[driver] = Start(<<PretestNormal>>, PretestTrip)
      BY <1>0, <3>1
    <3>4. PretestHolds(slot'[driver], booked')
      BY <3>1, <3>3, PretestStarts
    <3> QED BY <2>3, <3>1, <3>2, <3>4 DEF Pretested, EarlyPhase, PretestPhase, PretestHolds
  <2> QED BY <2>1, <2>2, <2>3
<1>3. CASE PretestGoesOn
  <2>1. CASE phase' = "over"
    BY <2>1, PretestedLater DEF EarlyPhase, PretestPhase
  <2>2. CASE /\ ~ errs.pretest /\ phase = "pretest" /\ phase' = "pretest vague"
             /\ slot' = [slot EXCEPT ![driver] = Start(<<PretestReserveVague>>, VagueTrip)]
    <3>1. slot[driver] = Done /\ booked' = booked
      BY <1>3, PretestGoesOnCases
    <3>2. slot'[tester] = TesterIdle /\ \A g \in Load : slot'[g] = Done
      BY <1>0, <2>2 DEF Pretested, PretestPhase, BenchIInv, Owners, Goroutine
    <3>3. slot'[driver].trip = VagueTrip
      BY <1>0, <2>2 DEF Start
    <3>4. OnlyFor(booked, {VagueTrip})
      BY <2>2, <3>1 DEF Pretested, GoneBut, ToCancel, OnlyFor
    <3> QED BY <2>2, <3>1, <3>2, <3>3, <3>4 DEF Pretested, EarlyPhase, PretestPhase
  <2>3. CASE /\ phase = "pretest vague" /\ phase' = "account" /\ slot' = slot
    <3>1. booked' = booked
      BY <1>3, PretestGoesOnCases
    <3> QED BY <2>3, <3>1 DEF Pretested, EarlyPhase, PretestPhase
  <2> QED BY <1>3, <2>1, <2>2, <2>3, PretestGoesOnCases
<1>4. CASE NewTester \/ TimeIsUp \/ LoadEnds \/ FinalChecks
  <2>1. phase' \in {"load", "final", "over"}
    BY <1>4 DEF NewTester, Stage, TimeIsUp, LoadEnds, FinalChecks, Ends
  <2> QED BY <2>1, PretestedLater DEF EarlyPhase, PretestPhase
<1>5. CASE InitializePayment \/ InitializeApplication \/ PretestReads
  BY <1>1, <1>5 DEF InitializePayment, InitializeApplication, PretestReads, EarlyPhase
<1> QED BY <1>2, <1>3, <1>4, <1>5 DEF Main, Prepares

LEMMA PretestedNext ==
  ASSUME BenchIInv, Sold, Pretested, BenchNext \/ UNCHANGED benchVars  PROVE Pretested'
<1>1. CASE UNCHANGED benchVars
  BY <1>1, PretestedSame DEF benchVars
<1>2. CASE Tester \/ StartScenario
  <2>1. phase' = "load"
    BY <1>2, TesterPhase DEF StartScenario
  <2> QED BY <2>1, PretestedLater DEF EarlyPhase, PretestPhase
<1>3. ASSUME NEW g \in Goroutine, Passenger(g)  PROVE Pretested'
  <2>1. phase' = phase \/ phase' = "over"
    BY <1>3, PassengerPhase
  <2>2. CASE phase' = "over"
    BY <2>2, PretestedLater DEF EarlyPhase, PretestPhase
  <2>3. CASE phase' = phase /\ g # driver
    <3>1. phase \in {"load", "final"}
      BY <1>3, <2>3, PassengerPhase DEF Awake
    <3> QED BY <2>3, <3>1, PretestedLater DEF EarlyPhase, PretestPhase
  <2>4. CASE phase' = phase /\ g = driver
    BY <1>3, <2>4, PassengerSold, PretestedInDriver DEF StaysSold
  <2> QED BY <2>1, <2>2, <2>3, <2>4
<1> QED BY <1>1, <1>2, <1>3, PretestedInMain DEF BenchNext

(* A scenario that may spoil the pretest's trip reserves nothing.          *)
LEMMA StartsInLoad ==
  ASSUME NEW n \in DOMAIN LoadPlan, NEW trip \in TripsOf(LoadPlan[n])
  PROVE  LoadTrips(Start(LoadPlan[n], trip))
<1> DEFINE s == Start(LoadPlan[n], trip)
<1>1. s.trip = trip /\ s.todo = LoadPlan[n]
  BY DEF Start
<1>2. CASE trip \in Trip \cup {VagueTrip}
  BY <1>1, <1>2 DEF LoadTrips
<1>3. CASE LoadPlan[n] = WrongSeat
  <2>1. Owns(s) = {}
    BY PlannedOK, StartOK
  <2> DEFINE calls == Register \o <<"search", "map", "wrongSeat">>
  <2>2. LoadPlan[n] = <<Block(calls)>> /\ Block(calls).calls = calls
    BY <1>3 DEF WrongSeat, Block
  <2>3. \A k \in DOMAIN calls : calls[k] \notin ReserveCalls
    BY DEF Register, ReserveCalls
  <2> HIDE DEF calls, s
  <2>4. ~ Left(s.todo, ReserveCalls)
    BY <1>1, <2>2, <2>3 DEF Left, Has
  <2> QED BY <2>1, <2>4 DEF LoadTrips, s
<1> QED BY <1>2, <1>3, PlannedOK

(* The tester begins with its train to itself.                             *)
LEMMA TesterBegins ==
  ASSUME BenchIInv, OnlyFor(booked, {VagueTrip}), slot[tester] = TesterIdle
  PROVE  TesterSees(slot[tester], Free(TesterTrip, TesterCar))
<1> DEFINE others == {k \in DOMAIN booked :
                 /\ booked[k].status # "gone" /\ SameRun(booked[k].trip, TesterTrip)
                 /\ Overlap(TesterTrip.from, TesterTrip.to, booked[k].trip.from, booked[k].trip.to)}
<1>1. others = {}
  <2> SUFFICES ASSUME NEW k \in DOMAIN booked, booked[k].status # "gone", SameRun(booked[k].trip, TesterTrip)
               PROVE  FALSE
    OBVIOUS
  <2>1. booked[k].trip = VagueTrip
    BY DEF OnlyFor
  <2> QED BY <2>1, BenchAssumption DEF SameRun
<1>2. Free(TesterTrip, TesterCar) = TesterCar
  <2>1. Free(TesterTrip, TesterCar) = TesterCar \ UNION {booked[i].seats : i \in others}
    BY DEF Free
  <2> HIDE DEF others
  <2> QED BY <1>1, <2>1
<1>3. Cardinality(TesterCar) = TesterSeats /\ TesterSeats \in Nat
  BY BenchAssumption DEF TesterCar
<1>4. TesterIdle.pc = "look" /\ TesterIdle.want = "plenty" /\ TesterIdle.remain = TesterSeats
  BY DEF TesterIdle
<1> QED BY <1>2, <1>3, <1>4 DEF TesterSees

(* What the tester books, it books for its own trip.                       *)
LEMMA TesterBooks ==
  ASSUME BenchIInv, Tester
  PROVE  /\ \A h \in Passengers : slot'[h] = slot[h]
         /\ \A i \in New : booked'[i].trip = TesterTrip
<1>1. CASE TesterReserves
  <2> DEFINE given == GivenSeats(TesterTrip, slot[tester].asked)
             b == [trip |-> TesterTrip, seats |-> given, status |-> "held"]
  <2>1. /\ b \in Booking /\ booked' = IF given = {} THEN booked ELSE Append(booked, b)
        /\ \E x : slot' = [slot EXCEPT ![tester] = x]
    BY <1>1, TesterReservesCases DEF BenchIInv
  <2>2. b.trip = TesterTrip
    OBVIOUS
  <2> HIDE DEF b, given
  <2>3. \A h \in Passengers : slot'[h] = slot[h]
    BY <2>1, SomeGoroutine DEF BenchIInv, Owners
  <2>4. CASE given = {}
    BY <2>1, <2>3, <2>4 DEF New
  <2>5. CASE given # {}
    <3>1. booked' = Append(booked, b) /\ booked \in Seq(Booking)
      BY <2>1, <2>5 DEF BenchIInv, Books
    <3>2. DOMAIN booked' = DOMAIN booked \cup {Len(booked) + 1} /\ booked'[Len(booked) + 1] = b
      BY <2>1, <3>1, AppendOK
    <3> QED BY <2>2, <2>3, <3>2 DEF New
  <2> QED BY <2>4, <2>5
<1>2. CASE TesterStarts \/ TesterLooks \/ TesterMaps \/ TesterLosesAnswer
  <2>1. booked' = booked /\ \E x : slot' = [slot EXCEPT ![tester] = x]
    BY <1>2 DEF TesterStarts, TesterLooks, TesterMaps, TesterLosesAnswer
  <2> QED BY <2>1, SomeGoroutine DEF BenchIInv, Owners, New
<1> QED BY <1>1, <1>2 DEF Tester

LEMMA BooksOnlyFor ==
  ASSUME NEW trips, OnlyFor(booked, trips), NEW g, Grows(g), \A i \in New : booked'[i].trip \in trips
  PROVE  OnlyFor(booked', trips)
BY DEF OnlyFor, Grows, Kept, New

LEMMA WatchedByPassenger ==
  ASSUME BenchIInv, BenchIInv', Sold, Watched, NEW g \in Goroutine, Passenger(g)
  PROVE  Watched'
<1> DEFINE trips == Trip \cup {VagueTrip, TesterTrip}
<1>1. Pretested'
  BY PretestedNext DEF Watched, BenchNext
<1>2. Grows(g) /\ MildErrs(g)
  BY PassengerSold, PassengerErrs DEF StaysSold
<1>3. g \in Passengers /\ Awake(g) /\ ((Walks(g) /\ Enters(g)) \/ UNCHANGED <<slot, booked>>)
  BY PassengerWalks
<1>4. g \in Load => /\ LoadTrips(slot'[g])
                    /\ \A i \in New : booked'[i].trip \in trips
  <2> SUFFICES ASSUME g \in Load
               PROVE  LoadTrips(slot'[g]) /\ \A i \in New : booked'[i].trip \in trips
    OBVIOUS
  <2>1. LoadTrips(slot[g])
    BY DEF Watched
  <2>2. CASE Walks(g) /\ Enters(g)
    BY <1>2, <2>1, <2>2, WalkKeepsTrips
  <2>3. CASE UNCHANGED <<slot, booked>>
    BY <2>1, <2>3 DEF New
  <2> QED BY <1>3, <2>2, <2>3
<1>5. \A h \in Load : LoadTrips(slot'[h])
  <2> SUFFICES ASSUME NEW h \in Load  PROVE LoadTrips(slot'[h])
    OBVIOUS
  <2>1. h # g => slot'[h] = slot[h]
    BY <1>2 DEF Grows, Passengers
  <2>2. LoadTrips(slot[h])
    BY DEF Watched
  <2> QED BY <1>4, <2>1, <2>2
<1>6. ASSUME phase' = "load"  PROVE OnlyFor(booked', trips) /\ TesterKnows'
  <2>1. phase = "load" /\ g \in Load
    BY <1>3, <1>6, PassengerPhase DEF Awake, Passengers
  <2>2. OnlyFor(booked', trips)
    BY <1>2, <1>4, <2>1, BooksOnlyFor DEF Watched
  <2>3. slot'[tester] = slot[tester]
    <3>1. tester # g
      BY <1>3, SomeGoroutine
    <3> QED BY <1>3, <3>1 DEF Walks, BenchIInv, Owners, Goroutine
  <2>4. ~ Rivals(booked') => Free(TesterTrip, TesterCar)' = Free(TesterTrip, TesterCar)
    <3>1. CASE Walks(g) /\ Enters(g)
      <4>1. LoadTrips(slot[g])
        BY <2>1 DEF Watched
      <4> QED BY <1>2, <2>1, <3>1, <4>1, FreeStays DEF TesterCar
    <3>2. CASE UNCHANGED <<slot, booked>>
      BY <3>2 DEF Free, TesterCar
    <3> QED BY <1>3, <3>1, <3>2
  <2>5. TesterKnows /\ hurt \subseteq hurt'
    BY <1>2, <2>1 DEF Watched, MildErrs
  <2>6. TesterKnows'
    BY <1>2, <2>3, <2>4, <2>5, KnowsStill
  <2> QED BY <2>2, <2>6
<1> QED BY <1>1, <1>5, <1>6 DEF Watched

LEMMA WatchedByTester ==
  ASSUME BenchIInv, Sold, Watched, Tester  PROVE Watched'
<1>1. Pretested'
  BY PretestedNext DEF Watched, BenchNext
<1>2. Grows(tester) /\ phase = "load" /\ phase' = "load"
  BY TesterSold, TesterPhase DEF StaysSold
<1>3. /\ \A h \in Passengers : slot'[h] = slot[h]
      /\ \A i \in New : booked'[i].trip = TesterTrip
  BY TesterBooks
<1>4. \A h \in Load : LoadTrips(slot'[h])
  BY <1>3 DEF Watched, Passengers
<1>5. OnlyFor(booked', Trip \cup {VagueTrip, TesterTrip})
  BY <1>2, <1>3, BooksOnlyFor DEF Watched
<1>6. TesterKnows'
  BY <1>2, TesterKnowsNext DEF Watched
<1> QED BY <1>1, <1>4, <1>5, <1>6 DEF Watched

LEMMA WatchedAtStart ==
  ASSUME BenchIInv, Sold, Watched, StartScenario  PROVE Watched'
<1>1. Pretested'
  BY PretestedNext DEF Watched, BenchNext
<1>2. /\ phase = "load" /\ UNCHANGED <<phase, booked, hurt>> /\ \E g \in Load : slot[g] = Done
  BY DEF StartScenario
<1>3. PICK n \in DOMAIN LoadPlan : \E trip \in TripsOf(LoadPlan[n]) :
        slot' = [slot EXCEPT ![FreeSlot] = Start(LoadPlan[n], trip)]
  BY DEF StartScenario
<1>4. PICK trip \in TripsOf(LoadPlan[n]) : slot' = [slot EXCEPT ![FreeSlot] = Start(LoadPlan[n], trip)]
  BY <1>3
<1>5. FreeSlot \in Load /\ LoadTrips(Start(LoadPlan[n], trip))
  BY <1>2, StartsInLoad DEF FreeSlot
<1>6. tester # FreeSlot /\ tester \in DOMAIN slot /\ \A h \in Load : h \in DOMAIN slot
  BY <1>5, BenchAssumption DEF BenchIInv, Owners, Goroutine
<1>7. \A h \in Load : LoadTrips(slot'[h])
  BY <1>4, <1>5, <1>6 DEF Watched
<1>8. slot'[tester] = slot[tester]
  BY <1>4, <1>6
<1>9. Free(TesterTrip, TesterCar)' = Free(TesterTrip, TesterCar)
  BY <1>2 DEF Free, TesterCar
<1>10. TesterKnows'
  BY <1>2, <1>8, <1>9 DEF Watched, TesterKnows
<1> QED BY <1>1, <1>2, <1>7, <1>10 DEF Watched

(* Steps of the main goroutine leave the books and the critical errors     *)
(* alone, and the scenarios as long as the process lives.                  *)
LEMMA MainLeaves ==
  ASSUME BenchIInv, Main
  PROVE  /\ booked' = booked /\ hurt \subseteq hurt' /\ errs'.msgs = errs.msgs
         /\ \A h \in Load : slot'[h] \in {slot[h], Done}
         /\ phase' = "load" => slot'[tester] = slot[tester]
         /\ phase' = "load" => (phase = "load" /\ hurt' = hurt) \/ phase = "account"
<1>0. driver \notin Load \cup {tester} /\ errs \in ErrsType
  BY BenchAssumption DEF BenchIInv, Stages
<1>1. CASE InitializePayment \/ InitializeApplication \/ PretestReads \/ NewTester
  BY <1>1 DEF InitializePayment, InitializeApplication, PretestReads, NewTester, Stage, Ends
<1>2. CASE PretestRefusals
  <2>1. /\ UNCHANGED <<errs, booked>> /\ phase' # "load" /\ hurt \subseteq hurt'
        /\ slot' = slot \/ slot' = [slot EXCEPT ![driver] = Start(<<PretestNormal>>, PretestTrip)]
    BY <1>2 DEF PretestRefusals, Stage, Ends
  <2> QED BY <1>0, <2>1 DEF BenchIInv, Owners, Goroutine
<1>3. CASE PretestGoesOn
  <2>1. /\ UNCHANGED <<errs, booked, hurt>> /\ phase' # "load"
        /\ slot' = slot \/ slot' = [slot EXCEPT ![driver] = Start(<<PretestReserveVague>>, VagueTrip)]
    BY <1>3, PretestGoesOnCases
  <2> QED BY <1>0, <2>1 DEF BenchIInv, Owners, Goroutine
<1>4. CASE TimeIsUp
  BY <1>4 DEF TimeIsUp
<1>5. CASE LoadEnds
  <2>1. /\ UNCHANGED <<booked, errs, hurt>> /\ phase' # "load" /\ slot' \in {slot, NoGoroutines}
    BY <1>5 DEF LoadEnds, Ends
  <2> QED BY <2>1, NobodyLeft DEF Passengers
<1>6. CASE FinalChecks
  <2>1. /\ UNCHANGED booked /\ slot' = NoGoroutines /\ phase' = "over" /\ hurt \subseteq hurt'
        /\ \E v : errs' = [errs EXCEPT !.final = v]
    BY <1>6 DEF FinalChecks, Ends
  <2>2. errs'.msgs = errs.msgs
    BY <1>0, <2>1 DEF ErrsType
  <2> QED BY <2>1, <2>2, NobodyLeft DEF Passengers
<1> QED BY <1>1, <1>2, <1>3, <1>4, <1>5, <1>6 DEF Main, Prepares

LEMMA WatchedByMain ==
  ASSUME BenchIInv, Sold, Watched, Main  PROVE Watched'
<1>1. Pretested'
  BY PretestedNext DEF Watched, BenchNext
<1>2. /\ booked' = booked /\ \A h \in Load : slot'[h] \in {slot[h], Done}
      /\ phase' = "load" => slot'[tester] = slot[tester]
      /\ phase' = "load" => (phase = "load" /\ hurt' = hurt) \/ phase = "account"
  BY MainLeaves
<1>3. \A h \in Load : LoadTrips(slot'[h])
  <2>1. LoadTrips(Done)
    BY DEF LoadTrips
  <2> QED BY <1>2, <2>1 DEF Watched
<1>4. Free(TesterTrip, TesterCar)' = Free(TesterTrip, TesterCar)
  BY <1>2 DEF Free, TesterCar
<1>5. CASE phase' = "load" /\ phase = "load"
  <2>1. TesterKnows'
    BY <1>2, <1>4, <1>5 DEF Watched, TesterKnows
  <2> QED BY <1>1, <1>2, <1>3, <1>5, <2>1 DEF Watched
<1>6. CASE phase' = "load" /\ phase = "account"
  <2>1. OnlyFor(booked, {VagueTrip}) /\ slot[tester] = TesterIdle
    BY <1>6 DEF Watched, Pretested, PretestPhase
  <2>2. TesterSees(slot[tester], Free(TesterTrip, TesterCar))
    BY <2>1, TesterBegins
  <2>3. TesterKnows'
    BY <1>2, <1>4, <1>6, <2>2 DEF TesterKnows
  <2>4. OnlyFor(booked', Trip \cup {VagueTrip, TesterTrip})
    BY <1>2, <2>1 DEF OnlyFor
  <2> QED BY <1>1, <1>3, <2>3, <2>4 DEF Watched
<1>7. CASE phase' # "load"
  BY <1>1, <1>3, <1>7 DEF Watched
<1> QED BY <1>2, <1>5, <1>6, <1>7

LEMMA WatchedNext ==
  ASSUME BenchIInv, Sold, Watched, BenchNext \/ UNCHANGED benchVars  PROVE Watched'
<1>1. CASE UNCHANGED benchVars
  <2>1. UNCHANGED <<phase, errs, booked, slot, hurt>>
    BY <1>1 DEF benchVars
  <2>2. Pretested'
    BY <2>1, PretestedSame DEF Watched
  <2>3. Free(TesterTrip, TesterCar)' = Free(TesterTrip, TesterCar)
    BY <2>1 DEF Free, TesterCar
  <2>4. TesterKnows => TesterKnows'
    BY <2>1, <2>3 DEF TesterKnows
  <2> QED BY <2>1, <2>2, <2>4 DEF Watched
<1>2. ASSUME NEW g \in Goroutine, Passenger(g)  PROVE Watched'
  <2>1. BenchIInv'
    BY <1>2, PassengerInv
  <2> QED BY <1>2, <2>1, WatchedByPassenger
<1> QED BY <1>1, <1>2, WatchedByTester, WatchedAtStart, WatchedByMain DEF BenchNext

LEMMA InitWatched == ASSUME BenchInit  PROVE Watched
<1>1. phase = "off" /\ booked = << >>
  BY DEF BenchInit
<1>2. slot[tester] = TesterIdle /\ \A g \in Load : slot[g] = Done
  BY BenchAssumption DEF BenchInit, NoGoroutines, Goroutine
<1>3. Pretested
  BY <1>1, <1>2 DEF Pretested, EarlyPhase, PretestPhase
<1> QED BY <1>1, <1>2, <1>3 DEF Watched, LoadTrips

(* A wrong sign has its reason.                                            *)
LEMMA NotAloneNext ==
  ASSUME BenchIInv, Sold, Watched, TesterWasNotAlone, BenchNext \/ UNCHANGED benchVars
  PROVE  TesterWasNotAlone'
<1> DEFINE Because(parties, books) == "tester" \in parties \/ Rivals(books)
<1>0. /\ TesterWasNotAlone <=> ("sign" \in errs.msgs => Because(hurt, booked))
      /\ TesterWasNotAlone' <=> ("sign" \in errs'.msgs => Because(hurt', booked'))
  BY DEF TesterWasNotAlone, Rivals, TesterRival
<1>1. ASSUME NEW g, Grows(g), hurt \subseteq hurt', "sign" \in errs'.msgs => "sign" \in errs.msgs
      PROVE  TesterWasNotAlone'
  BY <1>0, <1>1, RivalsRemain
<1>2. CASE UNCHANGED benchVars
  BY <1>2 DEF benchVars, TesterWasNotAlone, TesterRival
<1>3. ASSUME NEW g \in Goroutine, Passenger(g)  PROVE TesterWasNotAlone'
  BY <1>1, <1>3, PassengerSold, PassengerErrs DEF StaysSold, MildErrs
<1>4. CASE Tester
  <2>1. Grows(tester) /\ TesterKnows
    BY <1>4, TesterSold, TesterPhase DEF StaysSold, Watched
  <2>2. /\ hurt \subseteq hurt'
        /\ "sign" \in errs'.msgs => "sign" \in errs.msgs \/ "tester" \in hurt' \/ Rivals(booked')
    BY <1>4, <2>1, TesterKnowsNext
  <2> QED BY <1>0, <1>1, <2>1, <2>2
<1>5. CASE StartScenario \/ Main
  <2>1. UNCHANGED booked /\ hurt \subseteq hurt' /\ errs'.msgs = errs.msgs
    BY <1>5, MainLeaves DEF StartScenario
  <2> QED BY <1>0, <2>1
<1> QED BY <1>2, <1>3, <1>4, <1>5 DEF BenchNext
=============================================================================
