---------------------------- MODULE SearchProofs ----------------------------
(***************************************************************************)
(* Proofs about the train search and the seat map, for every timetable,    *)
(* every car and every sequence of bookings made and released meanwhile;   *)
(* and about the fares, for every journey.                                 *)
(***************************************************************************)
EXTENDS TrainSearch, Fare, SectionsProofs, FiniteSetTheorems

-----------------------------------------------------------------------------
(* The inductive invariant.                                                *)

SignType == {"none", "few", "plenty"}

PlainDesk == [pc : {"idle", "refused", "panicked"}]
SearchingDesk == [pc : {"searching"}, ask : Searches, left : SUBSET DOMAIN TrainOf,
                  train : DOMAIN TrainOf \cup {NoTrain}, signs : Seq(SignType),
                  answer : Seq([train : DOMAIN TrainOf, signs : Seq(SignType)])]
AnsweredDesk == [pc : {"answered"}, ask : Searches,
                 answer : Seq([train : DOMAIN TrainOf, signs : Seq(SignType)])]
MapDesk == [pc : {"map", "map shown"}, ask : Maps, left : SUBSET Int, place : Int,
            rows : SUBSET Nat, shown : SUBSET Int, held : SUBSET Int]

(* The trains an answer should consist of.                                 *)
Good(ask) == {t \in Candidates(ask) : OnRoute(t, ask) /\ LeavesLater(t, ask)}

Listed(d) == {d.answer[n].train : n \in DOMAIN d.answer}

(* What answers have in common: only good trains, each with its signs, and *)
(* no more than fit.                                                       *)
AnswerOK(d) ==
  /\ Len(d.answer) <= MaxResults
  /\ Listed(d) \subseteq Good(d.ask)
  /\ \A n \in DOMAIN d.answer : Len(d.answer[n].signs) = Len(Kinds)

(* A train whose seats are counted is a good one that still fits; until    *)
(* the answer is full every good train is in it, is being looked at or is  *)
(* still to come.                                                          *)
SearchingOK(d) ==
  /\ d \in SearchingDesk /\ AnswerOK(d) /\ d.left \subseteq Candidates(d.ask)
  /\ d.train # NoTrain \/ d.left # {} => Len(d.answer) < MaxResults
  /\ d.train # NoTrain => d.train \in Good(d.ask) /\ Len(d.signs) <= Len(Kinds)
  /\ d.train = NoTrain => d.signs = << >>
  /\ Len(d.answer) < MaxResults => Good(d.ask) \subseteq Listed(d) \cup d.left \cup {d.train}

AnsweredOK(d) ==
  /\ d \in AnsweredDesk /\ AnswerOK(d)
  /\ Len(d.answer) < MaxResults => Good(d.ask) \subseteq Listed(d)

(* A row read for the place decides it: it is of a reservation in the way, *)
(* or of one released since, whose number is not given out again.          *)
Decides(i, ask) ==
  i \in DOMAIN ledger => OccupiesSeat(ask.train, ask.from, ask.to, ledger[i].from, ledger[i].to)

Onward(ask) == Forward(TrainOf[ask.train].up, ask.from, ask.to)

MapOK(d) ==
  /\ d \in MapDesk
  /\ d.shown \cup d.held \cup d.left \subseteq CarPlaces[TrainOf[d.ask.train].class][d.ask.car]
  /\ d.rows # {} => d.place \in CarPlaces[TrainOf[d.ask.train].class][d.ask.car]
  /\ d.rows \subseteq (1 .. issued) \ pending
  /\ Onward(d.ask) => d.held \ {d.place} \subseteq d.shown
  /\ Onward(d.ask) /\ d.place \in d.held \ d.shown => \E i \in d.rows : Decides(i, d.ask)
  /\ d.pc = "map shown" => d.rows = {}

DeskOK(d) == d \in PlainDesk \/ SearchingOK(d) \/ AnsweredOK(d) \/ MapOK(d)

LedgerOK ==
  /\ issued \in Nat
  /\ DOMAIN ledger \subseteq 1 .. issued
  /\ pending \subseteq (1 .. issued) \ DOMAIN ledger
  /\ \A i \in DOMAIN ledger : ledger[i] \in Journey

Desk == PlainDesk \cup SearchingDesk \cup AnsweredDesk \cup MapDesk

SearchIInv ==
  /\ LedgerOK
  /\ desk \in [Reader -> Desk]
  /\ \A r \in Reader : DeskOK(desk[r])

-----------------------------------------------------------------------------
(* Steps of the ledger.                                                    *)

(* Numbers are given out once, and booked journeys are journeys.           *)
LEMMA LedgerStep ==
  ASSUME LedgerOK, Reserves \/ Releases
  PROVE  /\ LedgerOK'
         /\ issued <= issued' /\ issued' \in Nat
         /\ (1 .. issued) \cap pending' \subseteq pending
         /\ \A i \in (1 .. issued) \ pending :
              i \in DOMAIN ledger' => i \in DOMAIN ledger /\ ledger'[i] = ledger[i]
<1>1. CASE Issue
  BY <1>1 DEF Issue, LedgerOK
<1>2. ASSUME NEW i \in pending, NEW j \in Journey, Book(i, j)
      PROVE  /\ LedgerOK' /\ issued' = issued /\ pending' \subseteq pending
             /\ \A k \in (1 .. issued) \ pending :
                  k \in DOMAIN ledger' => k \in DOMAIN ledger /\ ledger'[k] = ledger[k]
  BY <1>2 DEF Book, LedgerOK
<1>3. ASSUME NEW i \in DOMAIN ledger, Release(i)
      PROVE  /\ LedgerOK' /\ issued' = issued /\ pending' = pending
             /\ \A k \in (1 .. issued) \ pending :
                  k \in DOMAIN ledger' => k \in DOMAIN ledger /\ ledger'[k] = ledger[k]
  BY <1>3 DEF Release, LedgerOK
<1>4. issued \in Nat
  BY DEF LedgerOK
<1> QED BY <1>1, <1>2, <1>3, <1>4 DEF Reserves, Releases

(* No request notices them before it reads again.                          *)
LEMMA DesksOutliveLedgerSteps ==
  ASSUME SearchIInv, Reserves \/ Releases
  PROVE  SearchIInv'
<1>1. /\ LedgerOK' /\ issued <= issued' /\ issued' \in Nat /\ issued \in Nat
      /\ (1 .. issued) \cap pending' \subseteq pending
      /\ \A i \in (1 .. issued) \ pending :
           i \in DOMAIN ledger' => i \in DOMAIN ledger /\ ledger'[i] = ledger[i]
  BY LedgerStep DEF SearchIInv, LedgerOK
<1>2. desk' = desk
  BY DEF Reserves, Releases
<1>3. ASSUME NEW r \in Reader  PROVE DeskOK(desk[r])'
  <2> DEFINE d == desk[r]
  <2>1. DeskOK(d)
    BY DEF SearchIInv
  <2>2. CASE d \in PlainDesk
    BY <1>2, <2>2 DEF DeskOK
  <2>3. CASE SearchingOK(d)
    BY <1>2, <2>3 DEF DeskOK, SearchingOK, AnswerOK, Listed, Good, Candidates, UsableClass, OnRoute, LeavesLater
  <2>4. CASE AnsweredOK(d)
    BY <1>2, <2>4 DEF DeskOK, AnsweredOK, AnswerOK, Listed, Good, Candidates, UsableClass, OnRoute, LeavesLater
  <2>5. CASE MapOK(d)
    <3>1. d.rows \subseteq (1 .. issued) \ pending /\ d.rows \subseteq (1 .. issued') \ pending'
      <4>1. d.rows \subseteq (1 .. issued) \ pending
        BY <2>5 DEF MapOK
      <4>2. ASSUME NEW i \in d.rows  PROVE i \in 1 .. issued' /\ i \notin pending'
        <5>1. i \in 1 .. issued /\ i \notin pending
          BY <4>1
        <5> HIDE DEF d
        <5> QED BY <1>1, <5>1
      <4> QED BY <4>1, <4>2
    <3>2. ASSUME NEW i \in d.rows, Decides(i, d.ask)
          PROVE  i \in DOMAIN ledger' =>
                   OccupiesSeat(d.ask.train, d.ask.from, d.ask.to, ledger'[i].from, ledger'[i].to)
      BY <1>1, <3>1, <3>2 DEF Decides
    <3>3. MapOK(d)'
      BY <1>2, <2>5, <3>1, <3>2 DEF MapOK, Decides, Onward, Forward, OccupiesSeat
    <3> QED BY <3>3 DEF DeskOK
  <2> QED BY <2>1, <2>2, <2>3, <2>4, <2>5 DEF DeskOK
<1> QED BY <1>1, <1>2, <1>3 DEF SearchIInv

-----------------------------------------------------------------------------
(* Steps of a request.                                                     *)

LEMMA DeskTypes ==
  ASSUME NEW d, DeskOK(d)
  PROVE  d \in Desk
  BY DEF DeskOK, SearchingOK, AnsweredOK, MapOK, Desk

(* A step that only changes one request.                                   *)
LEMMA OneDeskStep ==
  ASSUME SearchIInv, NEW r \in Reader, NEW d,
         desk' = [desk EXCEPT ![r] = d], DeskOK(d), UNCHANGED ledgerVars
  PROVE  SearchIInv'
<1>1. LedgerOK'
  BY DEF LedgerOK, SearchIInv, ledgerVars
<1>2. desk' \in [Reader -> Desk]
  BY DeskTypes DEF SearchIInv
<1>3. \A q \in Reader : DeskOK(desk'[q])
  BY DEF SearchIInv
<1>4. ASSUME NEW q \in Reader  PROVE DeskOK(desk[q])'
  <2>1. UNCHANGED <<ledger, issued, pending>>
    BY DEF ledgerVars
  <2>2. DeskOK(desk'[q])
    BY <1>3
  <2>3. CASE desk'[q] \in PlainDesk
    BY <2>3 DEF DeskOK
  <2>4. CASE SearchingOK(desk'[q])
    BY <2>4 DEF DeskOK, SearchingOK, AnswerOK, Listed, Good, Candidates, UsableClass, OnRoute, LeavesLater
  <2>5. CASE AnsweredOK(desk'[q])
    BY <2>5 DEF DeskOK, AnsweredOK, AnswerOK, Listed, Good, Candidates, UsableClass, OnRoute, LeavesLater
  <2>6. CASE MapOK(desk'[q])
    BY <2>1, <2>6 DEF DeskOK, MapOK, Decides, Onward, Forward, OccupiesSeat
  <2> QED BY <2>2, <2>3, <2>4, <2>5, <2>6 DEF DeskOK
<1> QED BY <1>1, <1>2, <1>4 DEF SearchIInv

(* Which case of DeskOK a request is in shows in its pc.                   *)
LEMMA DeskCases ==
  ASSUME NEW d, DeskOK(d)
  PROVE  /\ d.pc = "searching" => SearchingOK(d)
         /\ d.pc = "answered" => AnsweredOK(d)
         /\ d.pc \in {"map", "map shown"} => MapOK(d)
  BY DEF DeskOK, PlainDesk, SearchingOK, SearchingDesk, AnsweredOK, AnsweredDesk, MapOK, MapDesk

LEMMA KindsLength == Len(Kinds) = 4
  BY DEF Kinds

LEMMA InitInv == SearchInit => SearchIInv
<1> SUFFICES ASSUME SearchInit  PROVE SearchIInv
  OBVIOUS
<1>1. LedgerOK
  BY DEF SearchInit, LedgerInit, LedgerOK
<1>2. Idle \in PlainDesk
  BY DEF Idle, PlainDesk
<1> QED BY <1>1, <1>2 DEF SearchInit, SearchIInv, DeskOK, Desk

(* The handlers of the search.                                             *)
LEMMA BeginsInv ==
  ASSUME SearchIInv, NEW r \in Reader, SearchBegins(r)  PROVE SearchIInv'
<1>1. PICK ask \in Searches :
        desk' = [desk EXCEPT ![r] =
          IF Bookable(ask.day)
            THEN [pc |-> "searching", ask |-> ask, left |-> Candidates(ask),
                  train |-> NoTrain, signs |-> << >>, answer |-> << >>]
            ELSE [pc |-> "refused"]]
  BY DEF SearchBegins
<1> DEFINE d == [pc |-> "searching", ask |-> ask, left |-> Candidates(ask),
                 train |-> NoTrain, signs |-> << >>, answer |-> << >>]
           e == [pc |-> "refused"]
<1>2. DeskOK(d)
  <2>1. Candidates(ask) \subseteq DOMAIN TrainOf
    BY DEF Candidates
  <2>2. d \in SearchingDesk
    BY <2>1 DEF SearchingDesk
  <2>3. AnswerOK(d)
    BY SearchAssumption DEF AnswerOK, Listed
  <2>4. Good(ask) \subseteq Candidates(ask)
    BY DEF Good
  <2>5. SearchingOK(d)
    BY <2>2, <2>3, <2>4, SearchAssumption DEF SearchingOK
  <2> QED BY <2>5 DEF DeskOK
<1>3. DeskOK(e)
  BY DEF DeskOK, PlainDesk
<1>4. UNCHANGED ledgerVars
  BY DEF SearchBegins
<1>5. CASE Bookable(ask.day)
  <2>1. desk' = [desk EXCEPT ![r] = d]
    BY <1>1, <1>5
  <2> HIDE DEF d
  <2> QED BY <2>1, <1>2, <1>4, OneDeskStep
<1>6. CASE ~Bookable(ask.day)
  <2>1. desk' = [desk EXCEPT ![r] = e]
    BY <1>1, <1>6
  <2> HIDE DEF e
  <2> QED BY <2>1, <1>3, <1>4, OneDeskStep
<1> QED BY <1>5, <1>6

LEMMA NextTrainInv ==
  ASSUME SearchIInv, NEW r \in Reader, NextTrain(r)  PROVE SearchIInv'
<1>1. PICK t \in desk[r].left :
        desk' = [desk EXCEPT ![r].left = @ \ {t},
                             ![r].train = IF OnRoute(t, desk[r].ask) /\ LeavesLater(t, desk[r].ask)
                                            THEN t ELSE NoTrain]
  BY DEF NextTrain
<1> DEFINE c == desk[r]
           shown == OnRoute(t, c.ask) /\ LeavesLater(t, c.ask)
           d == [c EXCEPT !.left = @ \ {t}, !.train = IF shown THEN t ELSE NoTrain]
<1>2. SearchingOK(c) /\ c.train = NoTrain /\ UNCHANGED ledgerVars
  BY DeskCases DEF NextTrain, SearchIInv
<1>3. desk' = [desk EXCEPT ![r] = d]
  BY <1>1
<1>4. c \in SearchingDesk /\ t \in DOMAIN TrainOf
  BY <1>2 DEF SearchingOK, SearchingDesk
<1>5. /\ d.pc = "searching" /\ d.ask = c.ask /\ d.answer = c.answer /\ d.signs = c.signs
      /\ d.left = c.left \ {t} /\ d.train = (IF shown THEN t ELSE NoTrain)
      /\ d \in SearchingDesk
  BY <1>4 DEF SearchingDesk
<1>6. t \in Candidates(c.ask)
  BY <1>2 DEF SearchingOK
<1>7. shown <=> t \in Good(c.ask)
  BY <1>6 DEF Good
<1> HIDE DEF c, d, shown
<1>8. AnswerOK(d) /\ Listed(d) = Listed(c)
  BY <1>2, <1>5 DEF SearchingOK, AnswerOK, Listed
<1>9. NoTrain \notin Good(c.ask)
  BY SearchAssumption DEF Good, Candidates
<1>10. c.left # {} /\ Len(c.answer) < MaxResults
  <2>1. t \in c.left
    BY DEF c
  <2> QED BY <1>2, <2>1 DEF SearchingOK
<1>11. SearchingOK(d)
  BY <1>2, <1>5, <1>7, <1>8, <1>9, <1>10, KindsLength DEF SearchingOK
<1>12. DeskOK(d)
  BY <1>11 DEF DeskOK
<1> QED BY <1>2, <1>3, <1>12, OneDeskStep

LEMMA AppendFacts ==
  ASSUME NEW S, NEW q \in Seq(S), NEW e \in S
  PROVE  /\ Append(q, e) \in Seq(S) /\ Len(q) \in Nat /\ DOMAIN q = 1 .. Len(q)
         /\ Len(Append(q, e)) = Len(q) + 1 /\ DOMAIN Append(q, e) = 1 .. Len(q) + 1
         /\ \A n \in DOMAIN q : Append(q, e)[n] = q[n]
         /\ Append(q, e)[Len(q) + 1] = e
  OBVIOUS

LEMMA SeqElement ==
  ASSUME NEW S, NEW q \in Seq(S), NEW n \in DOMAIN q  PROVE q[n] \in S
  OBVIOUS

LEMMA CountSeatsInv ==
  ASSUME SearchIInv, NEW r \in Reader, CountSeats(r)  PROVE SearchIInv'
<1> DEFINE c == desk[r]
           free == AvailableSeats(c.train, c.ask.from, c.ask.to, Kinds[Len(c.signs) + 1])
           signs == Append(c.signs, Sign(Cardinality(free)))
           d == [c EXCEPT !.signs = signs]
<1>1. SearchingOK(c) /\ c.train # NoTrain /\ Len(c.signs) < Len(Kinds) /\ UNCHANGED ledgerVars
  BY DeskCases DEF CountSeats, SearchIInv
<1>2. desk' = [desk EXCEPT ![r] = d]
  BY DEF CountSeats
<1>3. Sign(Cardinality(free)) \in SignType
  BY DEF Sign, SignType
<1> HIDE DEF free
<1>4. c \in SearchingDesk
  BY <1>1 DEF SearchingOK
<1>7. c.signs \in Seq(SignType)
  BY <1>4 DEF SearchingDesk
<1>10. signs \in Seq(SignType) /\ Len(signs) = Len(c.signs) + 1
  <2> HIDE DEF c
  <2> QED BY <1>3, <1>7, AppendFacts
<1> HIDE DEF c, signs
<1>5. /\ d.pc = "searching" /\ d.ask = c.ask /\ d.answer = c.answer /\ d.left = c.left
      /\ d.train = c.train /\ Len(d.signs) = Len(c.signs) + 1
      /\ d \in SearchingDesk
  BY <1>4, <1>10 DEF SearchingDesk
<1> HIDE DEF d
<1>6. AnswerOK(d) /\ Listed(d) = Listed(c)
  BY <1>1, <1>5 DEF SearchingOK, AnswerOK, Listed
<1>8. SearchingOK(d)
  BY <1>1, <1>5, <1>6, <1>7, KindsLength DEF SearchingOK
<1>9. DeskOK(d)
  BY <1>8 DEF DeskOK
<1> QED BY <1>1, <1>2, <1>9, OneDeskStep

LEMMA AddTrainInv ==
  ASSUME SearchIInv, NEW r \in Reader, AddTrain(r)  PROVE SearchIInv'
<1> DEFINE c == desk[r]
           new == [train |-> c.train, signs |-> c.signs]
           answer == Append(c.answer, new)
           left == IF Len(answer) >= MaxResults THEN {} ELSE c.left
           d == [c EXCEPT !.answer = answer, !.train = NoTrain, !.signs = << >>, !.left = left]
<1>1. SearchingOK(c) /\ Len(c.signs) = Len(Kinds) /\ UNCHANGED ledgerVars
  BY DeskCases DEF AddTrain, SearchIInv
<1>2. desk' = [desk EXCEPT ![r] = d]
  BY DEF AddTrain
<1>3. c \in SearchingDesk
  BY <1>1 DEF SearchingOK
<1>4. c.train # NoTrain
  BY <1>1, KindsLength DEF SearchingOK
<1>5. /\ c.answer \in Seq([train : DOMAIN TrainOf, signs : Seq(SignType)])
      /\ new \in [train : DOMAIN TrainOf, signs : Seq(SignType)]
  BY <1>3, <1>4 DEF SearchingDesk
<1>7. /\ new.train = c.train /\ new.signs = c.signs
  OBVIOUS
<1> HIDE DEF c, new
<1>8. /\ Len(answer) = Len(c.answer) + 1 /\ DOMAIN answer = 1 .. Len(answer)
      /\ DOMAIN c.answer = 1 .. Len(c.answer) /\ Len(c.answer) \in Nat
      /\ \A n \in DOMAIN c.answer : answer[n] = c.answer[n]
      /\ answer[Len(c.answer) + 1] = new
  BY <1>5, AppendFacts
<1>14. answer \in Seq([train : DOMAIN TrainOf, signs : Seq(SignType)])
  BY <1>5, AppendFacts
<1>15. left \in SUBSET DOMAIN TrainOf
  BY <1>3 DEF SearchingDesk
<1> HIDE DEF answer, left
<1>6. /\ d.pc = "searching" /\ d.ask = c.ask /\ d.answer = answer /\ d.left = left
      /\ d.train = NoTrain /\ d.signs = << >> /\ d \in SearchingDesk
  <2> DEFINE none == << >>
             e == [c EXCEPT !.answer = answer, !.train = NoTrain, !.signs = none, !.left = left]
  <2>1. none \in Seq(SignType) /\ e = d
    OBVIOUS
  <2> HIDE DEF none, d
  <2>2. /\ e.pc = "searching" /\ e.ask = c.ask /\ e.answer = answer /\ e.train = NoTrain
        /\ e.signs = none /\ e.left = left /\ e \in SearchingDesk
    BY <1>3, <1>14, <1>15, <2>1 DEF SearchingDesk
  <2> HIDE DEF e
  <2> QED BY <2>1, <2>2 DEF none
<1> HIDE DEF d
<1>9. Listed(d) = Listed(c) \cup {c.train}
  BY <1>6, <1>7, <1>8 DEF Listed
<1>10. Len(c.answer) < MaxResults /\ c.train \in Good(c.ask)
  BY <1>1, <1>4 DEF SearchingOK
<1>11. AnswerOK(d)
  <2>1. \A n \in DOMAIN d.answer : Len(d.answer[n].signs) = Len(Kinds)
    BY <1>1, <1>6, <1>7, <1>8 DEF SearchingOK, AnswerOK
  <2>2. Listed(d) \subseteq Good(d.ask)
    BY <1>1, <1>6, <1>9, <1>10 DEF SearchingOK, AnswerOK
  <2>3. Len(d.answer) <= MaxResults
    BY <1>6, <1>8, <1>10, SearchAssumption
  <2> QED BY <2>1, <2>2, <2>3 DEF AnswerOK
<1>12. SearchingOK(d)
  <2>1. left \subseteq Candidates(c.ask) /\ (left # {} => Len(answer) < MaxResults)
    BY <1>1, <1>8, SearchAssumption DEF SearchingOK, left
  <2>2. Len(d.answer) < MaxResults => Good(d.ask) \subseteq Listed(d) \cup d.left \cup {d.train}
    BY <1>1, <1>6, <1>8, <1>9, <1>10, SearchAssumption DEF SearchingOK, left
  <2> QED BY <1>6, <1>11, <2>1, <2>2 DEF SearchingOK
<1>13. DeskOK(d)
  BY <1>12 DEF DeskOK
<1> QED BY <1>1, <1>2, <1>13, OneDeskStep

LEMMA SearchAnswersInv ==
  ASSUME SearchIInv, NEW r \in Reader, SearchAnswers(r)  PROVE SearchIInv'
<1> DEFINE c == desk[r]
           d == [pc |-> "answered", ask |-> c.ask, answer |-> c.answer]
<1>1. SearchingOK(c) /\ c.train = NoTrain /\ c.left = {} /\ UNCHANGED ledgerVars
  BY DeskCases DEF SearchAnswers, SearchIInv
<1>2. desk' = [desk EXCEPT ![r] = d]
  BY DEF SearchAnswers
<1>3. d.pc = "answered" /\ d.ask = c.ask /\ d.answer = c.answer /\ d \in AnsweredDesk
  BY <1>1 DEF SearchingOK, SearchingDesk, AnsweredDesk
<1> HIDE DEF c, d
<1>4. AnswerOK(d) /\ Listed(d) = Listed(c)
  BY <1>1, <1>3 DEF SearchingOK, AnswerOK, Listed
<1>5. NoTrain \notin Good(c.ask)
  BY SearchAssumption DEF Good, Candidates
<1>6. DeskOK(d)
  BY <1>1, <1>3, <1>4, <1>5 DEF DeskOK, SearchingOK, AnsweredOK
<1> QED BY <1>1, <1>2, <1>6, OneDeskStep

-----------------------------------------------------------------------------
(* The handler of the seat map.                                            *)

Car(ask) == CarPlaces[TrainOf[ask.train].class][ask.car]

LEMMA MapBeginsInv ==
  ASSUME SearchIInv, NEW r \in Reader, MapBegins(r)  PROVE SearchIInv'
<1>1. PICK ask \in Maps :
        desk' = [desk EXCEPT ![r] =
          IF Bookable(TrainOf[ask.train].day)
             /\ TrainOf[ask.train].class \in UsableClass(ask.from, ask.to)
            THEN [pc |-> "map", ask |-> ask, left |-> Car(ask),
                  place |-> 0, rows |-> {}, shown |-> {}, held |-> {}]
            ELSE [pc |-> "refused"]]
  BY DEF MapBegins, Car
<1> DEFINE d == [pc |-> "map", ask |-> ask, left |-> Car(ask),
                 place |-> 0, rows |-> {}, shown |-> {}, held |-> {}]
           e == [pc |-> "refused"]
<1>2. DeskOK(d)
  <2>1. Car(ask) \subseteq Int
    BY SearchAssumption DEF Car
  <2>2. d \in MapDesk
    BY <2>1 DEF MapDesk
  <2>3. MapOK(d)
    BY <2>2 DEF MapOK, Car
  <2> QED BY <2>3 DEF DeskOK
<1>3. DeskOK(e)
  BY DEF DeskOK, PlainDesk
<1>4. UNCHANGED ledgerVars
  BY DEF MapBegins
<1>5. desk' = [desk EXCEPT ![r] = d] \/ desk' = [desk EXCEPT ![r] = e]
  BY <1>1
<1> HIDE DEF d, e
<1> QED BY <1>2, <1>3, <1>4, <1>5, OneDeskStep

LEMMA ReadPlaceInv ==
  ASSUME SearchIInv, NEW r \in Reader, ReadPlace(r)  PROVE SearchIInv'
<1> DEFINE c == desk[r]
<1>1. MapOK(c) /\ c.pc = "map" /\ c.rows = {} /\ UNCHANGED ledgerVars /\ LedgerOK
  BY DeskCases DEF ReadPlace, SearchIInv
<1>2. PICK place \in c.left :
        desk' = [desk EXCEPT ![r].left = @ \ {place}, ![r].place = place,
                             ![r].rows = RowsOfPlace(c.ask.train, place),
                             ![r].held = IF Held(c.ask, place) THEN @ \cup {place} ELSE @]
  BY DEF ReadPlace
<1> DEFINE left == c.left \ {place}
           rows == RowsOfPlace(c.ask.train, place)
           held == IF Held(c.ask, place) THEN c.held \cup {place} ELSE c.held
           d == [c EXCEPT !.left = left, !.place = place, !.rows = rows, !.held = held]
<1>3. desk' = [desk EXCEPT ![r] = d]
  BY <1>2
<1>4. c \in MapDesk /\ place \in Car(c.ask) /\ place \in Int
  BY <1>1 DEF MapOK, MapDesk, Car
<1>5. rows \subseteq DOMAIN ledger
  BY DEF RowsOfPlace
<1>6. rows \subseteq (1 .. issued) \ pending /\ rows \subseteq Nat
  BY <1>1, <1>5 DEF LedgerOK
<1>7. left \in SUBSET Int /\ held \in SUBSET Int /\ held \subseteq c.held \cup {place}
  BY <1>4 DEF MapDesk
<1>8. Onward(c.ask) /\ Held(c.ask, place) => \E i \in rows : Decides(i, c.ask)
  <2> SUFFICES ASSUME Onward(c.ask), Held(c.ask, place)
               PROVE  \E i \in rows : Decides(i, c.ask)
    OBVIOUS
  <2>1. PICK i \in DOMAIN ledger :
          /\ ledger[i].train = c.ask.train /\ place \in ledger[i].taken
          /\ Forward(TrainOf[c.ask.train].up, ledger[i].from, ledger[i].to)
          /\ Overlap(c.ask.from, c.ask.to, ledger[i].from, ledger[i].to)
    BY DEF Held
  <2>2. i \in rows
    BY <2>1 DEF RowsOfPlace
  <2>3. c.ask \in Maps
    BY <1>4 DEF MapDesk
  <2>4. /\ TrainOf[c.ask.train].up \in BOOLEAN
        /\ c.ask.from \in Int /\ c.ask.to \in Int
        /\ ledger[i].from \in Int /\ ledger[i].to \in Int
    BY <1>1, <2>3, SearchAssumption DEF LedgerOK
  <2>5. Forward(TrainOf[c.ask.train].up, c.ask.from, c.ask.to)
    BY DEF Onward
  <2> HIDE DEF c, rows
  <2>6. Decides(i, c.ask)
    BY <2>1, <2>4, <2>5, SectionDupExact DEF Decides, OccupiesSeat
  <2> QED BY <2>2, <2>6
<1>9. place \in held \ c.shown => Held(c.ask, place) \/ place \in c.held
  OBVIOUS
<1> HIDE DEF c, left, rows, held
<1>10. /\ d.pc = "map" /\ d.ask = c.ask /\ d.left = left /\ d.place = place /\ d.rows = rows
       /\ d.shown = c.shown /\ d.held = held /\ d \in MapDesk
  BY <1>1, <1>4, <1>6, <1>7 DEF MapDesk
<1> HIDE DEF d
<1>11. Onward(c.ask) => c.held \subseteq c.shown
  BY <1>1 DEF MapOK
<1>12. MapOK(d)
  <2>1. d.shown \cup d.held \cup d.left \subseteq Car(d.ask)
    BY <1>1, <1>4, <1>7, <1>10 DEF MapOK, Car, left
  <2>2. Onward(d.ask) => d.held \ {d.place} \subseteq d.shown
    BY <1>7, <1>10, <1>11
  <2>3. Onward(d.ask) /\ d.place \in d.held \ d.shown => \E i \in d.rows : Decides(i, d.ask)
    BY <1>8, <1>9, <1>10, <1>11
  <2> QED BY <1>4, <1>6, <1>10, <2>1, <2>2, <2>3 DEF MapOK, Car
<1>13. DeskOK(d)
  BY <1>12 DEF DeskOK
<1> QED BY <1>1, <1>3, <1>13, OneDeskStep

LEMMA ReadRowInv ==
  ASSUME SearchIInv, NEW r \in Reader, ReadRow(r)  PROVE SearchIInv'
<1> DEFINE c == desk[r]
<1>1. MapOK(c) /\ c.pc = "map" /\ UNCHANGED ledgerVars
  BY DeskCases DEF ReadRow, SearchIInv
<1>2. PICK i \in c.rows :
        \/ i \notin DOMAIN ledger /\ desk' = [desk EXCEPT ![r] = [pc |-> "panicked"]]
        \/ /\ i \in DOMAIN ledger
           /\ desk' = [desk EXCEPT ![r].rows = @ \ {i},
                                   ![r].shown =
                IF OccupiesSeat(c.ask.train, c.ask.from, c.ask.to, ledger[i].from, ledger[i].to)
                  THEN @ \cup {c.place} ELSE @]
  BY DEF ReadRow
<1> DEFINE rows == c.rows \ {i}
           busy == OccupiesSeat(c.ask.train, c.ask.from, c.ask.to, ledger[i].from, ledger[i].to)
           shown == IF busy THEN c.shown \cup {c.place} ELSE c.shown
           d == [c EXCEPT !.rows = rows, !.shown = shown]
           e == [pc |-> "panicked"]
<1>3. CASE i \in DOMAIN ledger
  <2>1. desk' = [desk EXCEPT ![r] = d]
    BY <1>2, <1>3
  <2>2. c \in MapDesk /\ c.place \in Int /\ c.place \in Car(c.ask)
    BY <1>1 DEF MapOK, MapDesk, Car
  <2>3. rows \in SUBSET Nat /\ shown \in SUBSET Int
    BY <2>2 DEF MapDesk
  <2>4. Decides(i, c.ask) => busy
    BY <1>3 DEF Decides
  <2>5. c.shown \subseteq shown /\ shown \subseteq c.shown \cup {c.place}
        /\ (busy => c.place \in shown)
    OBVIOUS
  <2> HIDE DEF c, shown, busy
  <2>6. /\ d.pc = "map" /\ d.ask = c.ask /\ d.left = c.left /\ d.place = c.place /\ d.rows = rows
        /\ d.shown = shown /\ d.held = c.held /\ d \in MapDesk
    BY <1>1, <2>2, <2>3 DEF MapDesk
  <2> HIDE DEF d
  <2>7. Onward(d.ask) /\ d.place \in d.held \ d.shown => \E k \in d.rows : Decides(k, d.ask)
    BY <1>1, <2>4, <2>5, <2>6 DEF MapOK
  <2>8. MapOK(d)
    BY <1>1, <2>2, <2>5, <2>6, <2>7 DEF MapOK, Car
  <2>9. DeskOK(d)
    BY <2>8 DEF DeskOK
  <2> QED BY <1>1, <2>1, <2>9, OneDeskStep
<1>4. CASE i \notin DOMAIN ledger
  <2>1. desk' = [desk EXCEPT ![r] = e]
    BY <1>2, <1>4
  <2>2. DeskOK(e)
    BY DEF DeskOK, PlainDesk
  <2> HIDE DEF e
  <2> QED BY <1>1, <2>1, <2>2, OneDeskStep
<1> QED BY <1>3, <1>4

LEMMA MapAnswersInv ==
  ASSUME SearchIInv, NEW r \in Reader, MapAnswers(r)  PROVE SearchIInv'
<1> DEFINE c == desk[r]
           d == [c EXCEPT !.pc = "map shown"]
<1>1. MapOK(c) /\ c.pc = "map" /\ c.rows = {} /\ UNCHANGED ledgerVars
  BY DeskCases DEF MapAnswers, SearchIInv
<1>2. desk' = [desk EXCEPT ![r] = d]
  BY DEF MapAnswers
<1>3. c \in MapDesk
  BY <1>1 DEF MapOK
<1> HIDE DEF c
<1>4. /\ d.ask = c.ask /\ d.left = c.left /\ d.place = c.place /\ d.rows = c.rows
      /\ d.shown = c.shown /\ d.held = c.held /\ d \in MapDesk
  BY <1>3 DEF MapDesk
<1> HIDE DEF d
<1>5. DeskOK(d)
  BY <1>1, <1>4 DEF DeskOK, MapOK
<1> QED BY <1>1, <1>2, <1>5, OneDeskStep

-----------------------------------------------------------------------------
(* The specification.                                                      *)

LEMMA NextInv == SearchIInv /\ [SearchNext]_searchVars => SearchIInv'
<1> SUFFICES ASSUME SearchIInv, [SearchNext]_searchVars  PROVE SearchIInv'
  OBVIOUS
<1>1. CASE Reserves \/ Releases
  BY <1>1, DesksOutliveLedgerSteps
<1>2. ASSUME NEW r \in Reader,
             SearchBegins(r) \/ NextTrain(r) \/ CountSeats(r) \/ AddTrain(r) \/ SearchAnswers(r)
      PROVE  SearchIInv'
  BY <1>2, BeginsInv, NextTrainInv, CountSeatsInv, AddTrainInv, SearchAnswersInv
<1>3. ASSUME NEW r \in Reader, MapBegins(r) \/ ReadPlace(r) \/ ReadRow(r) \/ MapAnswers(r)
      PROVE  SearchIInv'
  BY <1>3, MapBeginsInv, ReadPlaceInv, ReadRowInv, MapAnswersInv
<1>4. CASE UNCHANGED searchVars
  <2>1. UNCHANGED <<ledger, issued, pending, desk>>
    BY <1>4 DEF searchVars
  <2>2. LedgerOK' /\ (desk \in [Reader -> Desk])'
    BY <2>1 DEF LedgerOK, SearchIInv
  <2>3. ASSUME NEW r \in Reader  PROVE desk' = [desk EXCEPT ![r] = desk[r]]
    BY <2>1 DEF SearchIInv
  <2>4. ASSUME NEW r \in Reader  PROVE SearchIInv'
    <3>1. DeskOK(desk[r]) /\ UNCHANGED ledgerVars
      BY <2>1 DEF SearchIInv, ledgerVars
    <3> DEFINE d == desk[r]
    <3>2. desk' = [desk EXCEPT ![r] = d]
      BY <2>3
    <3> HIDE DEF d
    <3> QED BY <3>1, <3>2, OneDeskStep DEF d
  <2>5. CASE Reader = {}
    BY <2>2, <2>5 DEF SearchIInv
  <2> QED BY <2>4, <2>5
<1> QED BY <1>1, <1>2, <1>3, <1>4 DEF SearchNext

THEOREM SearchInvariance == SearchSpec => []SearchIInv
<1>1. SearchInit => SearchIInv
  BY InitInv
<1>2. SearchIInv /\ [SearchNext]_searchVars => SearchIInv'
  BY NextInv
<1> QED BY <1>1, <1>2, PTL DEF SearchSpec

(* A good train is one the reservation handler accepts.                    *)
LEMMA GoodIsAccepted ==
  ASSUME NEW ask \in Searches, NEW t \in Good(ask)
  PROVE  /\ t \in DOMAIN TrainOf /\ LeavesLater(t, ask)
         /\ {ask.from, ask.to} \subseteq Stops(TrainOf[t].class)
         /\ ask.from # ask.to => /\ AcceptsSection(TrainOf[t], ask.from, ask.to)
                                 /\ Forward(TrainOf[t].up, ask.from, ask.to)
<1>1. /\ t \in DOMAIN TrainOf /\ LeavesLater(t, ask) /\ OnRoute(t, ask)
      /\ TrainOf[t].class \in UsableClass(ask.from, ask.to)
      /\ TrainOf[t].up = (ask.from > ask.to)
  BY DEF Good, Candidates
<1>2. {ask.from, ask.to} \subseteq Stops(TrainOf[t].class)
  BY <1>1 DEF UsableClass
<1>3. /\ ask.from \in Int /\ ask.to \in Int
      /\ TrainOf[t].start \in Int /\ TrainOf[t].last \in Int /\ TrainOf[t].up \in BOOLEAN
  BY <1>1, SearchAssumption
<1>4. ASSUME ask.from # ask.to
      PROVE  AcceptsSection(TrainOf[t], ask.from, ask.to) /\ Forward(TrainOf[t].up, ask.from, ask.to)
  BY <1>1, <1>3, <1>4 DEF OnRoute, AcceptsSection, Forward
<1> QED BY <1>1, <1>2, <1>4

(* And the other way round.                                                *)
LEMMA AcceptedIsGood ==
  ASSUME NEW ask \in Searches, NEW t \in DOMAIN TrainOf,
         TrainOf[t].day = ask.day, LeavesLater(t, ask),
         ask.class \in {AnyClass, TrainOf[t].class},
         {ask.from, ask.to} \subseteq Stops(TrainOf[t].class),
         AcceptsSection(TrainOf[t], ask.from, ask.to),
         Forward(TrainOf[t].up, ask.from, ask.to)
  PROVE  t \in Good(ask)
<1>1. /\ ask.from \in Int /\ ask.to \in Int /\ TrainOf[t].class \in TrainClass
      /\ TrainOf[t].start \in Int /\ TrainOf[t].last \in Int /\ TrainOf[t].up \in BOOLEAN
  BY SearchAssumption
<1>2. TrainOf[t].up = (ask.from > ask.to) /\ OnRoute(t, ask)
  BY <1>1 DEF Forward, AcceptsSection, OnRoute
<1>3. TrainOf[t].class \in UsableClass(ask.from, ask.to)
  BY <1>1 DEF UsableClass
<1> QED BY <1>2, <1>3 DEF Good, Candidates

(* Every train of an answer can be reserved for the section asked          *)
(* (trainSearchHandler against trainReservationHandler).                   *)
THEOREM SearchResultsAreBookable == SearchSpec => []FoundTrainsAreAccepted
<1>1. SearchIInv => FoundTrainsAreAccepted
  <2> SUFFICES ASSUME SearchIInv, NEW r \in Reader, desk[r].pc \in {"searching", "answered"}
               PROVE  /\ Len(desk[r].answer) <= MaxResults
                      /\ \A t \in Found(r) :
                           /\ desk[r].ask.from # desk[r].ask.to
                                => /\ AcceptsSection(TrainOf[t], desk[r].ask.from, desk[r].ask.to)
                                   /\ Forward(TrainOf[t].up, desk[r].ask.from, desk[r].ask.to)
                           /\ {desk[r].ask.from, desk[r].ask.to} \subseteq Stops(TrainOf[t].class)
                           /\ LeavesLater(t, desk[r].ask)
    BY DEF FoundTrainsAreAccepted
  <2>1. SearchingOK(desk[r]) \/ AnsweredOK(desk[r])
    BY DeskCases DEF SearchIInv
  <2>2. AnswerOK(desk[r]) /\ desk[r].ask \in Searches
    BY <2>1 DEF SearchingOK, AnsweredOK, SearchingDesk, AnsweredDesk
  <2>3. Found(r) = Listed(desk[r])
    BY DEF Found, Listed
  <2>4. Found(r) \subseteq Good(desk[r].ask) /\ Len(desk[r].answer) <= MaxResults
    BY <2>2, <2>3 DEF AnswerOK
  <2> QED BY <2>2, <2>4, GoodIsAccepted
<1> QED BY <1>1, SearchInvariance, PTL

(* No train that can be reserved is left out of an answer with room for it. *)
THEOREM SearchIsComplete == SearchSpec => []NoTrainIsForgotten
<1>1. SearchIInv => NoTrainIsForgotten
  <2> SUFFICES ASSUME SearchIInv, NEW r \in Reader,
                      desk[r].pc = "answered", Len(desk[r].answer) < MaxResults,
                      NEW t \in DOMAIN TrainOf,
                      TrainOf[t].day = desk[r].ask.day, LeavesLater(t, desk[r].ask),
                      desk[r].ask.class \in {AnyClass, TrainOf[t].class},
                      {desk[r].ask.from, desk[r].ask.to} \subseteq Stops(TrainOf[t].class),
                      AcceptsSection(TrainOf[t], desk[r].ask.from, desk[r].ask.to),
                      Forward(TrainOf[t].up, desk[r].ask.from, desk[r].ask.to)
               PROVE  t \in Found(r)
    BY DEF NoTrainIsForgotten
  <2>1. AnsweredOK(desk[r])
    BY DeskCases DEF SearchIInv
  <2>2. desk[r].ask \in Searches
    BY <2>1 DEF AnsweredOK, AnsweredDesk
  <2>3. t \in Good(desk[r].ask)
    BY <2>2, AcceptedIsGood
  <2>4. Found(r) = Listed(desk[r])
    BY DEF Found, Listed
  <2> QED BY <2>1, <2>3, <2>4 DEF AnsweredOK
<1> QED BY <1>1, SearchInvariance, PTL

(* A finished seat map shows as taken every place that was held for the    *)
(* section when it was read, whatever has been booked or released since.   *)
THEOREM SeatMapsTellHolding == SearchSpec => []MapTellsHolding
<1>1. SearchIInv => MapTellsHolding
  <2> SUFFICES ASSUME SearchIInv, NEW r \in Reader, desk[r].pc = "map shown",
                      Forward(TrainOf[desk[r].ask.train].up, desk[r].ask.from, desk[r].ask.to)
               PROVE  desk[r].held \subseteq desk[r].shown
    BY DEF MapTellsHolding
  <2>1. MapOK(desk[r])
    BY DeskCases DEF SearchIInv
  <2> QED BY <2>1 DEF MapOK, Onward
<1> QED BY <1>1, SearchInvariance, PTL

(* Requests, answers and seat maps stay well-formed.                       *)
THEOREM SearchTyping == SearchSpec => []SearchTypeOK
<1>1. SearchIInv => SearchTypeOK
  <2> SUFFICES ASSUME SearchIInv, NEW r \in Reader
               PROVE
       \/ desk[r].pc \in {"idle", "refused", "panicked"}
       \/ /\ desk[r].pc \in {"searching", "answered"} /\ desk[r].ask \in Searches
          /\ \A n \in DOMAIN desk[r].answer :
               /\ desk[r].answer[n].train \in DOMAIN TrainOf
               /\ desk[r].answer[n].signs \in [1 .. Len(Kinds) -> {"none", "few", "plenty"}]
       \/ /\ desk[r].pc \in {"map", "map shown"} /\ desk[r].ask \in Maps
          /\ desk[r].shown \cup desk[r].held \cup desk[r].left
               \subseteq CarPlaces[TrainOf[desk[r].ask.train].class][desk[r].ask.car]
    BY DEF SearchTypeOK, SearchIInv
  <2> DEFINE d == desk[r]
  <2>1. DeskOK(d)
    BY DEF SearchIInv
  <2>2. CASE d \in PlainDesk
    BY <2>2 DEF PlainDesk
  <2>3. CASE SearchingOK(d) \/ AnsweredOK(d)
    <3>1. /\ d.pc \in {"searching", "answered"} /\ d.ask \in Searches /\ AnswerOK(d)
          /\ d.answer \in Seq([train : DOMAIN TrainOf, signs : Seq(SignType)])
      BY <2>3 DEF SearchingOK, AnsweredOK, SearchingDesk, AnsweredDesk
    <3> HIDE DEF d
    <3>2. ASSUME NEW n \in DOMAIN d.answer
          PROVE  /\ d.answer[n].train \in DOMAIN TrainOf
                 /\ d.answer[n].signs \in [1 .. Len(Kinds) -> SignType]
      <4>1. d.answer[n] \in [train : DOMAIN TrainOf, signs : Seq(SignType)]
        <5> DEFINE Entry == [train : DOMAIN TrainOf, signs : Seq(SignType)]
        <5>1. d.answer \in Seq(Entry)
          BY <3>1
        <5> HIDE DEF Entry
        <5>2. d.answer[n] \in Entry
          BY <5>1, SeqElement
        <5> QED BY <5>2 DEF Entry
      <4> DEFINE q == d.answer[n].signs
      <4>2. q \in Seq(SignType) /\ d.answer[n].train \in DOMAIN TrainOf
        BY <4>1
      <4>3. Len(q) = Len(Kinds)
        BY <3>1 DEF AnswerOK
      <4> HIDE DEF q
      <4>4. q \in [1 .. Len(Kinds) -> SignType]
        BY <4>2, <4>3
      <4> QED BY <4>2, <4>4 DEF q
    <3>3. \A n \in DOMAIN d.answer :
            /\ d.answer[n].train \in DOMAIN TrainOf
            /\ d.answer[n].signs \in [1 .. Len(Kinds) -> {"none", "few", "plenty"}]
      BY <3>2 DEF SignType
    <3>4. /\ d.pc \in {"searching", "answered"} /\ d.ask \in Searches
      BY <3>1
    <3> QED BY <3>3, <3>4 DEF d
  <2>4. CASE MapOK(d)
    BY <2>4 DEF MapOK, MapDesk
  <2> QED BY <2>1, <2>2, <2>3, <2>4 DEF DeskOK
<1> QED BY <1>1, SearchInvariance, PTL

-----------------------------------------------------------------------------
(* How far the signs tell the truth.                                       *)

(* A booking the availability query counts overlaps the journey, or begins *)
(* where it ends; one it does not count and that overlaps is strictly      *)
(* inside.  Bookings may run either way.                                   *)
LEMMA TakenForSearchFacts ==
  ASSUME NEW up \in BOOLEAN,
         NEW from \in Int, NEW to \in Int, NEW dep \in Int, NEW arr \in Int,
         Forward(up, from, to)
  PROVE  /\ TakenForSearch(up, from, to, dep, arr) => Overlap(from, to, dep, arr) \/ dep = to
         /\ ~TakenForSearch(up, from, to, dep, arr) /\ Overlap(from, to, dep, arr)
              => StrictlyInside(up, from, to, dep, arr)
<1>1. CASE ~up
  <2>1. from < to /\ Segments(from, to) = from .. (to - 1)
    BY <1>1 DEF Forward, Segments
  <2>2. ASSUME dep <= from, from < arr  PROVE Overlap(from, to, dep, arr)
    <3>1. from \in Segments(from, to) /\ from \in Segments(dep, arr)
      BY <2>1, <2>2 DEF Segments
    <3> QED BY <3>1 DEF Overlap
  <2>3. ASSUME dep < to, to < arr  PROVE Overlap(from, to, dep, arr)
    <3>1. to - 1 \in Segments(from, to) /\ to - 1 \in Segments(dep, arr)
      BY <2>1, <2>3 DEF Segments
    <3> QED BY <3>1 DEF Overlap
  <2>4. ASSUME arr < from, to < dep  PROVE Overlap(from, to, dep, arr)
    <3>1. from \in Segments(from, to) /\ from \in Segments(dep, arr)
      BY <2>1, <2>4 DEF Segments
    <3> QED BY <3>1 DEF Overlap
  <2>5. TakenForSearch(up, from, to, dep, arr) => Overlap(from, to, dep, arr) \/ dep = to
    BY <1>1, <2>2, <2>3, <2>4 DEF TakenForSearch
  <2>6. ASSUME ~TakenForSearch(up, from, to, dep, arr), Overlap(from, to, dep, arr)
        PROVE  StrictlyInside(up, from, to, dep, arr)
    <3>1. PICK s : s \in Segments(from, to) /\ s \in Segments(dep, arr)
      BY <2>6 DEF Overlap
    <3>2. s \in from .. (to - 1) /\ (s \in dep .. (arr - 1) \/ s \in arr .. (dep - 1))
      BY <2>1, <3>1 DEF Segments
    <3> QED BY <1>1, <2>6, <3>2 DEF TakenForSearch, StrictlyInside
  <2> QED BY <2>5, <2>6
<1>2. CASE up
  <2>1. to < from /\ Segments(from, to) = to .. (from - 1)
    BY <1>2 DEF Forward, Segments
  <2>2. ASSUME arr < from, from <= dep  PROVE Overlap(from, to, dep, arr)
    <3>1. from - 1 \in Segments(from, to) /\ from - 1 \in Segments(dep, arr)
      BY <2>1, <2>2 DEF Segments
    <3> QED BY <3>1 DEF Overlap
  <2>3. ASSUME arr < to, to < dep  PROVE Overlap(from, to, dep, arr)
    <3>1. to \in Segments(from, to) /\ to \in Segments(dep, arr)
      BY <2>1, <2>3 DEF Segments
    <3> QED BY <3>1 DEF Overlap
  <2>4. ASSUME from < arr, dep < to  PROVE Overlap(from, to, dep, arr)
    <3>1. to \in Segments(from, to) /\ to \in Segments(dep, arr)
      BY <2>1, <2>4 DEF Segments
    <3> QED BY <3>1 DEF Overlap
  <2>5. TakenForSearch(up, from, to, dep, arr) => Overlap(from, to, dep, arr) \/ dep = to
    BY <1>2, <2>2, <2>3, <2>4 DEF TakenForSearch
  <2>6. ASSUME ~TakenForSearch(up, from, to, dep, arr), Overlap(from, to, dep, arr)
        PROVE  StrictlyInside(up, from, to, dep, arr)
    <3>1. PICK s : s \in Segments(from, to) /\ s \in Segments(dep, arr)
      BY <2>6 DEF Overlap
    <3>2. s \in to .. (from - 1) /\ (s \in dep .. (arr - 1) \/ s \in arr .. (dep - 1))
      BY <2>1, <3>1 DEF Segments
    <3> QED BY <1>2, <2>6, <3>2 DEF TakenForSearch, StrictlyInside
  <2> QED BY <2>5, <2>6
<1> QED BY <1>1, <1>2

(* What a sign says of the train whose seats are being counted.            *)
LEMMA CountedSignsTell ==
  ASSUME SearchIInv, NEW r \in Reader, CountSeats(r), desk[r].ask.from # desk[r].ask.to
  PROVE  SignTellsSeats(r)
<1> DEFINE c == desk[r]
           ask == c.ask
           t == c.train
           k == Len(c.signs) + 1
           places == PlacesOf[TrainOf[t].class][Kinds[k]]
           free == AvailableSeats(t, ask.from, ask.to, Kinds[k])
           unseen == {p \in places :
                       \A i \in DOMAIN ledger :
                         ledger[i].train = t /\ p \in ledger[i].taken /\ InTheWay(ask, i) =>
                         StrictlyInside(TrainOf[t].up, ask.from, ask.to,
                                        ledger[i].from, ledger[i].to)}
           sign == Sign(Cardinality(free))
<1>1. SearchingOK(c) /\ t # NoTrain /\ Len(c.signs) < Len(Kinds)
  BY DeskCases DEF CountSeats, SearchIInv
<1>2. c.signs \in Seq(SignType) /\ ask \in Searches /\ t \in Good(ask)
  BY <1>1 DEF SearchingOK, SearchingDesk
<1>3. /\ Len(desk'[r].signs) = k /\ desk'[r].signs[k] = sign /\ k \in DOMAIN Kinds
  <2>1. sign \in SignType
    BY DEF Sign, SignType
  <2>2. desk' = [desk EXCEPT ![r].signs = Append(@, sign)] /\ c \in SearchingDesk
    BY <1>1 DEF CountSeats, SearchingOK
  <2>3. desk'[r].signs = Append(c.signs, sign)
    BY <2>2 DEF SearchIInv, SearchingDesk
  <2> HIDE DEF sign, c
  <2>4. k \in 1 .. 4 /\ DOMAIN Kinds = 1 .. 4
    BY <1>1, <1>2, KindsLength DEF Kinds
  <2> QED BY <1>2, <2>1, <2>3, <2>4, AppendFacts
<1>4. /\ t \in DOMAIN TrainOf /\ TrainOf[t].up \in BOOLEAN /\ Forward(TrainOf[t].up, ask.from, ask.to)
      /\ ask.from \in Int /\ ask.to \in Int
  <2>1. t \in DOMAIN TrainOf /\ Forward(TrainOf[t].up, ask.from, ask.to)
    BY <1>2, GoodIsAccepted
  <2> QED BY <1>2, <2>1, SearchAssumption
<1>5. \A i \in DOMAIN ledger : ledger[i].from \in Int /\ ledger[i].to \in Int
  BY SearchAssumption DEF SearchIInv, LedgerOK
<1>6. IsFiniteSet(places)
  BY <1>3, <1>4, SearchAssumption
<1>7. free = {p \in places : \A i \in DOMAIN ledger :
                 p \in ledger[i].taken
                   => ~TakenForSearch(TrainOf[t].up, ask.from, ask.to, ledger[i].from, ledger[i].to)}
  BY DEF AvailableSeats
<1>8. \A i \in DOMAIN ledger :
        /\ TakenForSearch(TrainOf[t].up, ask.from, ask.to, ledger[i].from, ledger[i].to)
             => InTheWay(ask, i) \/ ledger[i].from = ask.to
        /\ ~TakenForSearch(TrainOf[t].up, ask.from, ask.to, ledger[i].from, ledger[i].to)
           /\ InTheWay(ask, i)
             => StrictlyInside(TrainOf[t].up, ask.from, ask.to, ledger[i].from, ledger[i].to)
  BY <1>4, <1>5, TakenForSearchFacts DEF InTheWay
<1>9. free \subseteq unseen /\ unseen \subseteq places /\ free \subseteq places
  BY <1>7, <1>8
<1>10. /\ IsFiniteSet(free) /\ IsFiniteSet(unseen) /\ Cardinality(free) <= Cardinality(unseen)
       /\ Cardinality(free) \in Nat /\ Cardinality(unseen) \in Nat
  <2> HIDE DEF free, unseen, places
  <2>1. IsFiniteSet(unseen) /\ IsFiniteSet(free)
    BY <1>6, <1>9, FS_Subset
  <2> QED BY <1>9, <2>1, FS_Subset, FS_CardinalityType
<1>11. sign = "none" => \A p \in places : \E i \in DOMAIN ledger :
         p \in ledger[i].taken /\ (InTheWay(ask, i) \/ ledger[i].from = ask.to)
  <2> SUFFICES ASSUME sign = "none", NEW p \in places
               PROVE  \E i \in DOMAIN ledger :
                        p \in ledger[i].taken /\ (InTheWay(ask, i) \/ ledger[i].from = ask.to)
    OBVIOUS
  <2>1. Cardinality(free) = 0
    BY DEF Sign
  <2>2. free = {}
    <3> HIDE DEF free
    <3> QED BY <1>10, <2>1, FS_EmptySet
  <2> HIDE DEF free
  <2> QED BY <1>7, <1>8, <2>2
<1>12. sign # "none" => unseen # {}
  <2>1. CASE free = {}
    BY <2>1, FS_EmptySet DEF Sign
  <2>2. CASE free # {}
    BY <1>9, <2>2
  <2> QED BY <2>1, <2>2
<1>13. sign = "plenty" => Cardinality(unseen) >= FewSeats
  <2> SUFFICES ASSUME sign = "plenty"  PROVE Cardinality(unseen) >= FewSeats
    OBVIOUS
  <2> HIDE DEF free, unseen
  <2>1. ~(Cardinality(free) < FewSeats)
    BY DEF Sign
  <2> QED BY <1>10, <2>1, SearchAssumption
<1> HIDE DEF sign
<1> QED BY <1>3, <1>11, <1>12, <1>13 DEF SignTellsSeats

(* The sign of every kind of seat tells what getAvailableSeats can know.   *)
THEOREM SignsCanBeTrusted == SearchSpec => SignsTellSeats
<1>1. SearchIInv => [\A r \in Reader : CountSeats(r) /\ desk[r].ask.from # desk[r].ask.to
                       => SignTellsSeats(r)]_searchVars
  BY CountedSignsTell
<1> QED BY <1>1, SearchInvariance, PTL DEF SignsTellSeats

-----------------------------------------------------------------------------
(* Fares.                                                                  *)

StepDistance(i) == FareSteps[i].distance

(* The steps of the price table: ten, ever longer, the first at zero.      *)
LEMMA Steps ==
  /\ DOMAIN FareSteps = 1 .. 10 /\ Len(FareSteps) = 10
  /\ \A i \in 1 .. 10 : StepDistance(i) \in Nat /\ FareSteps[i].fare \in Nat
  /\ \A i, k \in 1 .. 10 : i < k => StepDistance(i) < StepDistance(k)
  /\ StepDistance(1) = 0
BY DEF FareSteps, Km, StepDistance

(* No two stations are as far apart as a step of the table.                *)
LEMMA NoGapIsAStep ==
  ASSUME NEW a \in LineStation, NEW b \in LineStation, a # b
  PROVE  /\ Gap(a, b) \in Nat /\ 0 < Gap(a, b)
         /\ \A i \in 1 .. 10 : Gap(a, b) # StepDistance(i)
BY SMTT(60) DEF Gap, Position, LineStation, FareSteps, Km, StepDistance

(* The step a distance is on: the last one it has passed.                  *)
IsStepOf(i, d) ==
  i \in 1 .. 10 /\ StepDistance(i) < d /\ (i < 10 => d < StepDistance(i + 1))

(* A distance that is no step's is on one of them.                         *)
LEMMA StepOfADistance ==
  ASSUME NEW d \in Nat, 0 < d, \A i \in 1 .. 10 : d # StepDistance(i)
  PROVE  \E i \in 1 .. 10 : IsStepOf(i, d)
BY DEF FareSteps, Km, StepDistance, IsStepOf

(* What FiniteSetsExt chooses when there is only one choice.               *)
LEMMA GreatestIsMax ==
  ASSUME NEW S, S \subseteq Int, NEW x \in S, \A y \in S : x >= y  PROVE Max(S) = x
<1>1. \A z \in S : (\A y \in S : z >= y) => z = x
  OBVIOUS
<1> QED BY <1>1 DEF Max

LEMMA LeastIsMin ==
  ASSUME NEW S, S \subseteq Int, NEW x \in S, \A y \in S : x <= y  PROVE Min(S) = x
<1>1. \A z \in S : (\A y \in S : z <= y) => z = x
  OBVIOUS
<1> QED BY <1>1 DEF Min

(* The loop of getDistanceFare returns the fare of that step.              *)
LEMMA LoopFindsTheStep ==
  ASSUME NEW d \in Nat, 0 < d, NEW i \in 1 .. 10, IsStepOf(i, d)
  PROVE  DistanceFare(d) = FareSteps[i].fare
<1> DEFINE ends == {k \in 1 .. 10 : StopsAtStep(FareSteps, d, k)}
<1>1. \A k \in 1 .. 10 : StopsAtStep(FareSteps, d, k) <=> k = i + 1
  <2> TAKE k \in 1 .. 10
  <2>1. CASE k = 1
    BY <2>1, Steps DEF StopsAtStep, LastDistance, StepDistance
  <2>2. CASE k # 1
    <3>1. StopsAtStep(FareSteps, d, k) <=> StepDistance(k - 1) < d /\ d < StepDistance(k)
      BY <2>2 DEF StopsAtStep, LastDistance, StepDistance
    <3>2. k - 1 \in 1 .. 10 /\ (i < 10 => i + 1 \in 1 .. 10)
      BY <2>2
    <3>3. CASE k = i + 1
      BY <3>1, <3>2, <3>3 DEF IsStepOf
    <3>4. CASE k <= i
      <4>1. StepDistance(k) <= StepDistance(i) /\ StepDistance(k) \in Nat /\ StepDistance(i) \in Nat
        BY <3>4, Steps
      <4> QED BY <3>1, <3>4, <4>1 DEF IsStepOf
    <3>5. CASE k > i + 1
      <4>1. /\ StepDistance(i + 1) <= StepDistance(k - 1) /\ i < 10
            /\ StepDistance(k - 1) \in Nat /\ StepDistance(i + 1) \in Nat
        BY <3>2, <3>5, Steps
      <4> QED BY <3>1, <3>5, <4>1 DEF IsStepOf
    <3> QED BY <3>3, <3>4, <3>5
  <2> QED BY <2>1, <2>2
<1>2. DistanceFare(d) = IF ends = {} THEN FareSteps[10].fare
                        ELSE IF Min(ends) = 1 THEN 0 ELSE FareSteps[Min(ends) - 1].fare
  BY Steps DEF DistanceFare, StepFare
<1>3. CASE i = 10
  BY <1>1, <1>2, <1>3
<1>4. CASE i < 10
  <2>1. ends = {i + 1}
    BY <1>1, <1>4
  <2>2. Min(ends) = i + 1
    BY <2>1, LeastIsMin
  <2> QED BY <1>2, <2>1, <2>2
<1> QED BY <1>3, <1>4

(* Without a distance it never ends early.                                 *)
LEMMA NoDistance == DistanceFare(0) = FareSteps[10].fare
<1>1. \A k \in 1 .. 10 : LastDistance(FareSteps, k) \in Nat
  <2> TAKE k \in 1 .. 10
  <2>1. k # 1 => k - 1 \in 1 .. 10
    OBVIOUS
  <2> QED BY <2>1, Steps DEF LastDistance, StepDistance
<1>2. \A k \in 1 .. 10 : ~ StopsAtStep(FareSteps, 0, k)
  BY <1>1 DEF StopsAtStep
<1> QED BY <1>2, Steps DEF DistanceFare, StepFare

(* So does the benchmark's.                                                *)
LEMMA BenchFindsTheStep ==
  ASSUME NEW a \in LineStation, NEW b \in LineStation, NEW i \in 1 .. 10, IsStepOf(i, Gap(a, b)),
         Gap(a, b) \in Nat
  PROVE  BenchDistanceFare(a, b) = FareSteps[i].fare
<1> DEFINE d == Gap(a, b)
           bounds == <<0, 50, 75, 100, 150, 200, 300, 400, 500, 1000>>
           fares == <<2500, 3000, 3700, 4500, 5200, 6000, 7200, 8300, 12000, 20000>>
           fits == {k \in DOMAIN bounds : /\ Km(bounds[k]) < d
                                          /\ k < Len(bounds) => d < Km(bounds[k + 1])}
<1>1. /\ DOMAIN bounds = 1 .. 10 /\ Len(bounds) = 10
      /\ \A k \in 1 .. 10 : Km(bounds[k]) = StepDistance(k) /\ fares[k] = FareSteps[k].fare
  BY DEF Km, FareSteps, StepDistance
<1>2. BenchDistanceFare(a, b) = IF fits = {} THEN Unknown ELSE fares[Max(fits)]
  BY DEF BenchDistanceFare
<1> HIDE DEF bounds, fares, d
<1>3. \A k \in 1 .. 10 : k \in fits <=> IsStepOf(k, d)
  BY <1>1 DEF IsStepOf
<1>4. d \in Nat /\ IsStepOf(i, d)
  BY DEF d
<1>5. \A k \in 1 .. 10 : IsStepOf(k, d) => k = i
  <2> SUFFICES ASSUME NEW k \in 1 .. 10, IsStepOf(k, d), k # i  PROVE FALSE
    OBVIOUS
  <2>1. CASE k < i
    <3>1. /\ StepDistance(k + 1) <= StepDistance(i) /\ k < 10
          /\ StepDistance(k + 1) \in Nat /\ StepDistance(i) \in Nat
      BY <2>1, Steps
    <3> QED BY <1>4, <3>1 DEF IsStepOf
  <2>2. CASE i < k
    <3>1. /\ StepDistance(i + 1) <= StepDistance(k) /\ i < 10
          /\ StepDistance(i + 1) \in Nat /\ StepDistance(k) \in Nat
      BY <2>2, Steps
    <3> QED BY <1>4, <3>1 DEF IsStepOf
  <2> QED BY <2>1, <2>2
<1>6. fits = {i}
  <2>1. fits \subseteq 1 .. 10
    BY <1>1
  <2> HIDE DEF fits
  <2> QED BY <1>3, <1>4, <1>5, <2>1
<1> HIDE DEF fits
<1>7. Max(fits) = i
  BY <1>6, GreatestIsMax
<1> QED BY <1>1, <1>2, <1>6, <1>7

(* The seasons: nine, the first of them from the first day of the year.    *)
LEMMA Seasons ==
  /\ DOMAIN SeasonStart = 1 .. 9 /\ Len(SeasonStart) = 9 /\ DOMAIN SeasonFactor = 1 .. 9
  /\ \A i \in 1 .. 9 : SeasonStart[i] \in Nat /\ SeasonFactor[i] \in Nat
  /\ \A i, k \in 1 .. 9 : i < k => SeasonStart[i] < SeasonStart[k]
  /\ SeasonStart[1] = 0
BY DEF SeasonStart, SeasonFactor

(* The season of a day is the last one that has begun.                     *)
IsSeasonOf(i, day) == SeasonStart[i] <= day /\ (i < 9 => day < SeasonStart[i + 1])

LEMMA SeasonOfADay == ASSUME NEW day \in Nat  PROVE \E i \in 1 .. 9 : IsSeasonOf(i, day)
BY DEF SeasonStart, IsSeasonOf

(* Both sides find the season of a day, although one compares local        *)
(* midnights with UTC ones: up to 14 hours do not make a day.              *)
LEMMA SeasonsAgree ==
  ASSUME LocalOffset >= 0, NEW day \in Nat
  PROVE  /\ SelectedSeason(day) \in 1 .. 9
         /\ BenchSeason(day) = SeasonFactor[SelectedSeason(day)]
<1>1. PICK i \in 1 .. 9 : IsSeasonOf(i, day)
  BY SeasonOfADay
<1> DEFINE begun == {k \in 1 .. 9 : SeasonBegun(day, k)}
           in == {k \in 1 .. 9 : SeasonStart[k] <= day /\ (k < 9 => day < SeasonStart[k + 1])}
<1>2. SelectedSeason(day) = IF begun = {} THEN 1 ELSE Max(begun)
  BY Seasons DEF SelectedSeason
<1>3. BenchSeason(day) = IF in = {} THEN 0 ELSE SeasonFactor[Max(in)]
  BY Seasons DEF BenchSeason
<1>4. \A k \in 1 .. 9 : SeasonBegun(day, k) <=> SeasonStart[k] <= day
  BY FareAssumption, Seasons DEF SeasonBegun
<1>5. \A k \in 1 .. 9 : SeasonStart[k] <= day => k <= i
  <2> SUFFICES ASSUME NEW k \in 1 .. 9, SeasonStart[k] <= day, i < k  PROVE FALSE
    OBVIOUS
  <2>1. /\ SeasonStart[i + 1] <= SeasonStart[k] /\ i < 9
        /\ SeasonStart[i + 1] \in Nat /\ SeasonStart[k] \in Nat
    BY Seasons
  <2> QED BY <1>1, <2>1 DEF IsSeasonOf
<1>6. Max(begun) = i /\ i \in begun
  <2>1. i \in begun /\ begun \subseteq Int /\ \A k \in begun : i >= k
    BY <1>1, <1>4, <1>5 DEF IsSeasonOf
  <2> HIDE DEF begun
  <2> QED BY <2>1, GreatestIsMax
<1>7. Max(in) = i /\ i \in in
  <2>1. i \in in /\ in \subseteq Int /\ \A k \in in : i >= k
    BY <1>1, <1>5 DEF IsSeasonOf
  <2> HIDE DEF in
  <2> QED BY <2>1, GreatestIsMax
<1> HIDE DEF begun, in
<1> QED BY <1>2, <1>3, <1>6, <1>7

(* Whatever the server's time zone, a season is found.                     *)
LEMMA SeasonType == ASSUME NEW day \in Nat  PROVE SelectedSeason(day) \in 1 .. 9
<1> DEFINE begun == {k \in 1 .. 9 : SeasonBegun(day, k)}
<1>1. SelectedSeason(day) = IF begun = {} THEN 1 ELSE Max(begun)
  BY Seasons DEF SelectedSeason
<1>2. ASSUME NEW k \in begun
      PROVE  \E i \in 1 .. 9 : SeasonBegun(day, i) /\ (i < 9 => ~ SeasonBegun(day, i + 1))
  BY <1>2, FareAssumption DEF SeasonBegun, SeasonStart
<1>3. ASSUME NEW i \in 1 .. 9, SeasonBegun(day, i), i < 9 => ~ SeasonBegun(day, i + 1)
      PROVE  i \in begun /\ \A k \in begun : i >= k
  <2> SUFFICES ASSUME NEW k \in 1 .. 9, SeasonBegun(day, k), i < k  PROVE FALSE
    BY <1>3
  <2>1. /\ SeasonStart[i + 1] <= SeasonStart[k] /\ i < 9
        /\ SeasonStart[i + 1] \in Nat /\ SeasonStart[k] \in Nat
    BY Seasons
  <2> QED BY <1>3, <2>1, FareAssumption DEF SeasonBegun
<1>4. begun \subseteq Int /\ begun \subseteq 1 .. 9
  OBVIOUS
<1> HIDE DEF begun
<1>5. ASSUME NEW k \in begun  PROVE Max(begun) \in 1 .. 9
  BY <1>2, <1>3, <1>4, GreatestIsMax
<1> QED BY <1>1, <1>5

(* Half of the fares of a party: the two roundings differ by the odd half  *)
(* yen of each child but the last.                                         *)
LEMMA Halves ==
  ASSUME NEW fare \in Nat, NEW adult \in Nat, NEW child \in Nat
  PROVE  /\ ShownPrice(fare, adult, child) <= ChargedPrice(fare, adult, child)
         /\ 2 * (ChargedPrice(fare, adult, child) - ShownPrice(fare, adult, child)) <= child
<1> DEFINE h == fare \div 2
           m == h * child
           g == adult * fare
<1>1. h \in Nat /\ (fare = 2 * h \/ fare = 2 * h + 1)
  OBVIOUS
<1> HIDE DEF h
<1>2. m \in Nat /\ g \in Nat /\ g = fare * adult
  BY <1>1
<1>3. child * fare = 2 * m \/ child * fare = 2 * m + child
  BY <1>1
<1>4. /\ ShownPrice(fare, adult, child) = g + m
      /\ ChargedPrice(fare, adult, child) = g + (child * fare) \div 2
  BY <1>2 DEF ShownPrice, ChargedPrice, h
<1> HIDE DEF m, g
<1> DEFINE c == child * fare
<1> HIDE DEF c
<1>5. c = 2 * m \/ c = 2 * m + child
  BY <1>3 DEF c
<1>6. c \in Nat /\ m <= c \div 2 /\ 2 * (c \div 2 - m) <= child
  BY <1>2, <1>5
<1>7. ChargedPrice(fare, adult, child) = g + c \div 2
  BY <1>4 DEF c
<1> QED BY <1>2, <1>4, <1>6, <1>7

(* The fare of a journey, and that the benchmark's calculation yields it.  *)
LEMMA FareType ==
  ASSUME NEW day \in Nat, NEW a \in LineStation, NEW b \in LineStation,
         NEW class \in TrainClass, NEW seatClass \in SeatClass
  PROVE  /\ FareCalc(day, a, b, class, seatClass) \in Nat
         /\ a # b /\ LocalOffset >= 0 =>
              BenchFare(day, a, b, class, seatClass) = FareCalc(day, a, b, class, seatClass)
<1>1. ASSUME a # b
      PROVE  \E i \in 1 .. 10 : /\ DistanceFare(Gap(a, b)) = FareSteps[i].fare
                                /\ BenchDistanceFare(a, b) = FareSteps[i].fare
  <2>1. PICK i \in 1 .. 10 : IsStepOf(i, Gap(a, b))
    BY <1>1, NoGapIsAStep, StepOfADistance
  <2> QED BY <1>1, <2>1, NoGapIsAStep, LoopFindsTheStep, BenchFindsTheStep
<1>2. ASSUME a = b  PROVE DistanceFare(Gap(a, b)) \in Nat
  <2>1. Gap(a, b) = 0
    BY <1>2 DEF Gap, Position, LineStation
  <2> QED BY <2>1, NoDistance, Steps
<1>3. /\ DistanceFare(Gap(a, b)) \in Nat
      /\ a # b => /\ BenchDistanceFare(a, b) = DistanceFare(Gap(a, b))
                  /\ BenchDistanceFare(a, b) # Unknown
  BY <1>1, <1>2, Steps DEF Unknown
<1>4. ClassFactor(class, seatClass) \in Nat
  BY DEF ClassFactor, TrainClass, SeatClass
<1>5. SeasonFactor[SelectedSeason(day)] \in Nat
  BY SeasonType, Seasons
<1>6. \A x, y, z \in Nat : (x * y * z) \div 1000 \in Nat
  <2>1. \A x, y, z \in Nat : x * y * z \in Nat
    OBVIOUS
  <2>2. \A x \in Nat : x \div 1000 \in Nat
    OBVIOUS
  <2> QED BY <2>1, <2>2
<1>7. FareCalc(day, a, b, class, seatClass) \in Nat
  BY <1>3, <1>4, <1>5, <1>6 DEF FareCalc
<1>8. ASSUME a # b, LocalOffset >= 0
      PROVE  BenchFare(day, a, b, class, seatClass) = FareCalc(day, a, b, class, seatClass)
  BY <1>3, <1>8, SeasonsAgree DEF BenchFare, FareCalc
<1> QED BY <1>7, <1>8

(* What a client is told of a journey.                                     *)
Told(j) ==
  LET fare == FareCalc(j.day, j.from, j.to, j.class, j.seatClass)
  IN  [journey |-> j, shown |-> ShownPrice(fare, j.adult, j.child),
       charged |-> ChargedPrice(fare, j.adult, j.child),
       expected |-> BenchAmount(j.day, j.from, j.to, j.class, j.seatClass, j.adult, j.child)]

(* The inductive invariant: an answer is the answer to a question.         *)
Quoted == quote # NoQuote => \E j \in PriceQuestion : quote = Told(j)

(* Every step of the specification keeps it.                               *)
LEMMA QuotesAreAnswers == FareSpec => []Quoted
<1>1. FareInit => Quoted
  BY DEF FareInit, Quoted
<1>2. Quoted /\ [FareNext]_quote => Quoted'
  BY FareAssumption DEF Quoted, FareNext, PriceGiven, AskPrice, Told
<1> QED BY <1>1, <1>2, PTL DEF FareSpec

(* Two stations of the line pay the fare of the longest step that is not   *)
(* longer than their distance (main.go, getDistanceFare).                  *)
THEOREM FaresAreOfTheirStep == FareSpec => []FareIsOfItsStep
<1>1. Quoted => FareIsOfItsStep
  <2> SUFFICES ASSUME NEW j \in PriceQuestion, quote = Told(j), quote.journey.from # quote.journey.to
               PROVE  FareIsOfItsStep
    BY DEF Quoted, FareIsOfItsStep
  <2> DEFINE d == Gap(j.from, j.to)
  <2>1. quote.journey = j /\ j.from # j.to /\ j.from \in LineStation /\ j.to \in LineStation
    BY DEF Told, PriceQuestion
  <2>2. d \in Nat /\ 0 < d /\ \A i \in 1 .. 10 : d # StepDistance(i)
    BY <2>1, NoGapIsAStep
  <2> HIDE DEF d
  <2>3. PICK i \in 1 .. 10 : IsStepOf(i, d)
    BY <2>2, StepOfADistance
  <2>4. FareSteps[i].fare = DistanceFare(d)
    BY <2>2, <2>3, LoopFindsTheStep
  <2>5. ASSUME NEW k \in 1 .. 10, StepDistance(k) <= d  PROVE k <= i
    <3> SUFFICES ASSUME i < k  PROVE FALSE
      OBVIOUS
    <3>1. /\ StepDistance(i + 1) <= StepDistance(k) /\ i < 10
          /\ StepDistance(i + 1) \in Nat /\ StepDistance(k) \in Nat
      BY Steps
    <3> QED BY <2>2, <2>3, <2>5, <3>1 DEF IsStepOf
  <2>6. StepDistance(i) <= d
    BY <2>2, <2>3, Steps DEF IsStepOf
  <2> QED BY <2>1, <2>4, <2>5, <2>6, Steps DEF FareIsOfItsStep, StepDistance, d
<1> QED BY <1>1, QuotesAreAnswers, PTL

(* The three amounts of one answer, compared.                              *)
LEMMA ToldPrices ==
  ASSUME NEW j \in PriceQuestion
  PROVE  /\ j.from # j.to /\ LocalOffset >= 0 => Told(j).charged = Told(j).expected
         /\ Told(j).shown <= Told(j).charged
         /\ 2 * (Told(j).charged - Told(j).shown) <= j.child
<1> DEFINE fare == FareCalc(j.day, j.from, j.to, j.class, j.seatClass)
           bench == BenchFare(j.day, j.from, j.to, j.class, j.seatClass)
<1>1. j.adult \in Nat /\ j.child \in Nat
  BY DEF PriceQuestion
<1>2. fare \in Nat /\ (j.from # j.to /\ LocalOffset >= 0 => bench = fare)
  BY FareType DEF PriceQuestion
<1>3. /\ Told(j).shown = ShownPrice(fare, j.adult, j.child)
      /\ Told(j).charged = ChargedPrice(fare, j.adult, j.child)
      /\ Told(j).expected = BenchAmount(j.day, j.from, j.to, j.class, j.seatClass,
                                        j.adult, j.child)
  BY DEF Told
<1>4. ASSUME j.from # j.to, LocalOffset >= 0
      PROVE  BenchAmount(j.day, j.from, j.to, j.class, j.seatClass, j.adult, j.child)
               = ChargedPrice(fare, j.adult, j.child)
  <2>1. BenchAmount(j.day, j.from, j.to, j.class, j.seatClass, j.adult, j.child)
          = IF bench = Unknown THEN Unknown ELSE bench * j.adult + (bench * j.child) \div 2
    BY DEF BenchAmount
  <2> HIDE DEF fare, bench
  <2>2. bench = fare /\ bench # Unknown
    BY <1>2, <1>4 DEF Unknown
  <2>3. fare * j.adult = j.adult * fare /\ fare * j.child = j.child * fare
    BY <1>1, <1>2
  <2> QED BY <2>1, <2>2, <2>3 DEF ChargedPrice
<1> HIDE DEF fare
<1> QED BY <1>1, <1>2, <1>3, <1>4, Halves

(* On every day from 2020 on, for every party, class and pair of stations, *)
(* a reservation is charged what the benchmark expects, if the server's    *)
(* clock is not behind UTC.                                                *)
THEOREM ChargesAreExpected == FareSpec => []ChargeIsExpected
<1>1. Quoted => ChargeIsExpected
  <2> SUFFICES ASSUME NEW j \in PriceQuestion, quote = Told(j)  PROVE ChargeIsExpected
    BY DEF Quoted, ChargeIsExpected
  <2>1. quote.journey = j
    BY DEF Told
  <2> QED BY <2>1, ToldPrices DEF ChargeIsExpected
<1> QED BY <1>1, QuotesAreAnswers, PTL

(* The price in a search result is the price charged, less at most half a  *)
(* yen for each child.                                                     *)
THEOREM ShownPricesAreCharged == FareSpec => []ShownIsCharged
<1>1. Quoted => ShownIsCharged
  <2> SUFFICES ASSUME NEW j \in PriceQuestion, quote = Told(j)  PROVE ShownIsCharged
    BY DEF Quoted, ShownIsCharged
  <2>1. quote.journey = j
    BY DEF Told
  <2> QED BY <2>1, ToldPrices DEF ShownIsCharged
<1> QED BY <1>1, QuotesAreAnswers, PTL

=============================================================================
