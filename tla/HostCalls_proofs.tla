-------------------------- MODULE HostCalls_proofs --------------------------
(***************************************************************************)
(* The calls of the page, for any set of calls, posts, kinds and sizes of  *)
(* answers: what a handler returns has one owner in every order of frames, *)
(* handlers, cancellations, fetches and the close of the channel.          *)
(***************************************************************************)
EXTENDS HostCalls, TLAPS

Answers == [call : Calls, ok : BOOLEAN, encoded : BOOLEAN]
Statuses == {"new", "inflight", "posted", "answered", "over"}
Frames == {"none", "begun", "waiting", "woken", "failed"}

Typed ==
    /\ call \in [Calls -> Statuses] /\ aborted \in [Calls -> BOOLEAN] /\ produced \in [Calls -> BOOLEAN]
    /\ answers \in Seq(Answers) /\ results \in [Calls -> 0..Pieces] /\ owned \in SUBSET Calls
    /\ releases \in [Calls -> Nat] /\ frame \in Frames /\ notify \in BOOLEAN /\ closed \in BOOLEAN

\* Nobody has anything of this call yet; what was returned was released.
Fresh(c) == results[c] = 0 /\ releases[c] = 0 /\ c \notin owned
Gone(c) == results[c] = 0 /\ releases[c] = 1 /\ c \notin owned

\* What is known of a call by its status.
CallInv(c) ==
    /\ call[c] \in {"new", "inflight", "posted"} => ~produced[c]
    /\ ~produced[c] => Fresh(c)
    /\ call[c] = "answered" => \E i \in 1..Len(answers) : answers[i].call = c
    /\ call[c] = "over" /\ produced[c] =>
          \/ results[c] # 0 /\ releases[c] = 0 /\ c \notin owned
          \/ results[c] = 0 /\ releases[c] = 0 /\ c \in owned
          \/ Gone(c)

\* An answer is queued once, of a call that was answered and, where it hands
\* over a result, whose result nobody else has.
AnswerInv(i) ==
    LET a == answers[i] IN
    /\ call[a.call] = "answered"
    /\ a.ok => ~closed /\ produced[a.call] /\ Fresh(a.call)
    /\ ~a.ok /\ produced[a.call] => Gone(a.call)
    /\ a.encoded => a.call \in Cramped

Once == \A i, j \in 1..Len(answers) : answers[i].call = answers[j].call => i = j

Inv ==
    /\ Typed /\ Once /\ NoLostWake
    /\ \A c \in Calls : CallInv(c)
    /\ \A i \in 1..Len(answers) : AnswerInv(i)

-----------------------------------------------------------------------------
\* The start.
LEMMA InitInv == Init => Inv
  <1> SUFFICES ASSUME Init PROVE Inv
    OBVIOUS
  <1>1. Typed
    <2>1. call \in [Calls -> Statuses] /\ frame \in Frames /\ answers \in Seq(Answers)
      BY DEF Init, Statuses, Frames
    <2>2. aborted \in [Calls -> BOOLEAN] /\ produced \in [Calls -> BOOLEAN] /\ notify \in BOOLEAN /\ closed \in BOOLEAN
      BY DEF Init
    <2>3. results \in [Calls -> 0..Pieces] /\ releases \in [Calls -> Nat] /\ owned \in SUBSET Calls
      BY CallsAssumption DEF Init, NoFetch
    <2> QED
      BY <2>1, <2>2, <2>3 DEF Typed
  <1>2. Len(answers) = 0
    BY DEF Init
  <1>3. Once /\ \A i \in 1..Len(answers) : AnswerInv(i)
    BY <1>2 DEF Once
  <1>4. NoLostWake /\ \A c \in Calls : CallInv(c)
    BY DEF Init, NoLostWake, CallInv, Fresh, NoFetch
  <1> QED
    BY <1>1, <1>3, <1>4 DEF Inv

\* Steps that leave the queue of answers and every result alone.
LEMMA Aside ==
    ASSUME Inv, UNCHANGED <<produced, answers, results, owned, releases, closed>>,
           aborted' \in [Calls -> BOOLEAN], frame' \in Frames, notify' \in BOOLEAN, call' \in [Calls -> Statuses],
           NoLostWake',
           \A c \in Calls : call'[c] = call[c] \/ (call[c] = "new" /\ call'[c] \in {"inflight", "posted"})
    PROVE  Inv'
  <1>1. Typed' /\ Once'
    BY DEF Inv, Typed, Once
  <1>2. \A c \in Calls : CallInv(c)'
    BY DEF Inv, CallInv, Fresh, Gone, Typed
  <1>3. \A i \in 1..Len(answers) : AnswerInv(i)'
    <2> TAKE i \in 1..Len(answers)
    <2>1. answers[i] \in Answers /\ AnswerInv(i)
      BY DEF Inv, Typed
    <2>2. answers[i].call \in Calls
      BY <2>1 DEF Answers
    <2> QED
      BY <2>1, <2>2 DEF AnswerInv, Fresh, Gone
  <1> QED
    BY <1>1, <1>2, <1>3 DEF Inv

\* An answer joins the queue: of a call that was in flight, or of one no
\* handler knows.
LEMMA Answering ==
    ASSUME Inv, NEW c \in Calls, NEW ok \in BOOLEAN, call[c] \in {"new", "inflight"},
           answers' = Append(answers, Answer(c, ok)), call' = [call EXCEPT ![c] = "answered"],
           produced' \in [Calls -> BOOLEAN], releases' \in [Calls -> Nat],
           \A d \in Calls \ {c} : produced'[d] = produced[d] /\ releases'[d] = releases[d],
           ok => ~closed /\ produced'[c] /\ releases'[c] = 0,
           ~ok => releases'[c] = IF produced'[c] THEN 1 ELSE 0,
           UNCHANGED <<aborted, results, owned, closed>>, frame' \in Frames, notify' \in BOOLEAN, NoLostWake'
    PROVE  Inv'
  <1> DEFINE a == Answer(c, ok)
             n == Len(answers)
  <1>1. a \in Answers /\ a.call = c /\ a.ok = ok /\ a.encoded = FALSE
    BY DEF Answer, Answers
  <1>2. /\ answers' \in Seq(Answers) /\ Len(answers') = n + 1 /\ n \in Nat
        /\ answers'[n + 1] = a /\ \A i \in 1..n : answers'[i] = answers[i]
    BY <1>1 DEF Inv, Typed
  <1> HIDE DEF a, n
  <1>3. Typed'
    BY <1>2 DEF Inv, Typed, Statuses
  <1>4. \A i \in 1..n : answers[i] \in Answers /\ answers[i].call \in Calls \ {c}
    <2> TAKE i \in 1..n
    <2>1. answers[i] \in Answers
      BY DEF Inv, Typed, n
    <2>2. answers[i].call \in Calls
      BY <2>1 DEF Answers
    <2>3. AnswerInv(i)
      BY DEF Inv, n
    <2> QED
      BY <2>1, <2>2, <2>3 DEF AnswerInv
  <1>5. \A i \in 1..(n + 1) : i \in 1..n \/ i = n + 1
    BY <1>2
  <1>6. Once'
    <2> SUFFICES ASSUME NEW i \in 1..(n + 1), NEW j \in 1..(n + 1), answers'[i].call = answers'[j].call
                 PROVE  i = j
      BY <1>2 DEF Once
    <2>1. Once
      BY DEF Inv
    <2> QED
      BY <1>1, <1>2, <1>4, <1>5, <2>1 DEF Once, n
  <1>7. ASSUME NEW d \in Calls PROVE CallInv(d)'
    <2>1. CallInv(d)
      BY DEF Inv
    <2>2. CASE d = c
      <3>1. ~produced[c] /\ Fresh(c) /\ call'[c] = "answered"
        BY <2>1, <2>2 DEF CallInv, Inv, Typed
      <3>2. \E i \in 1..Len(answers') : answers'[i].call = c
        BY <1>1, <1>2
      <3>3. ~produced'[c] => Fresh(c)'
        BY <3>1 DEF Fresh
      <3> QED
        BY <2>2, <3>1, <3>2, <3>3 DEF CallInv
    <2>3. CASE d # c
      <3>1. call'[d] = call[d] /\ produced'[d] = produced[d] /\ releases'[d] = releases[d]
        BY <2>3 DEF Inv, Typed
      <3>2. call[d] = "answered" => \E i \in 1..Len(answers') : answers'[i].call = d
        BY <1>2, <2>1 DEF CallInv, n
      <3> QED
        BY <2>1, <3>1, <3>2 DEF CallInv, Fresh, Gone
    <2> QED
      BY <2>2, <2>3
  <1>8. ASSUME NEW i \in 1..(n + 1) PROVE AnswerInv(i)'
    <2>1. CASE i \in 1..n
      <3>1. AnswerInv(i) /\ answers'[i] = answers[i]
        BY <1>2, <2>1 DEF Inv, n
      <3>2. answers[i].call \in Calls \ {c}
        BY <1>4, <2>1
      <3>3. call'[answers[i].call] = call[answers[i].call]
        BY <3>2 DEF Inv, Typed
      <3> QED
        BY <3>1, <3>2, <3>3 DEF AnswerInv, Fresh, Gone
    <2>2. CASE i = n + 1
      <3>1. answers'[i].call = c /\ answers'[i].ok = ok /\ answers'[i].encoded = FALSE
        BY <1>1, <1>2, <2>2
      <3>2. ~produced[c] /\ Fresh(c) /\ call'[c] = "answered"
        BY DEF Inv, CallInv, Typed
      <3> QED
        BY <3>1, <3>2 DEF AnswerInv, Fresh, Gone
    <2> QED
      BY <1>5, <2>1, <2>2
  <1> QED
    BY <1>2, <1>3, <1>6, <1>7, <1>8 DEF Inv

\* What a call has is given to the page or the application, its answer being
\* delivered already.
LEMMA Passing ==
    ASSUME Inv, NEW c \in Calls, call[c] \in {"posted", "inflight", "over"}, call' = [call EXCEPT ![c] = "over"],
           produced' = [produced EXCEPT ![c] = TRUE], UNCHANGED <<aborted, answers, closed>>,
           results' \in [Calls -> 0..Pieces], owned' \in SUBSET Calls, releases' \in [Calls -> Nat],
           \A d \in Calls \ {c} :
              results'[d] = results[d] /\ releases'[d] = releases[d] /\ (d \in owned' <=> d \in owned),
           \/ results'[c] # 0 /\ releases'[c] = 0 /\ c \notin owned'
           \/ results'[c] = 0 /\ releases'[c] = 0 /\ c \in owned'
           \/ Gone(c)',
           UNCHANGED <<frame, notify>> \/ (frame = "none" /\ frame' = "begun" /\ UNCHANGED notify)
    PROVE  Inv'
  <1>0. NoLostWake'
    BY DEF Inv, NoLostWake, Ready
  <1>1. Typed' /\ Once'
    BY DEF Inv, Typed, Once, Statuses, Frames
  <1>2. ASSUME NEW d \in Calls PROVE CallInv(d)'
    <2>1. CallInv(d)
      BY DEF Inv
    <2>2. CASE d = c
      <3>1. call'[c] = "over" /\ produced'[c]
        BY DEF Inv, Typed
      <3> QED
        BY <2>2, <3>1 DEF CallInv, Gone
    <2>3. CASE d # c
      <3>1. call'[d] = call[d] /\ produced'[d] = produced[d]
        BY <2>3 DEF Inv, Typed
      <3> QED
        BY <2>1, <2>3, <3>1 DEF CallInv, Fresh, Gone
    <2> QED
      BY <2>2, <2>3
  <1>3. ASSUME NEW i \in 1..Len(answers) PROVE AnswerInv(i)'
    <2>1. answers[i] \in Answers /\ AnswerInv(i)
      BY DEF Inv, Typed
    <2>2. answers[i].call \in Calls
      BY <2>1 DEF Answers
    <2>3. answers[i].call # c
      BY <2>1 DEF AnswerInv
    <2>4. /\ call'[answers[i].call] = call[answers[i].call]
          /\ produced'[answers[i].call] = produced[answers[i].call]
      BY <2>2, <2>3 DEF Inv, Typed
    <2> QED
      BY <2>1, <2>2, <2>3, <2>4 DEF AnswerInv, Fresh, Gone
  <1> QED
    BY <1>0, <1>1, <1>2, <1>3 DEF Inv

\* A frame is answered: the first n answers are delivered, and the one that did
\* not fit waits, encoded, for the next inbox.
LEMMA Finishing ==
    ASSUME Inv, Large \cap Cramped = {}, NEW n \in 0..Len(answers), FinishFrame(n)
    PROVE  Inv'
  <1> DEFINE put == {answers[i] : i \in 1..n}
             refused == IF n < Len(answers) THEN {answers[n + 1]} ELSE {}
             m == Len(answers) - n
             Put(c) == \E i \in 1..n : answers[i].call = c
  <1>1. /\ EncodeAnswers(put \union refused)
        /\ owned' = owned \union ({a.call : a \in {x \in put : x.ok}} \ Large)
        /\ call' = [c \in Calls |-> IF c \in {a.call : a \in put} THEN "over" ELSE call[c]]
        /\ answers' = Rest(n)
    BY DEF FinishFrame
  <1>2. /\ UNCHANGED <<aborted, produced, releases, closed>> /\ frame' = "none" /\ notify' = FALSE
        /\ n < Len(answers) => answers[n + 1].call \in Cramped
    BY DEF FinishFrame
  <1>3. m \in Nat /\ n \in Nat /\ Len(answers) \in Nat /\ n + m = Len(answers)
    BY DEF Inv, Typed
  <1>4. \A i \in 1..Len(answers) : answers[i] \in Answers /\ answers[i].call \in Calls /\ AnswerInv(i)
    <2> TAKE i \in 1..Len(answers)
    <2>1. answers[i] \in Answers
      BY DEF Inv, Typed
    <2>2. answers[i].call \in Calls
      BY <2>1 DEF Answers
    <2> QED
      BY <2>1, <2>2 DEF Inv
  <1>5. \A i \in 1..m : i + n \in 1..Len(answers) /\ n + i = i + n
    BY <1>3
  <1>6. \A i \in 1..n : i \in 1..Len(answers)
    BY <1>3
  <1>7. ASSUME NEW i \in 1..m
        PROVE  /\ Rest(n)[i] \in Answers /\ Rest(n)[i].call = answers[n + i].call /\ Rest(n)[i].ok = answers[n + i].ok
               /\ Rest(n)[i].encoded => answers[n + i].encoded \/ (i = 1 /\ n < Len(answers))
    <2>1. CASE i = 1
      <3>1. n + 1 \in 1..Len(answers) /\ answers[n + 1] \in Answers /\ n < Len(answers)
        BY <1>3, <1>4, <1>5, <2>1
      <3>2. Rest(n)[i] = [answers[n + 1] EXCEPT !.encoded = TRUE]
        BY <2>1 DEF Rest
      <3> QED
        BY <2>1, <3>1, <3>2 DEF Answers
    <2>2. CASE i # 1
      <3>1. Rest(n)[i] = answers[n + i]
        BY <2>2 DEF Rest
      <3>2. answers[n + i] \in Answers
        BY <1>4, <1>5
      <3> QED
        BY <3>1, <3>2
    <2> QED
      BY <2>1, <2>2
  <1>8. Rest(n) \in Seq(Answers) /\ Len(Rest(n)) = m
    <2>1. Rest(n) = [i \in 1..m |-> Rest(n)[i]]
      BY DEF Rest
    <2>2. \A i \in 1..m : Rest(n)[i] \in Answers
      BY <1>7
    <2> QED
      BY <1>3, <2>1, <2>2
  <1> HIDE DEF m
  <1>9. \A c \in Calls : c \in {a.call : a \in put} <=> Put(c)
    OBVIOUS
  <1>10. ASSUME NEW c \in Calls, NEW i \in 1..n, answers[i].call = c
         PROVE  /\ call'[c] = "over" /\ AnswerInv(i) /\ call[c] = "answered"
                /\ c \in owned' <=> c \in owned \/ (answers[i].ok /\ c \notin Large)
                /\ results'[c] = IF c \in Large /\ answers[i].ok THEN Pieces ELSE results[c]
    <2>1. call'[c] = "over" /\ AnswerInv(i)
      BY <1>1, <1>4, <1>6, <1>9, <1>10
    <2>2. call[c] = "answered"
      BY <2>1, <1>10 DEF AnswerInv
    <2>3. \A j \in 1..Len(answers) : answers[j].call = c => j = i
      BY <1>6, <1>10 DEF Inv, Once
    <2>4. c \in {a.call : a \in {x \in put : x.ok}} <=> answers[i].ok
      BY <1>6, <1>10, <2>3
    <2>5. c \in owned' <=> c \in owned \/ (answers[i].ok /\ c \notin Large)
      BY <1>1, <2>4
    <2>6. c \in Large => ~answers[i].encoded
      BY <2>1, <1>10 DEF AnswerInv
    <2>7. (\E a \in put \union refused : a.call = c /\ a.ok /\ ~a.encoded) <=> answers[i].ok /\ ~answers[i].encoded
      <3>1. answers[i] \in put
        OBVIOUS
      <3>2. \A a \in put : a.call = c => a = answers[i]
        BY <1>6, <2>3
      <3>3. \A a \in refused : a.call # c
        <4> SUFFICES ASSUME n < Len(answers), answers[n + 1].call = c PROVE FALSE
          OBVIOUS
        <4>1. n + 1 \in 1..Len(answers) /\ n + 1 # i
          BY <1>3
        <4> QED
          BY <4>1, <2>3
      <3> QED
        BY <1>10, <3>1, <3>2, <3>3
    <2>8. results'[c] = IF c \in Large /\ answers[i].ok THEN Pieces ELSE results[c]
      BY <1>1, <2>6, <2>7 DEF EncodeAnswers
    <2> QED
      BY <2>1, <2>2, <2>5, <2>8
  <1>11. ASSUME NEW c \in Calls, ~Put(c)
         PROVE  call'[c] = call[c] /\ (c \in owned' <=> c \in owned) /\ results'[c] = results[c]
    <2>1. call'[c] = call[c] /\ (c \in owned' <=> c \in owned)
      BY <1>1, <1>9, <1>11
    <2>2. c \in Large => ~\E a \in put \union refused : a.call = c
      BY <1>2, <1>11
    <2> QED
      BY <1>1, <2>1, <2>2 DEF EncodeAnswers
  <1> HIDE DEF put, refused
  <1>12. Typed'
    <2>1. call' \in [Calls -> Statuses]
      BY <1>1 DEF Inv, Typed, Statuses
    <2>2. results' \in [Calls -> 0..Pieces]
      BY <1>1, CallsAssumption DEF Inv, Typed, EncodeAnswers
    <2>3. owned' \in SUBSET Calls
      <3>1. ASSUME NEW c, c \in owned', c \notin owned PROVE c \in Calls
        <4>1. PICK a \in put : c = a.call
          BY <1>1, <3>1
        <4>2. PICK i \in 1..n : a = answers[i]
          BY <4>1 DEF put
        <4> QED
          BY <1>4, <1>6, <4>1, <4>2
      <3> QED
        BY <3>1 DEF Inv, Typed
    <2> QED
      BY <1>1, <1>2, <1>8, <2>1, <2>2, <2>3 DEF Inv, Typed, Frames
  <1>13. Once'
    <2> SUFFICES ASSUME NEW i \in 1..m, NEW j \in 1..m, answers'[i].call = answers'[j].call PROVE i = j
      BY <1>1, <1>8 DEF Once
    <2>1. answers[n + i].call = answers[n + j].call
      BY <1>1, <1>7
    <2>2. n + i = n + j
      BY <1>5, <2>1 DEF Inv, Once
    <2> QED
      BY <1>3, <2>2
  <1>14. ASSUME NEW c \in Calls PROVE CallInv(c)'
    <2>1. CallInv(c)
      BY DEF Inv
    <2>2. CASE Put(c)
      <3>1. PICK i \in 1..n : answers[i].call = c
        BY <2>2
      <3>2. /\ call'[c] = "over" /\ AnswerInv(i)
            /\ c \in owned' <=> c \in owned \/ (answers[i].ok /\ c \notin Large)
            /\ results'[c] = IF c \in Large /\ answers[i].ok THEN Pieces ELSE results[c]
        BY <1>10, <3>1
      <3>3. releases'[c] = releases[c] /\ produced'[c] = produced[c] /\ Pieces # 0
        BY <1>2, CallsAssumption
      <3>4. CASE answers[i].ok
        <4>1. produced[c] /\ Fresh(c)
          BY <3>1, <3>2, <3>4 DEF AnswerInv
        <4> QED
          BY <3>2, <3>3, <3>4, <4>1 DEF CallInv, Fresh, Gone
      <3>5. CASE ~answers[i].ok
        <4>1. produced[c] => Gone(c)
          BY <3>1, <3>2, <3>5 DEF AnswerInv
        <4> QED
          BY <2>1, <3>2, <3>3, <3>5, <4>1 DEF CallInv, Fresh, Gone
      <3> QED
        BY <3>4, <3>5
    <2>3. CASE ~Put(c)
      <3>1. call'[c] = call[c] /\ (c \in owned' <=> c \in owned) /\ results'[c] = results[c]
        BY <1>11, <2>3
      <3>2. ASSUME call[c] = "answered" PROVE \E i \in 1..Len(answers') : answers'[i].call = c
        <4>1. PICK j \in 1..Len(answers) : answers[j].call = c
          BY <2>1, <3>2 DEF CallInv
        <4>2. j - n \in 1..m /\ n + (j - n) = j
          BY <1>3, <2>3, <4>1
        <4>3. answers'[j - n].call = c
          BY <1>1, <1>7, <4>1, <4>2
        <4> QED
          BY <1>1, <1>8, <4>2, <4>3
      <3> QED
        BY <1>2, <2>1, <3>1, <3>2 DEF CallInv, Fresh, Gone
    <2> QED
      BY <2>2, <2>3
  <1>15. ASSUME NEW i \in 1..m PROVE AnswerInv(i)'
    <2> DEFINE c == answers[n + i].call
    <2>1. /\ answers'[i].call = c /\ answers'[i].ok = answers[n + i].ok /\ c \in Calls /\ AnswerInv(n + i)
          /\ answers'[i].encoded => answers[n + i].encoded \/ c \in Cramped
      BY <1>1, <1>2, <1>4, <1>5, <1>7
    <2>2. ~Put(c)
      <3> SUFFICES ASSUME NEW j \in 1..n, answers[j].call = c PROVE FALSE
        OBVIOUS
      <3>1. j = n + i
        BY <1>5, <1>6 DEF Inv, Once
      <3> QED
        BY <1>3, <3>1
    <2>3. call'[c] = call[c] /\ (c \in owned' <=> c \in owned) /\ results'[c] = results[c]
      BY <1>11, <2>1, <2>2
    <2> HIDE DEF c
    <2> QED
      BY <1>2, <2>1, <2>3 DEF AnswerInv, Fresh, Gone, c
  <1>16. NoLostWake'
    BY <1>2 DEF NoLostWake
  <1> QED
    BY <1>1, <1>8, <1>12, <1>13, <1>14, <1>15, <1>16 DEF Inv

\* What is announced was delivered, and its answer is not in the queue.
LEMMA AnnouncedOver ==
    ASSUME Inv, NEW c \in Calls, results[c] # 0
    PROVE  /\ call[c] = "over" /\ produced[c] /\ releases[c] = 0 /\ c \notin owned
           /\ \A i \in 1..Len(answers) : answers[i].call # c
  <1>1. CallInv(c) /\ produced[c] /\ call[c] \in Statuses
    BY DEF Inv, CallInv, Fresh, Typed
  <1>2. \A i \in 1..Len(answers) : answers[i].call # c
    BY <1>1 DEF Inv, AnswerInv, Fresh, Gone
  <1>3. call[c] = "over"
    BY <1>1, <1>2 DEF CallInv, Statuses
  <1> QED
    BY <1>1, <1>2, <1>3 DEF CallInv, Gone

\* The channel closes: everything undelivered is released.
LEMMA Closing == ASSUME Inv, CloseHostChannel PROVE Inv'
  <1> DEFINE queued == {a.call : a \in {x \in ToSet(answers) : x.ok}}
             In(c) == \E i \in 1..Len(answers) : answers[i].call = c /\ answers[i].ok
  <1>1. /\ ~closed /\ closed' = TRUE /\ aborted' = [c \in Calls |-> aborted[c] \/ call[c] = "inflight"]
        /\ releases' = [c \in Calls |->
              releases[c] + (IF c \in queued THEN 1 ELSE 0) + (IF c \in Announced THEN 1 ELSE 0)]
        /\ call' = [c \in Calls |-> IF call[c] = "answered" THEN "over" ELSE call[c]]
        /\ answers' = <<>> /\ results' = [c \in Calls |-> 0] /\ Wake
        /\ UNCHANGED <<produced, owned>>
    BY DEF CloseHostChannel, NoFetch
  <1>2. \A c : c \in queued <=> In(c)
    BY DEF ToSet, Inv, Typed
  <1> HIDE DEF queued
  <1>3. Typed'
    <2>1. call' \in [Calls -> Statuses] /\ frame' \in Frames /\ notify' \in BOOLEAN
      BY <1>1 DEF Inv, Typed, Statuses, Frames, Wake
    <2>2. aborted' \in [Calls -> BOOLEAN]
      BY <1>1
    <2>3. releases' \in [Calls -> Nat] /\ results' \in [Calls -> 0..Pieces]
      BY <1>1, CallsAssumption DEF Inv, Typed
    <2>4. answers' \in Seq(Answers)
      BY <1>1
    <2> QED
      BY <1>1, <2>1, <2>2, <2>3, <2>4 DEF Inv, Typed
  <1>4. Len(answers') = 0
    BY <1>1
  <1>5. Once' /\ \A i \in 1..Len(answers') : AnswerInv(i)'
    BY <1>4 DEF Once
  <1>6. NoLostWake'
    BY <1>1 DEF Inv, NoLostWake, Wake
  <1>7. ASSUME NEW c \in Calls PROVE CallInv(c)'
    <2>1. /\ CallInv(c) /\ call[c] \in Statuses /\ releases[c] \in Nat
          /\ call'[c] = (IF call[c] = "answered" THEN "over" ELSE call[c]) /\ results'[c] = 0
          /\ releases'[c] = releases[c] + (IF In(c) THEN 1 ELSE 0) + (IF results[c] # 0 THEN 1 ELSE 0)
      BY <1>1, <1>2 DEF Inv, Typed, Announced, NoFetch
    <2>2. ASSUME In(c) PROVE produced[c] /\ Fresh(c) /\ call[c] = "answered"
      BY <2>2 DEF Inv, AnswerInv
    <2>3. ASSUME results[c] # 0 PROVE call[c] = "over" /\ produced[c] /\ releases[c] = 0 /\ c \notin owned /\ ~In(c)
      BY <2>3, AnnouncedOver
    <2>4. ASSUME call[c] = "answered", ~In(c) PROVE produced[c] => Gone(c)
      <3>1. PICK i \in 1..Len(answers) : answers[i].call = c
        BY <2>1, <2>4 DEF CallInv
      <3> QED
        BY <2>4, <3>1 DEF Inv, AnswerInv
    <2> QED
      BY <1>1, <2>1, <2>2, <2>3, <2>4 DEF CallInv, Fresh, Gone, Statuses
  <1> QED
    BY <1>3, <1>5, <1>6, <1>7 DEF Inv

\* Every step.
LEMMA InvStep == ASSUME Inv, Large \cap Cramped = {}, [Next]_vars PROVE Inv'
  <1>0. Typed /\ NoLostWake
    BY DEF Inv
  <1>1. ASSUME NEW f \in {"begun", "failed"}, BeginFrame(f) PROVE Inv'
    BY <1>0, <1>1, Aside DEF BeginFrame, Typed, Frames, NoLostWake, Ready
  <1>2. CASE Wait
    BY <1>0, <1>2, Aside DEF Wait, Typed, Frames, NoLostWake, MustWait, Ready
  <1>3. CASE OtherSettles \/ FailFrame
    BY <1>0, <1>3, Aside DEF OtherSettles, FailFrame, Typed, Frames, NoLostWake
  <1>4. ASSUME NEW c \in Calls, BeginPost(c) PROVE Inv'
    BY <1>0, <1>4, Aside DEF BeginPost, Typed, Frames, Statuses, NoLostWake
  <1>5. ASSUME NEW c \in Calls, BeginCancel(c) PROVE Inv'
    BY <1>0, <1>5, Aside DEF BeginCancel, Typed, Frames, NoLostWake
  <1>6. ASSUME NEW c \in Calls, PostSettles(c) PROVE Inv'
    <2>1. CallInv(c) /\ ~produced[c] /\ Fresh(c)
      BY <1>6 DEF Inv, CallInv, PostSettles
    <2>2. releases' \in [Calls -> Nat] /\ releases'[c] = 1 /\ \A d \in Calls \ {c} : releases'[d] = releases[d]
      BY <1>0, <1>6, <2>1 DEF PostSettles, ReleaseResult, Typed, Fresh
    <2>3. Gone(c)'
      BY <1>6, <2>1, <2>2 DEF PostSettles, Gone, Fresh
    <2> QED
      BY <1>0, <1>6, <2>2, <2>3, Passing DEF PostSettles, Typed
  <1>7. ASSUME NEW c \in Calls, BeginCall(c) PROVE Inv'
    <2>1. ~produced[c] /\ Fresh(c)
      BY <1>7 DEF Inv, CallInv, BeginCall
    <2>2. CASE c \in Unknown
      <3>1. /\ answers' = Append(answers, Answer(c, FALSE)) /\ call' = [call EXCEPT ![c] = "answered"]
            /\ frame' \in Frames /\ NoLostWake' /\ releases'[c] = 0 /\ ~produced'[c] /\ notify' \in BOOLEAN
        BY <1>0, <1>7, <2>1, <2>2 DEF BeginCall, NoLostWake, Frames, Fresh, Typed
      <3> QED
        BY <1>0, <1>7, <3>1, Answering DEF BeginCall, Typed
    <2>3. CASE c \notin Unknown
      BY <1>0, <1>7, <2>3, Aside DEF BeginCall, Typed, Frames, Statuses, NoLostWake
    <2> QED
      BY <2>2, <2>3
  <1>8. ASSUME NEW c \in Calls, BeginAbandon(c) PROVE Inv'
    <2>1. call[c] = "over" /\ produced[c] /\ releases[c] = 0 /\ c \notin owned
      BY <1>8, AnnouncedOver DEF BeginAbandon, Announced, NoFetch
    <2>2. releases' \in [Calls -> Nat] /\ releases'[c] = 1 /\ \A d \in Calls \ {c} : releases'[d] = releases[d]
      BY <1>0, <1>8, <2>1 DEF BeginAbandon, ReleaseResult, Typed
    <2>3. /\ results' \in [Calls -> 0..Pieces] /\ results'[c] = 0 /\ \A d \in Calls \ {c} : results'[d] = results[d]
      BY <1>0, <1>8, CallsAssumption DEF BeginAbandon, NoFetch, Typed
    <2>4. call' = [call EXCEPT ![c] = "over"] /\ produced' = [produced EXCEPT ![c] = TRUE]
      BY <1>0, <1>8, <2>1 DEF BeginAbandon, Typed
    <2>5. Gone(c)'
      BY <1>8, <2>1, <2>2, <2>3 DEF BeginAbandon, Gone
    <2> QED
      BY <1>0, <1>8, <2>1, <2>2, <2>3, <2>4, <2>5, Passing DEF BeginAbandon, Typed
  <1>9. ASSUME NEW c \in Calls, Fetch(c) PROVE Inv'
    <2>1. call[c] = "over" /\ produced[c] /\ releases[c] = 0 /\ c \notin owned /\ results[c] \in 1..Pieces
      BY <1>0, <1>9, AnnouncedOver, CallsAssumption DEF Fetch, Announced, NoFetch, Typed
    <2>2. /\ results' \in [Calls -> 0..Pieces] /\ results'[c] = results[c] - 1
          /\ \A d \in Calls \ {c} : results'[d] = results[d]
      BY <1>0, <1>9, <2>1, CallsAssumption DEF Fetch, Typed
    <2>3. call' = [call EXCEPT ![c] = "over"] /\ produced' = [produced EXCEPT ![c] = TRUE]
      BY <1>0, <1>9, <2>1 DEF Fetch, Typed
    <2>4. owned' = IF results[c] = 1 THEN owned \union {c} ELSE owned
      BY <1>9 DEF Fetch
    <2>5. /\ \A d \in Calls \ {c} : d \in owned' <=> d \in owned
          /\ owned' \in SUBSET Calls
          /\ c \in owned' <=> results'[c] = 0
      BY <1>0, <2>1, <2>2, <2>4 DEF Typed
    <2>6. releases'[c] = 0 /\ releases' \in [Calls -> Nat] /\ UNCHANGED <<aborted, answers, closed, frame, notify, releases>>
      BY <1>0, <1>9, <2>1 DEF Fetch, Typed
    <2> QED
      BY <2>1, <2>2, <2>3, <2>5, <2>6, Passing
  <1>10. ASSUME NEW c \in Calls, HandlerThrows(c) PROVE Inv'
    <2>1. ~produced[c] /\ Fresh(c)
      BY <1>10 DEF Inv, CallInv, HandlerThrows
    <2>2. frame' \in Frames /\ notify' \in BOOLEAN /\ NoLostWake'
      BY <1>0, <1>10 DEF HandlerThrows, Answered, Wake, Frames, NoLostWake, Typed
    <2> QED
      BY <1>0, <1>10, <2>1, <2>2, Answering DEF HandlerThrows, Answered, Fresh, Typed
  <1>11. ASSUME NEW c \in Calls, HandlerMisanswers(c) PROVE Inv'
    <2>1. ~produced[c] /\ Fresh(c)
      BY <1>11 DEF Inv, CallInv, HandlerMisanswers
    <2>2. frame' \in Frames /\ notify' \in BOOLEAN /\ NoLostWake'
      BY <1>0, <1>11 DEF HandlerMisanswers, Answered, Wake, Frames, NoLostWake, Typed
    <2>3. releases' \in [Calls -> Nat] /\ releases'[c] = 1 /\ \A d \in Calls \ {c} : releases'[d] = releases[d]
      BY <1>0, <1>11, <2>1 DEF HandlerMisanswers, ReleaseResult, Typed, Fresh
    <2>4. produced' \in [Calls -> BOOLEAN] /\ produced'[c] /\ \A d \in Calls \ {c} : produced'[d] = produced[d]
      BY <1>0, <1>11 DEF HandlerMisanswers, Typed
    <2> QED
      BY <1>11, <2>1, <2>2, <2>3, <2>4, Answering DEF HandlerMisanswers, Answered
  <1>12. ASSUME NEW c \in Calls, HandlerReturns(c) PROVE Inv'
    <2>1. ~produced[c] /\ Fresh(c)
      BY <1>12 DEF Inv, CallInv, HandlerReturns
    <2>2. CASE ~closed
      <3>1. frame' \in Frames /\ notify' \in BOOLEAN /\ NoLostWake'
        BY <1>0, <1>12, <2>2 DEF HandlerReturns, StillOpen, Answered, Wake, Frames, NoLostWake, Typed
      <3>2. produced' \in [Calls -> BOOLEAN] /\ produced'[c] /\ \A d \in Calls \ {c} : produced'[d] = produced[d]
        BY <1>0, <1>12 DEF HandlerReturns, Typed
      <3>3. releases' = releases /\ releases[c] = 0 /\ releases \in [Calls -> Nat]
        BY <1>0, <1>12, <2>1, <2>2 DEF HandlerReturns, StillOpen, Fresh, Typed
      <3> QED
        BY <1>12, <2>2, <3>1, <3>2, <3>3, Answering DEF HandlerReturns, StillOpen, Answered
    <2>3. CASE closed
      <3>1. releases' \in [Calls -> Nat] /\ releases'[c] = 1 /\ \A d \in Calls \ {c} : releases'[d] = releases[d]
        BY <1>0, <1>12, <2>1, <2>3 DEF HandlerReturns, StillOpen, ReleaseResult, Typed, Fresh
      <3>2. Gone(c)'
        BY <1>12, <2>1, <3>1 DEF HandlerReturns, Gone, Fresh
      <3> QED
        BY <1>0, <1>12, <2>3, <3>1, <3>2, Passing DEF HandlerReturns, StillOpen, Typed
    <2> QED
      BY <1>0, <2>2, <2>3 DEF Typed
  <1>13. CASE UNCHANGED vars
    BY <1>0, <1>13, Aside DEF vars, Typed, NoLostWake, Ready
  <1> QED
    BY <1>1, <1>2, <1>3, <1>4, <1>5, <1>6, <1>7, <1>8, <1>9, <1>10, <1>11, <1>12, <1>13, Finishing, Closing DEF Next

-----------------------------------------------------------------------------
\* What the invariant says of the results.
LEMMA InvSound == Inv => CallsSound
  <1> SUFFICES ASSUME Inv PROVE CallsSound
    OBVIOUS
  <1>0. DOMAIN answers = 1..Len(answers)
    BY DEF Inv, Typed
  <1>1. \A i \in 1..Len(answers) : answers[i].ok \in BOOLEAN
    <2> TAKE i \in 1..Len(answers)
    <2>1. answers[i] \in Answers
      BY DEF Inv, Typed
    <2> QED
      BY <2>1 DEF Answers
  <1>2. TypeOK
    <2>1. ASSUME NEW c \in Calls, call[c] = "answered" PROVE Queued(c, TRUE) \/ Queued(c, FALSE)
      <3>1. PICK i \in 1..Len(answers) : answers[i].call = c
        BY <2>1 DEF Inv, CallInv
      <3> QED
        BY <1>0, <1>1, <3>1 DEF Queued
    <2> QED
      BY <2>1 DEF Inv, Typed, TypeOK, Statuses, Frames
  <1>3. ASSUME NEW c \in Calls, produced[c]
        PROVE  \/ ~closed /\ Queued(c, TRUE) /\ releases[c] = 0 /\ c \notin owned
               \/ c \in Announced /\ ~Queued(c, TRUE) /\ releases[c] = 0 /\ c \notin owned
               \/ c \in owned /\ c \notin Announced /\ releases[c] = 0
               \/ releases[c] = 1 /\ c \notin owned /\ c \notin Announced /\ ~Queued(c, TRUE)
    <2>1. CASE Queued(c, TRUE)
      <3>1. PICK i \in 1..Len(answers) : answers[i].call = c /\ answers[i].ok
        BY <1>0, <2>1 DEF Queued
      <3> QED
        BY <2>1, <3>1 DEF Inv, AnswerInv, Fresh
    <2>2. CASE call[c] = "answered" /\ ~Queued(c, TRUE)
      <3>1. PICK i \in 1..Len(answers) : answers[i].call = c
        BY <2>2 DEF Inv, CallInv
      <3>2. ~answers[i].ok
        BY <1>0, <1>1, <2>2, <3>1 DEF Queued
      <3>3. Gone(c)
        BY <1>3, <3>1, <3>2 DEF Inv, AnswerInv
      <3> QED
        BY <2>2, <3>3 DEF Gone, Announced, NoFetch
    <2>3. CASE call[c] # "answered" /\ ~Queued(c, TRUE)
      <3>1. call[c] = "over"
        BY <1>3, <2>3 DEF Inv, CallInv, Typed, Statuses
      <3> QED
        BY <1>3, <2>3, <3>1 DEF Inv, CallInv, Gone, Announced, NoFetch
    <2> QED
      BY <2>1, <2>2, <2>3
  <1> QED
    BY <1>2, <1>3 DEF CallsSound, ResultAccounted, Inv

\* Where an answer that is fetched in pieces always fits the inbox it is
\* announced in, what a handler returned is always someone's, is released once
\* at most and never once the application has it, and a frame that waits is
\* registered and has nothing to be told, in every order of handlers, frames,
\* cancellations, fetches, abandoned fetches and the close of the channel.
THEOREM CallsAlwaysSound ==
    ASSUME Large \cap Cramped = {}
    PROVE  Spec => []CallsSound
  <1>1. Init => Inv
    BY InitInv
  <1>2. Inv /\ [Next]_vars => Inv'
    BY InvStep
  <1> QED
    BY <1>1, <1>2, InvSound, PTL DEF Spec
=============================================================================
