------------------------- MODULE ChatCommandProofs -------------------------
(***************************************************************************)
(* Theorem about the chat command, for every number of commands.           *)
(***************************************************************************)
EXTENDS ChatCommand, TLAPS

(* The words of a command are the answers to its first questions, and what *)
(* was answered is no more than that.                                      *)
Asked(n) == {Questions[i] : i \in 1..n}
Agrees(args, answered) ==
  /\ args \in Seq(Words) /\ Len(args) <= 3
  /\ answered \in [Asked(Len(args)) -> Words]
  /\ \A i \in 1..Len(args) : answered[Questions[i]] = args[i]

MenuOK(menu) == /\ Agrees(menu.args, menu.answered) /\ Len(menu.args) < 3
                /\ menu.question = Questions[Len(menu.args) + 1]

Job == [options: [1..3 -> BOOLEAN], answered: [Asked(3) -> Words],
        status: {"pending", "failed"}, running: BOOLEAN]

ChatInv == (\A menu \in menus : MenuOK(menu)) /\ jobs \in Seq(Job) /\ OptionsAreAnswers

-----------------------------------------------------------------------------
(* No question is asked twice.                                             *)
LEMMA QuestionsDiffer ==
  \A i, k \in 1..3 : Questions[i] = Questions[k] => i = k
<1>1. Questions[1] # Questions[2] /\ Questions[1] # Questions[3] /\ Questions[2] # Questions[3]
  BY DEF Questions
<1>2. \A i \in 1..3 : i = 1 \/ i = 2 \/ i = 3
  OBVIOUS
<1> QED BY <1>1, <1>2

(* A command that is typed answers as many questions as it has words.      *)
LEMMA TypedAgrees ==
  ASSUME NEW n \in 0..3, NEW args \in [1..n -> Words]
  PROVE  Agrees(args, [q \in {Questions[i] : i \in DOMAIN args} |->
                         args[CHOOSE i \in DOMAIN args : Questions[i] = q]])
<1> DEFINE answered == [q \in {Questions[i] : i \in DOMAIN args} |->
                          args[CHOOSE i \in DOMAIN args : Questions[i] = q]]
<1>1. args \in Seq(Words) /\ Len(args) = n /\ DOMAIN args = 1..n
  OBVIOUS
<1>2. ASSUME NEW i \in 1..n
      PROVE  (CHOOSE k \in DOMAIN args : Questions[k] = Questions[i]) = i
  <2>1. \A k \in 1..n : Questions[k] = Questions[i] <=> k = i
    BY QuestionsDiffer
  <2> QED BY <2>1, <1>1
<1>3. ASSUME NEW i \in 1..n
      PROVE  answered[Questions[i]] = args[i] /\ args[i] \in Words
  BY <1>1, <1>2
<1>4. DOMAIN answered = Asked(n)
  BY <1>1 DEF Asked
<1>5. \A q \in Asked(n) : answered[q] \in Words
  BY <1>3 DEF Asked
<1>6. answered \in [Asked(n) -> Words]
  BY <1>4, <1>5
<1>7. Agrees(args, answered)
  <2> HIDE DEF answered
  <2> QED BY <1>1, <1>3, <1>6 DEF Agrees
<1> QED BY <1>7

(* A click adds one word, and the answer to the question of its menu.      *)
LEMMA ClickedAgrees ==
  ASSUME NEW menu, MenuOK(menu), NEW answer \in Answers
  PROVE  Agrees(Append(menu.args, answer),
                [q \in DOMAIN menu.answered \cup {menu.question} |->
                   IF q = menu.question THEN answer ELSE menu.answered[q]])
<1> DEFINE args == menu.args
           n    == Len(args)
           answered == [q \in DOMAIN menu.answered \cup {menu.question} |->
                          IF q = menu.question THEN answer ELSE menu.answered[q]]
<1>1. args \in Seq(Words) /\ n < 3 /\ menu.question = Questions[n + 1]
  BY DEF MenuOK, Agrees
<1>0. answer \in Words
  BY DEF Words
<1>2. n \in 0..2
  <2>1. n \in Nat
    BY <1>1
  <2> HIDE DEF n
  <2> QED BY <2>1, <1>1
<1>3. Append(args, answer) \in Seq(Words) /\ Len(Append(args, answer)) = n + 1
  BY <1>0, <1>1, <1>2
<1>4. menu.answered \in [Asked(n) -> Words] /\ \A i \in 1..n : menu.answered[Questions[i]] = args[i]
  BY DEF MenuOK, Agrees
<1>5. Asked(n + 1) = Asked(n) \cup {Questions[n + 1]}
  <2>1. 1..(n + 1) = (1..n) \cup {n + 1}
    BY <1>2
  <2> QED BY <2>1 DEF Asked
<1>6. answered \in [Asked(n + 1) -> Words]
  BY <1>0, <1>1, <1>2, <1>4, <1>5
<1>7. ASSUME NEW i \in 1..(n + 1)
      PROVE  answered[Questions[i]] = Append(args, answer)[i]
  <2>1. CASE i = n + 1
    BY <2>1, <1>1, <1>2
  <2>2. CASE i \in 1..n
    <3>1. Questions[i] # Questions[n + 1]
      <4> HIDE DEF n
      <4>1. i \in 1..3 /\ n + 1 \in 1..3 /\ i # n + 1
        BY <2>2, <1>2
      <4> QED BY <4>1, QuestionsDiffer
    <3>2. Questions[i] \in Asked(n)
      BY <2>2 DEF Asked
    <3>3. Append(args, answer)[i] = args[i]
      BY <2>2, <1>1, <1>2
    <3> QED BY <3>1, <3>2, <3>3, <1>1, <1>4, <2>2
  <2> QED BY <2>1, <2>2, <1>2
<1>8. Agrees(Append(args, answer), answered)
  <2> DEFINE m == n + 1
  <2>1. m \in Nat /\ m <= 3
    <3> HIDE DEF n
    <3> QED BY <1>2
  <2> HIDE DEF answered, m
  <2> QED BY <2>1, <1>3, <1>6, <1>7 DEF Agrees, m
<1> QED BY <1>8

-----------------------------------------------------------------------------
(* The worker keeps the invariant with a command whose words agree with    *)
(* the answers: with fewer than three it asks on, with three it makes a    *)
(* job of them.                                                            *)
LEMMA CommandKeeps ==
  ASSUME ChatInv, NEW args, NEW answered, Agrees(args, answered),
         SsotSyncToNautobot(args, answered)
  PROVE  ChatInv'
<1>1. CASE Len(args) < 3
  <2>1. menus' = menus \cup {Menu(args, Questions[Len(args) + 1], answered)} /\ jobs' = jobs
    BY <1>1 DEF SsotSyncToNautobot, Prompt
  <2>2. MenuOK(Menu(args, Questions[Len(args) + 1], answered))
    BY <1>1 DEF MenuOK, Menu
  <2> QED BY <2>1, <2>2 DEF ChatInv, OptionsAreAnswers
<1>2. CASE ~(Len(args) < 3) /\ ~(\A i \in 1..3 : args[i] \in Answers)
  BY <1>2 DEF SsotSyncToNautobot, ChatInv, OptionsAreAnswers
<1>3. CASE ~(Len(args) < 3) /\ \A i \in 1..3 : args[i] \in Answers
  <2> DEFINE job == NewJob(args, answered)
  <2>1. menus' = menus /\ jobs' = Append(jobs, job)
    BY <1>3 DEF SsotSyncToNautobot
  <2>2. Len(args) = 3
    <3> DEFINE n == Len(args)
    <3>1. args \in Seq(Words) /\ n <= 3
      BY DEF Agrees
    <3>2. n \in Nat /\ ~(n < 3)
      BY <3>1, <1>3
    <3>3. n = 3
      <4> HIDE DEF n
      <4> QED BY <3>1, <3>2
    <3> QED BY <3>3
  <2>3. job \in Job /\ \A i \in 1..3 : job.options[i] <=> (job.answered[Questions[i]] = "True")
    BY <2>2 DEF Agrees, NewJob, Job, IsTruthy
  <2>4. jobs' \in Seq(Job)
    BY <2>1, <2>3 DEF ChatInv
  <2>5. OptionsAreAnswers'
    BY <2>1, <2>3 DEF ChatInv, OptionsAreAnswers
  <2> QED BY <2>1, <2>4, <2>5 DEF ChatInv
<1> QED BY <1>1, <1>2, <1>3

(* The run of a job leaves its options and the answers as they are.        *)
LEMMA RunKeeps ==
  ASSUME ChatInv, NEW j \in DOMAIN jobs, RunSyncData(j)
  PROVE  ChatInv'
<1>1. jobs \in Seq(Job) /\ menus' = menus
  BY DEF ChatInv, RunSyncData
<1>2. jobs' = [jobs EXCEPT ![j] = Ended(jobs[j])]
  BY DEF RunSyncData
<1>3. jobs[j] \in Job
  BY <1>1
<1>4. /\ Ended(jobs[j]) \in Job
      /\ Ended(jobs[j]).options = jobs[j].options
      /\ Ended(jobs[j]).answered = jobs[j].answered
  BY <1>3 DEF Ended, Job
<1>5. jobs' \in Seq(Job) /\ DOMAIN jobs' = DOMAIN jobs
  BY <1>1, <1>2, <1>4
<1>6. \A k \in DOMAIN jobs : jobs'[k].options = jobs[k].options /\ jobs'[k].answered = jobs[k].answered
  BY <1>1, <1>2, <1>4
<1> QED BY <1>1, <1>5, <1>6 DEF ChatInv, OptionsAreAnswers

(* The options of every job are the answers of the one who started it,     *)
(* whatever menus are clicked again and whatever is typed in between.      *)
THEOREM OptionsAnswered == Spec => []OptionsAreAnswers
<1>1. Init => ChatInv
  BY DEF Init, ChatInv, OptionsAreAnswers
<1>2. ChatInv /\ [Next]_vars => ChatInv'
  <2> SUFFICES ASSUME ChatInv, [Next]_vars PROVE ChatInv'
    OBVIOUS
  <2>1. ASSUME NEW n \in 0..3, NEW args \in [1..n -> Words], Type(args)
        PROVE  ChatInv'
    BY <2>1, TypedAgrees, CommandKeeps DEF Type
  <2>2. ASSUME NEW menu \in menus, NEW answer \in Answers, Click(menu, answer)
        PROVE  ChatInv'
    <3>1. MenuOK(menu)
      BY DEF ChatInv
    <3> QED BY <2>2, <3>1, ClickedAgrees, CommandKeeps DEF Click
  <2>3. ASSUME NEW j \in DOMAIN jobs, RunSyncData(j)
        PROVE  ChatInv'
    BY <2>3, RunKeeps
  <2>4. CASE Change \/ UNCHANGED vars
    BY <2>4 DEF Change, vars, ChatInv, OptionsAreAnswers
  <2> QED BY <2>1, <2>2, <2>3, <2>4 DEF Next
<1>3. ChatInv => OptionsAreAnswers
  BY DEF ChatInv
<1> QED BY <1>1, <1>2, <1>3, PTL DEF Spec
=============================================================================
