---------------------------- MODULE ChatCommand -----------------------------
(***************************************************************************)
(* The chat command "ipfabric ssot-sync-to-nautobot" (workers.py). It asks *)
(* three questions, each with a menu, and keeps nothing between them: the  *)
(* answers given so far are words of the command that a click sends. A     *)
(* menu stays in the channel, so it may be clicked again, by anybody and   *)
(* in any order with other menus and with commands that are typed.         *)
(*                                                                         *)
(* With three answers the command makes a job result of its own and runs   *)
(* the job itself, without Nautobot's run_job: nobody catches an exception *)
(* of the job, and there is no snapshot among the job's arguments.         *)
(***************************************************************************)
EXTENDS Integers, Sequences, FiniteSets

CONSTANT MaxCommands  \* commands that are sent to the worker

(* The parameters of the command, in order.                                *)
Questions == <<"dry_run", "safe_delete_mode", "sync_ipfabric_tagged_only">>
Answers   == {"True", "False"}
Words     == Answers \cup {"perhaps"}

VARIABLES
  link,      \* how IP Fabric answers, as in IPFabricClient
  menus,     \* the menus of the channel
  commands,  \* how many commands were sent
  jobs       \* the jobs of the commands that have three answers
vars == <<link, menus, commands, jobs>>

(* A menu: the command its choices complete, the question it asks, and for *)
(* the properties what was answered to which question on the way to it.    *)
Menu(args, question, answered) ==
  [args |-> args, question |-> question, answered |-> answered]

Init == link \in {"up", "refused", "failing"} /\ menus = {} /\ commands = 0 /\ jobs = <<>>

-----------------------------------------------------------------------------
(* prompt_for_bool, for the first parameter that is None.                  *)
Prompt(args, answered) ==
  menus' = menus \cup {Menu(args, Questions[Len(args) + 1], answered)}

IsTruthy(word) == word = "True"
(* The data of the job, the job result that is saved before it runs.       *)
NewJob(args, answered) ==
  [options |-> [i \in 1..3 |-> IsTruthy(args[i])], answered |-> answered,
   status |-> "pending", running |-> TRUE]

(* The worker runs the command. A word is_truthy does not know raises      *)
(* before there is a job.                                                  *)
SsotSyncToNautobot(args, answered) ==
  /\ commands < MaxCommands /\ commands' = commands + 1
  /\ IF Len(args) < 3 THEN Prompt(args, answered) /\ UNCHANGED jobs
     ELSE /\ jobs' = IF \A i \in 1..3 : args[i] \in Answers
                     THEN Append(jobs, NewJob(args, answered)) ELSE jobs
          /\ UNCHANGED menus
  /\ UNCHANGED link

Type(args) ==
  SsotSyncToNautobot(args, [q \in {Questions[i] : i \in DOMAIN args} |->
                              args[CHOOSE i \in DOMAIN args : Questions[i] = q]])
Click(menu, answer) ==
  SsotSyncToNautobot(Append(menu.args, answer),
                     [q \in DOMAIN menu.answered \cup {menu.question} |->
                        IF q = menu.question THEN answer ELSE menu.answered[q]])

-----------------------------------------------------------------------------
(* run, post_run and set_status. sync_data looks for the snapshot once it  *)
(* has a client, and raises; without one it logs a failure and returns.    *)
Ended(job) == [job EXCEPT !.running = FALSE,
                          !.status = IF link = "refused" THEN "failed" ELSE @]
RunSyncData(j) ==
  /\ jobs[j].running
  /\ jobs' = [jobs EXCEPT ![j] = Ended(@)]
  /\ UNCHANGED <<link, menus, commands>>

Change == /\ commands < MaxCommands /\ link' \in {"up", "refused", "failing"} \ {link}
          /\ UNCHANGED <<menus, commands, jobs>>

Next == \/ \E n \in 0..3 : \E args \in [1..n -> Words] : Type(args)
        \/ \E menu \in menus, answer \in Answers : Click(menu, answer)
        \/ \E j \in DOMAIN jobs : RunSyncData(j)
        \/ Change
Spec == Init /\ [][Next]_vars

-----------------------------------------------------------------------------
(* Properties                                                              *)

(* Whatever conversations go on in the channel at a time, a job runs with  *)
(* each option as the one who started it answered that question.           *)
OptionsAreAnswers ==
  \A j \in DOMAIN jobs : \A i \in 1..3 :
    jobs[j].options[i] <=> (jobs[j].answered[Questions[i]] = "True")

(* "Sync failed. Here is the link to your job": a job that is over has a   *)
(* status that says so. Violated whenever IP Fabric answers.               *)
StatusIsFinal ==
  \A j \in DOMAIN jobs : ~jobs[j].running => jobs[j].status \in {"completed", "failed"}
=============================================================================
