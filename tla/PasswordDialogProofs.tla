------------------------- MODULE PasswordDialogProofs -------------------------
(***************************************************************************)
(* That executions are given the passwords of their repositories, and are  *)
(* asked for them, for every number of repositories and executions.        *)
(*                                                                         *)
(* Whoever waits has the sender: Senders holds whatever the user does.     *)
(* What the dialog was opened for, it files under (OpenedForPath), until a *)
(* retried action clears both.  And as long as no two want the  *)
(* dialog at once it is in one of the states of Quiet: nobody wants it, or *)
(* one execution does and is about to post, has posted or is being asked,  *)
(* or it was opened for an export, or that is to be tried again.           *)
(***************************************************************************)
EXTENDS PasswordDialog, TLAPS

Answers == Typed \cup {None, Pending}
Actions == {"", "export_key"}
Pcs == {"unused", "look", "take", "post", "wait", "backup", "done", "failed"}

Run == [pc : Pcs, repo : Repos \cup {None}, answer : Answers]
Closure == [kind : {"prompt"}, arg : Repos] \cup [kind : {"retry"}, arg : Actions]
Dialog == [shown : BOOLEAN, path : Repos \cup {None}, action : Actions, for : Repos \cup {None}]

DialogTypeOK ==
  /\ runs \in [Runs -> Run]
  /\ \A e \in Runs : runs[e].pc # "unused" => runs[e].repo \in Repos
  /\ slot \in {0} \cup Runs
  /\ events \in Seq(Closure)
  /\ dialog \in Dialog
  /\ active \in Repos \cup {None}
  /\ session \in [Repos -> Typed \cup {None}] /\ keyring \in [Repos -> Typed \cup {None}]
  /\ upset \subseteq {"overlap", "cleared", "cancel"}

\* The sender in auth_oneshot is that of the one execution that has yet to be answered.
Sender(e) ==
  /\ slot = e <=> runs[e].pc \in {"post", "wait"} /\ runs[e].answer = Pending
  /\ runs[e].pc \in {"look", "take"} => runs[e].answer = Pending

Senders == \A e \in Runs : Sender(e)

\* The dialog files under the repository it was opened for, or has none.
OpenedForPath ==
  dialog.shown => dialog.path = dialog.for /\ (dialog.path = None => "cleared" \in upset)

\* Who wants the dialog, and how far that is, when no two want it.
Quiet ==
  /\ Len(events) <= 1
  /\ events # << >> => IF events[1].kind = "prompt" THEN slot # 0 /\ events[1].arg = runs[slot].repo
                       ELSE slot = 0
  /\ dialog.shown => events = << >>
  /\ dialog.shown /\ slot = 0 => dialog.action = "export_key" \/ "cleared" \in upset
  /\ dialog.shown /\ slot # 0 => dialog.for = runs[slot].repo
  /\ \A e \in Runs : runs[e].pc = "post" => slot = e /\ ~dialog.shown /\ events = << >>

OneAtATime == "overlap" \notin upset => Quiet

\* Then nobody has what was typed for another repository.
Theirs ==
  "overlap" \notin upset =>
    \A e \in Runs : runs[e].answer \in TypedFor({None, runs[e].repo}) \cup {Pending}

-------------------------------------------------------------------------------
(***************************************************************************)
(* What a step makes of an execution                                       *)
(***************************************************************************)

Becomes(e, pc, repo, answer) ==
  /\ runs' \in [Runs -> Run]
  /\ runs'[e].pc = pc /\ runs'[e].repo = repo /\ runs'[e].answer = answer
  /\ \A f \in Runs \ {e} : runs'[f] = runs[f]

\* Execution e goes on, and nothing else of it changes.
Moves(e, pc) == Becomes(e, pc, runs[e].repo, runs[e].answer)

LEMMA RunsNumbered == Runs \subseteq Nat \ {0} /\ 0 \notin Runs
BY BoundsAssumption DEF Runs

LEMMA Replaced ==
  ASSUME DialogTypeOK, NEW e \in Runs, NEW run \in Run, runs' = [runs EXCEPT ![e] = run]
  PROVE  Becomes(e, run.pc, run.repo, run.answer)
BY DEF DialogTypeOK, Becomes

LEMMA FieldReplaced ==
  ASSUME DialogTypeOK, NEW e \in Runs
  PROVE  /\ \A pc \in Pcs : runs' = [runs EXCEPT ![e].pc = pc] => Moves(e, pc)
         /\ \A answer \in Answers :
              runs' = [runs EXCEPT ![e].answer = answer] => Becomes(e, runs[e].pc, runs[e].repo, answer)
<1>1. runs \in [Runs -> Run] /\ runs[e] \in Run
  BY DEF DialogTypeOK
<1>2. ASSUME NEW pc \in Pcs, runs' = [runs EXCEPT ![e].pc = pc]
      PROVE  Moves(e, pc)
  <2> DEFINE run == [runs[e] EXCEPT !.pc = pc]
  <2>1. run \in Run /\ run.pc = pc /\ run.repo = runs[e].repo /\ run.answer = runs[e].answer
    BY <1>1 DEF Run
  <2>2. runs' = [runs EXCEPT ![e] = run]
    BY <1>1, <1>2
  <2> HIDE DEF run
  <2> QED
    BY <2>1, <2>2, Replaced DEF Moves
<1>3. ASSUME NEW answer \in Answers, runs' = [runs EXCEPT ![e].answer = answer]
      PROVE  Becomes(e, runs[e].pc, runs[e].repo, answer)
  <2> DEFINE run == [runs[e] EXCEPT !.answer = answer]
  <2>1. run \in Run /\ run.pc = runs[e].pc /\ run.repo = runs[e].repo /\ run.answer = answer
    BY <1>1 DEF Run
  <2>2. runs' = [runs EXCEPT ![e] = run]
    BY <1>1, <1>3
  <2> HIDE DEF run
  <2> QED
    BY <2>1, <2>2, Replaced
<1> QED
  BY <1>2, <1>3

LEMMA StartStarts ==
  ASSUME DialogTypeOK, NEW e \in Runs, NEW r \in Repos, Start(e, r)
  PROVE  runs[e].pc = "unused" /\ Becomes(e, "look", r, Pending)
<1> DEFINE run == [pc |-> "look", repo |-> r, answer |-> Pending]
<1>1. run \in Run /\ run.pc = "look" /\ run.repo = r /\ run.answer = Pending
  BY DEF Run, Pcs, Answers
<1>2. runs[e].pc = "unused" /\ runs' = [runs EXCEPT ![e] = run]
  BY DEF Start
<1> HIDE DEF run
<1> QED
  BY <1>1, <1>2, Replaced

\* The keyring spares an execution the dialog.
LEMMA LookTakes ==
  ASSUME DialogTypeOK, NEW e \in Runs, Look(e)
  PROVE  /\ runs[e].pc = "look"
         /\ LET found == keyring[runs[e].repo]
            IN  IF found = None THEN Moves(e, "take")
                ELSE found \in Typed /\ Becomes(e, "backup", runs[e].repo, found)
<1> DEFINE found == keyring[runs[e].repo]
<1>1. runs[e].pc = "look" /\ runs[e] \in Run
  BY DEF Look, DialogTypeOK
<1>2. found \in Typed \cup {None}
  BY <1>1 DEF DialogTypeOK
<1>3. CASE found = None
  <2>1. runs' = [runs EXCEPT ![e].pc = "take"]
    BY <1>3 DEF Look, DialogTypeOK
  <2> QED
    BY <1>1, <1>3, <2>1, FieldReplaced DEF Pcs
<1>4. CASE found # None
  <2> DEFINE run == [runs[e] EXCEPT !.pc = "backup", !.answer = found]
  <2>1. runs' = [runs EXCEPT ![e] = run]
    BY <1>4 DEF Look, DialogTypeOK
  <2>2. run \in Run /\ run.pc = "backup" /\ run.repo = runs[e].repo /\ run.answer = found
    BY <1>1, <1>2, <1>4 DEF Run, Pcs, Answers
  <2> HIDE DEF run
  <2> QED
    BY <1>1, <1>2, <1>4, <2>1, <2>2, Replaced
<1> QED
  BY <1>3, <1>4

\* Whoever takes the sender drops the one that was there.
LEMMA TakeTakes ==
  ASSUME DialogTypeOK, NEW e \in Runs, Take(e)
  PROVE  /\ runs[e].pc = "take" /\ runs' \in [Runs -> Run]
         /\ runs'[e].pc = "post" /\ runs'[e].answer = runs[e].answer
         /\ \A f \in Runs : runs'[f].repo = runs[f].repo
         /\ \A f \in Runs \ {e} :
              runs'[f].pc = runs[f].pc /\ runs'[f].answer = IF f = slot THEN None ELSE runs[f].answer
<1>1. \A f \in Runs : runs[f] \in Run
  BY DEF DialogTypeOK
<1>2. \A f \in Runs : runs'[f] = CASE f = e -> [runs[f] EXCEPT !.pc = "post"]
                                   [] f # e /\ f = slot -> [runs[f] EXCEPT !.answer = None]
                                   [] OTHER -> runs[f]
  BY DEF Take
<1>3. /\ runs'[e] = [runs[e] EXCEPT !.pc = "post"]
      /\ \A f \in Runs \ {e} : runs'[f] = IF f = slot THEN [runs[f] EXCEPT !.answer = None] ELSE runs[f]
  BY <1>2
<1>4. runs'[e] \in Run /\ runs'[e].pc = "post" /\ runs'[e].answer = runs[e].answer /\ runs'[e].repo = runs[e].repo
  BY <1>1, <1>3 DEF Run, Pcs
<1>5. ASSUME NEW f \in Runs \ {e}
      PROVE  /\ runs'[f] \in Run /\ runs'[f].pc = runs[f].pc /\ runs'[f].repo = runs[f].repo
             /\ runs'[f].answer = IF f = slot THEN None ELSE runs[f].answer
  BY <1>1, <1>3 DEF Run, Answers
<1>6. runs' \in [Runs -> Run]
  <2>1. runs' = [f \in Runs |-> runs'[f]]
    BY DEF Take
  <2> QED
    BY <1>4, <1>5, <2>1
<1> QED
  BY <1>4, <1>5, <1>6 DEF Take

LEMMA EntryTyped ==
  ASSUME DialogTypeOK, NEW word \in Repos
  PROVE  Entry(word) \in Typed /\ Entry(word).for = dialog.for
BY DEF DialogTypeOK, Dialog, Entry, Typed

\* A password is submitted, which only the dialog's repository gets, and whose sender
\* is stored.
Filed(typed) ==
  /\ session' \in [Repos -> Typed \cup {None}] /\ keyring' \in [Repos -> Typed \cup {None}]
  /\ \A r \in Repos : {session'[r], keyring'[r]} \subseteq
                        {session[r], keyring[r]} \cup (IF r = Path THEN {typed} ELSE {})

Sent(typed) == slot # 0 /\ Becomes(slot, runs[slot].pc, runs[slot].repo, typed) /\ slot' = 0

LEMMA SubmitSends ==
  ASSUME DialogTypeOK, NEW word \in Repos, Submit(word)
  PROVE  /\ dialog' \in Dialog /\ dialog' = [dialog EXCEPT !.shown = FALSE] /\ ~dialog'.shown
         /\ Filed(Entry(word))
         /\ \/ Path = None /\ UNCHANGED <<runs, slot, events>>
            \/ Sent(Entry(word)) /\ UNCHANGED events
            \/ slot = 0 /\ UNCHANGED <<runs, slot>> /\ events' = Append(events, Retry(dialog.action))
<1> DEFINE typed == Entry(word)
<1>0. typed \in Typed
  BY EntryTyped
<1>1. Path \in Repos \cup {None}
  BY DEF DialogTypeOK, Path, Dialog
<1>2. dialog' \in Dialog /\ dialog' = [dialog EXCEPT !.shown = FALSE] /\ ~dialog'.shown
  BY DEF Submit, DialogTypeOK, Dialog
<1>3. CASE Path = None
  BY <1>2, <1>3 DEF Submit, Filed, DialogTypeOK
<1>4. CASE Path # None
  <2>1. Path \in Repos
    BY <1>1, <1>4
  <2>2. session' = [session EXCEPT ![Path] = typed] /\ keyring' \in {keyring, [keyring EXCEPT ![Path] = typed]}
    BY <1>4 DEF Submit
  <2>a. CASE slot # 0
    <3>1. slot \in Runs /\ typed \in Answers /\ runs' = [runs EXCEPT ![slot].answer = typed]
      BY <1>0, <1>4, <2>a DEF Submit, DialogTypeOK, Answers
    <3> HIDE DEF typed
    <3>2. Becomes(slot, runs[slot].pc, runs[slot].repo, typed)
      BY <3>1, FieldReplaced
    <3>3. slot' = 0 /\ UNCHANGED events
      BY <1>4, <2>a DEF Submit
    <3>4. Filed(typed)
      BY <1>0, <2>1, <2>2 DEF DialogTypeOK, Filed
    <3> QED
      BY <1>2, <2>a, <3>2, <3>3, <3>4 DEF Sent, typed
  <2>b. CASE slot = 0
    <3>1. UNCHANGED <<runs, slot>> /\ events' = Append(events, Retry(dialog.action))
      BY <1>4, <2>b DEF Submit
    <3> HIDE DEF typed
    <3>2. Filed(typed)
      BY <1>0, <2>1, <2>2 DEF DialogTypeOK, Filed
    <3> QED
      BY <1>2, <2>b, <3>1, <3>2 DEF typed
  <2> QED
    BY <2>a, <2>b
<1> QED
  BY <1>3, <1>4

-------------------------------------------------------------------------------
(***************************************************************************)
(* Types                                                                   *)
(***************************************************************************)

RunsTyped == runs \in [Runs -> Run] /\ \A e \in Runs : runs[e].pc # "unused" => runs[e].repo \in Repos

LEMMA RunsTypedStep ==
  ASSUME DialogTypeOK, [Next]_vars
  PROVE  RunsTyped'
<1>0. RunsTyped
  BY DEF DialogTypeOK, RunsTyped
<1>1. ASSUME NEW e \in Runs, NEW pc, NEW repo, NEW answer, Becomes(e, pc, repo, answer), repo \in Repos
      PROVE  RunsTyped'
  BY <1>0, <1>1 DEF Becomes, RunsTyped
<1>2. ASSUME NEW e \in Runs, NEW r \in Repos, Start(e, r)
      PROVE  RunsTyped'
  BY <1>1, <1>2, StartStarts
<1>3. ASSUME NEW e \in Runs, Look(e)
      PROVE  RunsTyped'
  BY <1>0, <1>1, <1>3, LookTakes DEF RunsTyped, Moves
<1>4. ASSUME NEW e \in Runs, Take(e)
      PROVE  RunsTyped'
  <2>1. /\ runs[e].pc = "take" /\ runs' \in [Runs -> Run]
        /\ \A f \in Runs : runs'[f].repo = runs[f].repo
        /\ \A f \in Runs \ {e} : runs'[f].pc = runs[f].pc
    BY <1>4, TakeTakes
  <2> QED
    BY <1>0, <2>1 DEF RunsTyped
<1>5. ASSUME NEW e \in Runs, Post(e) \/ Answered(e) \/ Back_up(e)
      PROVE  RunsTyped'
  <2>1. runs[e].repo \in Repos
    BY <1>0, <1>5 DEF Post, Answered, Back_up, Goto, RunsTyped
  <2>2. PICK pc \in Pcs : runs' = [runs EXCEPT ![e].pc = pc]
    BY <1>5 DEF Post, Answered, Back_up, Goto, Pcs
  <2>3. Moves(e, pc)
    BY <2>2, FieldReplaced
  <2> QED
    BY <1>1, <2>1, <2>3 DEF Moves
<1>6. ASSUME NEW word \in Repos, Submit(word)
      PROVE  RunsTyped'
  <2>2. CASE UNCHANGED runs
    BY <1>0, <2>2 DEF RunsTyped
  <2>3. CASE Sent(Entry(word))
    <3>1. slot \in Runs
      BY <2>3 DEF Sent, DialogTypeOK
    <3> QED
      BY <1>0, <2>3, <3>1 DEF Sent, Becomes, RunsTyped
  <2> QED
    BY <1>6, <2>2, <2>3, SubmitSends
<1>7. CASE UNCHANGED runs
  BY <1>0, <1>7 DEF RunsTyped
<1> QED
  BY <1>2, <1>3, <1>4, <1>5, <1>6, <1>7
     DEF Next, RunStep, Ask, Select, Export, ShowPrompt, RetryAction, Cancel, vars

LEMMA Opened ==
  ASSUME DialogTypeOK
  PROVE  /\ active \in Repos => ExportDialog(dialog) \in Dialog
         /\ ExportDialog(dialog).shown /\ ExportDialog(dialog).path = active
         /\ ExportDialog(dialog).action = "export_key" /\ ExportDialog(dialog).for = active
BY DEF DialogTypeOK, ExportDialog, Dialog, Actions

\* The closure at the head is run.
LEMMA Popped ==
  ASSUME DialogTypeOK, events # << >>, events' = Tail(events)
  PROVE  /\ events' \in Seq(Closure) /\ Head(events) \in Closure /\ Head(events) = events[1]
         /\ Len(events') = Len(events) - 1 /\ Len(events) \in Nat \ {0}
         /\ \A i \in 1 .. Len(events) - 1 : events'[i] = events[i + 1]
         /\ DOMAIN events = 1 .. Len(events) /\ DOMAIN events' = 1 .. Len(events) - 1
BY DEF DialogTypeOK

LEMMA Pushed ==
  ASSUME DialogTypeOK, NEW closure \in Closure, events' = Append(events, closure)
  PROVE  /\ events' \in Seq(Closure) /\ events' # << >>
         /\ Len(events') = Len(events) + 1 /\ events'[Len(events) + 1] = closure
         /\ \A i \in 1 .. Len(events) : events'[i] = events[i]
         /\ DOMAIN events = 1 .. Len(events) /\ DOMAIN events' = 1 .. Len(events) + 1
         /\ Len(events) \in Nat
BY DEF DialogTypeOK

LEMMA PromptAndRetry ==
  /\ \A r \in Repos : Prompt(r) \in Closure
  /\ \A action \in Actions : Retry(action) \in Closure
  /\ \A closure \in Closure :
       /\ closure.kind \in {"prompt", "retry"}
       /\ closure.kind = "prompt" => closure.arg \in Repos
BY DEF Prompt, Retry, Closure

LEMMA DialogTypeStep ==
  ASSUME DialogTypeOK, [Next]_vars
  PROVE  DialogTypeOK'
<1> DEFINE Kept == UNCHANGED <<slot, events, dialog, active, session, keyring, upset>>
<1>0. RunsTyped'
  BY RunsTypedStep
<1>1. CASE Kept
  BY <1>0, <1>1 DEF DialogTypeOK, RunsTyped
<1>2. ASSUME NEW e \in Runs, Take(e)
      PROVE  DialogTypeOK'
  <2>1. slot' \in {0} \cup Runs /\ upset' \subseteq {"overlap", "cleared", "cancel"}
    BY <1>2 DEF Take, DialogTypeOK, Overlapping
  <2> QED
    BY <1>0, <1>2, <2>1 DEF Take, DialogTypeOK, RunsTyped
<1>3. ASSUME NEW e \in Runs, Post(e)
      PROVE  DialogTypeOK'
  <2>1. runs[e].repo \in Repos
    BY <1>3 DEF Post, Goto, DialogTypeOK
  <2>2. events' \in Seq(Closure)
    BY <1>3, <2>1, PromptAndRetry, Pushed DEF Post
  <2> QED
    BY <1>0, <1>3, <2>2 DEF Post, DialogTypeOK, RunsTyped
<1>4. ASSUME NEW r \in Repos \cup {None}, Select(r)
      PROVE  DialogTypeOK'
  <2>1. session' \in [Repos -> Typed \cup {None}]
    BY <1>4 DEF Select, DialogTypeOK
  <2> QED
    BY <1>0, <1>4, <2>1 DEF Select, DialogTypeOK, RunsTyped
<1>5. ASSUME NEW r \in Repos, Export(r)
      PROVE  DialogTypeOK'
  <2>1. dialog' \in Dialog
    BY <1>5, Opened DEF Export
  <2>2. upset' \subseteq {"overlap", "cleared", "cancel"}
    BY <1>5 DEF Export, DialogTypeOK, Overlapping
  <2> QED
    BY <1>0, <1>5, <2>1, <2>2 DEF Export, DialogTypeOK, RunsTyped
<1>6. ASSUME ShowPrompt
      PROVE  DialogTypeOK'
  <2>1. Head(events) \in Closure /\ events' \in Seq(Closure)
    BY <1>6, Popped DEF ShowPrompt
  <2>2. Head(events).arg \in Repos
    BY <1>6, <2>1, PromptAndRetry DEF ShowPrompt
  <2>3. dialog' \in Dialog
    BY <1>6, <2>2 DEF ShowPrompt, DialogTypeOK, Dialog
  <2> QED
    BY <1>0, <1>6, <2>1, <2>3 DEF ShowPrompt, DialogTypeOK, RunsTyped
<1>7. ASSUME RetryAction
      PROVE  DialogTypeOK'
  <2>1. events' \in Seq(Closure)
    BY <1>7, Popped DEF RetryAction
  <2>2. PICK d \in Dialog : dialog' = [d EXCEPT !.path = None, !.action = "", !.for = None]
    BY <1>7, Opened DEF RetryAction, DialogTypeOK
  <2>3. dialog' \in Dialog
    BY <2>2 DEF Dialog, Actions
  <2>4. upset' \subseteq {"overlap", "cleared", "cancel"}
    BY <1>7 DEF RetryAction, DialogTypeOK
  <2> QED
    BY <1>0, <1>7, <2>1, <2>3, <2>4 DEF RetryAction, DialogTypeOK, RunsTyped
<1>8. ASSUME NEW word \in Repos, Submit(word)
      PROVE  DialogTypeOK'
  <2>2. dialog' \in Dialog /\ ~dialog'.shown
    BY <1>8, SubmitSends
  <2>3. session' \in [Repos -> Typed \cup {None}] /\ keyring' \in [Repos -> Typed \cup {None}]
    BY <1>8, SubmitSends DEF Filed
  <2>4. slot' \in {0, slot} /\ events' \in Seq(Closure)
    <3>1. Retry(dialog.action) \in Closure
      BY PromptAndRetry DEF DialogTypeOK, Dialog
    <3> QED
      BY <1>8, <3>1, SubmitSends, Pushed DEF Sent, DialogTypeOK
  <2> QED
    BY <1>0, <1>8, <2>2, <2>3, <2>4 DEF Submit, DialogTypeOK, RunsTyped
<1>9. ASSUME Cancel
      PROVE  DialogTypeOK'
  <2>1. dialog' \in Dialog /\ ~dialog'.shown /\ upset' \subseteq {"overlap", "cleared", "cancel"}
    BY <1>9 DEF Cancel, DialogTypeOK, Dialog
  <2> QED
    BY <1>0, <1>9, <2>1 DEF Cancel, DialogTypeOK, RunsTyped
<1> QED
  BY <1>1, <1>2, <1>3, <1>4, <1>5, <1>6, <1>7, <1>8, <1>9
     DEF Next, RunStep, Ask, Start, Look, Answered, Back_up, vars

\* The types of all there is, for every number of repositories and executions.
THEOREM DialogTypeCorrect == Spec => []DialogTypeOK
<1>1. Init => DialogTypeOK
  <2> SUFFICES ASSUME Init PROVE DialogTypeOK
    OBVIOUS
  <2>1. [pc |-> "unused", repo |-> None, answer |-> Pending] \in Run
    BY DEF Run, Pcs, Answers
  <2>2. dialog \in Dialog /\ ~dialog.shown
    BY DEF Init, Dialog, Actions
  <2>3. << >> \in Seq(Closure)
    OBVIOUS
  <2>4. session \in [Repos -> Typed \cup {None}] /\ keyring \in [Repos -> Typed \cup {None}]
    BY DEF Init
  <2> QED
    BY <2>1, <2>2, <2>3, <2>4 DEF Init, DialogTypeOK
<1>2. DialogTypeOK /\ [Next]_vars => DialogTypeOK'
  BY DialogTypeStep
<1> QED
  BY <1>1, <1>2, PTL DEF Spec

-------------------------------------------------------------------------------
(***************************************************************************)
(* Who has the sender                                                      *)
(***************************************************************************)

\* A step of an execution that has not, and does not take, the sender.
LEMMA SendersByRun ==
  ASSUME Senders, UNCHANGED slot, NEW e \in Runs, NEW pc, NEW repo, NEW answer,
         Becomes(e, pc, repo, answer),
         slot = e <=> pc \in {"post", "wait"} /\ answer = Pending,
         pc \in {"look", "take"} => answer = Pending
  PROVE  Senders'
<1>1. Sender(e)'
  BY DEF Becomes, Sender
<1>2. \A f \in Runs \ {e} : Sender(f)'
  BY DEF Becomes, Sender, Senders, Sender
<1> QED
  BY <1>1, <1>2 DEF Senders, Sender

LEMMA SendersStep ==
  ASSUME DialogTypeOK, Senders, [Next]_vars
  PROVE  Senders'
<1>1. ASSUME NEW e \in Runs, NEW r \in Repos, Start(e, r)
      PROVE  Senders'
  <2>1. runs[e].pc = "unused" /\ Becomes(e, "look", r, Pending) /\ UNCHANGED slot
    BY <1>1, StartStarts DEF Start
  <2>2. slot # e
    BY <2>1 DEF Senders, Sender
  <2> QED
    BY <2>1, <2>2, SendersByRun
<1>2. ASSUME NEW e \in Runs, Look(e)
      PROVE  Senders'
  <2>1. runs[e].pc = "look" /\ runs[e].answer = Pending /\ slot # e /\ UNCHANGED slot
    BY <1>2 DEF Look, Senders, Sender
  <2>2. CASE Moves(e, "take")
    BY <2>1, <2>2, SendersByRun DEF Moves
  <2>3. CASE Becomes(e, "backup", runs[e].repo, keyring[runs[e].repo])
    BY <2>1, <2>3, SendersByRun
  <2> QED
    BY <1>2, <2>2, <2>3, LookTakes
<1>3. ASSUME NEW e \in Runs, Take(e)
      PROVE  Senders'
  <2>1. /\ runs[e].pc = "take"
        /\ runs'[e].pc = "post" /\ runs'[e].answer = runs[e].answer
        /\ \A f \in Runs \ {e} :
             runs'[f].pc = runs[f].pc /\ runs'[f].answer = IF f = slot THEN None ELSE runs[f].answer
    BY <1>3, TakeTakes
  <2>2. slot' = e
    BY <1>3 DEF Take
  <2>3. Sender(e)'
    BY <2>1, <2>2 DEF Senders, Sender
  <2>4. ASSUME NEW f \in Runs \ {e}
        PROVE  Sender(f)'
    BY <2>1, <2>2, ReposAssumption DEF Senders, Sender
  <2> QED
    BY <2>3, <2>4 DEF Senders, Sender
<1>4. ASSUME NEW e \in Runs, Post(e)
      PROVE  Senders'
  <2>1. runs[e].pc = "post" /\ Moves(e, "wait") /\ UNCHANGED slot
    BY <1>4, FieldReplaced DEF Post, Goto, Pcs
  <2>2. slot = e <=> runs[e].answer = Pending
    BY <2>1 DEF Senders, Sender
  <2> QED
    BY <2>1, <2>2, SendersByRun DEF Moves
<1>5. ASSUME NEW e \in Runs, Answered(e)
      PROVE  Senders'
  <2>1. slot # e /\ Moves(e, "backup") /\ UNCHANGED slot
    BY <1>5, FieldReplaced DEF Answered, Goto, Pcs, Senders, Sender
  <2> QED
    BY <2>1, SendersByRun DEF Moves
<1>6. ASSUME NEW e \in Runs, Back_up(e)
      PROVE  Senders'
  <2>1. slot # e /\ UNCHANGED slot
    BY <1>6 DEF Back_up, Senders, Sender
  <2>2. Moves(e, "done") \/ Moves(e, "failed")
    BY <1>6, FieldReplaced DEF Back_up, Pcs
  <2> QED
    BY <2>1, <2>2, SendersByRun DEF Moves
<1>7. ASSUME NEW word \in Repos, Submit(word)
      PROVE  Senders'
  <2>2. CASE Sent(Entry(word))
    <3>1. slot \in Runs /\ Entry(word) # Pending
      BY <2>2, EntryTyped, ReposAssumption DEF Sent, DialogTypeOK
    <3>2. runs'[slot].pc \in {"post", "wait"} /\ runs'[slot].answer = Entry(word)
      BY <2>2, <3>1 DEF Sent, Becomes, Senders, Sender
    <3>3. \A f \in Runs \ {slot} : runs'[f] = runs[f]
      BY <2>2 DEF Sent, Becomes
    <3>4. slot' = 0 /\ slot' \notin Runs
      BY <2>2, RunsNumbered DEF Sent
    <3>5. ASSUME NEW f \in Runs
          PROVE  Sender(f)'
      <4>1. CASE f = slot
        BY <3>1, <3>2, <3>4, <4>1 DEF Sender
      <4>2. CASE f # slot
        BY <3>3, <3>4, <4>2 DEF Senders, Sender
      <4> QED
        BY <4>1, <4>2
    <3> QED
      BY <3>5 DEF Senders, Sender
  <2>3. CASE UNCHANGED <<runs, slot>>
    BY <2>3 DEF Senders, Sender
  <2> QED
    BY <1>7, <2>2, <2>3, SubmitSends
<1>8. CASE UNCHANGED <<runs, slot>>
  BY <1>8 DEF Senders, Sender
<1> QED
  BY <1>1, <1>2, <1>3, <1>4, <1>5, <1>6, <1>7, <1>8
     DEF Next, RunStep, Ask, Select, Export, ShowPrompt, RetryAction, Cancel, vars

-------------------------------------------------------------------------------
(***************************************************************************)
(* What the dialog files                                                   *)
(***************************************************************************)

LEMMA UpsetStays ==
  ASSUME [Next]_vars
  PROVE  upset \subseteq upset'
BY DEF Next, RunStep, Ask, Start, Look, Take, Post, Answered, Back_up, Select, Export, ShowPrompt,
       RetryAction, Submit, Cancel, vars

LEMMA OpenedStep ==
  ASSUME DialogTypeOK, OpenedForPath, [Next]_vars
  PROVE  OpenedForPath'
<1>1. ASSUME NEW r \in Repos, Export(r)
      PROVE  OpenedForPath'
  BY <1>1, Opened, ReposAssumption DEF Export, OpenedForPath
<1>2. ASSUME ShowPrompt
      PROVE  OpenedForPath'
  <2>1. Head(events).arg \in Repos
    BY <1>2, Popped, PromptAndRetry DEF ShowPrompt
  <2>2. dialog'.path = Head(events).arg /\ dialog'.for = Head(events).arg
    BY <1>2 DEF ShowPrompt, DialogTypeOK, Dialog
  <2> QED
    BY <2>1, <2>2, ReposAssumption DEF OpenedForPath
<1>3. ASSUME RetryAction
      PROVE  OpenedForPath'
  <2> DEFINE again == Head(events).arg = "export_key" /\ active # None /\ session[active] = None
             d == IF again THEN ExportDialog(dialog) ELSE dialog
  <2>1. d \in Dialog
    BY Opened DEF DialogTypeOK
  <2>2. dialog' = [d EXCEPT !.path = None, !.action = "", !.for = None]
    BY <1>3 DEF RetryAction
  <2>3. upset' = upset \cup (IF d.shown THEN {"cleared"} ELSE {})
    BY <1>3 DEF RetryAction
  <2> HIDE DEF d
  <2>4. dialog'.shown = d.shown /\ dialog'.path = None /\ dialog'.for = None
    BY <2>1, <2>2 DEF Dialog
  <2> QED
    BY <2>3, <2>4 DEF OpenedForPath
<1>4. ASSUME NEW word \in Repos, Submit(word)
      PROVE  OpenedForPath'
  BY <1>4 DEF Submit, OpenedForPath, DialogTypeOK, Dialog
<1>5. ASSUME Cancel
      PROVE  OpenedForPath'
  BY <1>5 DEF Cancel, OpenedForPath, DialogTypeOK, Dialog
<1>6. CASE UNCHANGED dialog
  BY <1>6, UpsetStays DEF OpenedForPath
<1> QED
  BY <1>1, <1>2, <1>3, <1>4, <1>5, <1>6
     DEF Next, RunStep, Ask, Start, Look, Take, Post, Answered, Back_up, Select, vars

\* A submission gives a repository what was typed for it, or for none any more.
LEMMA FiledStep ==
  ASSUME DialogTypeOK, OpenedForPath, FiledAsOpened, [Next]_vars
  PROVE  FiledAsOpened'
<1>1. ASSUME NEW word \in Repos, Submit(word)
      PROVE  FiledAsOpened'
  <2> SUFFICES ASSUME NEW r \in Repos
               PROVE  {session'[r], keyring'[r]} \subseteq TypedFor({None, r}) \cup {None}
    BY DEF FiledAsOpened
  <2>1. dialog.shown /\ dialog.path = dialog.for
    BY <1>1 DEF Submit, OpenedForPath
  <2>2. r = Path => dialog.for \in {None, r}
    BY <2>1, ReposAssumption DEF Path
  <2>3. r = Path => Entry(word) \in TypedFor({None, r})
    BY <2>2, EntryTyped DEF TypedFor
  <2>4. {session[r], keyring[r]} \subseteq TypedFor({None, r}) \cup {None}
    BY DEF FiledAsOpened
  <2>5. {session'[r], keyring'[r]} \subseteq {session[r], keyring[r]} \cup (IF r = Path THEN {Entry(word)} ELSE {})
    BY <1>1, SubmitSends DEF Filed
  <2> QED
    BY <2>3, <2>4, <2>5
<1>2. ASSUME NEW r \in Repos \cup {None}, Select(r)
      PROVE  FiledAsOpened'
  <2>1. \A s \in Repos : session'[s] \in {session[s], keyring[s]} /\ keyring'[s] = keyring[s]
    BY <1>2 DEF Select, DialogTypeOK
  <2> QED
    BY <2>1 DEF FiledAsOpened
<1>3. CASE UNCHANGED <<session, keyring>>
  BY <1>3 DEF FiledAsOpened
<1> QED
  BY <1>1, <1>2, <1>3
     DEF Next, RunStep, Ask, Start, Look, Take, Post, Answered, Back_up, Export, ShowPrompt,
         RetryAction, Cancel, vars

-------------------------------------------------------------------------------
(***************************************************************************)
(* Who waits is asked                                                      *)
(***************************************************************************)

Prompted == dialog.shown \/ \E i \in DOMAIN events : events[i].kind = "prompt"

LEMMA WaitersStep ==
  ASSUME DialogTypeOK, Senders, OpenedForPath, WaitersAreAsked, [Next]_vars
  PROVE  WaitersAreAsked'
<1> SUFFICES ASSUME upset' \cap {"cancel", "cleared"} = {},
                    NEW e \in Runs, runs'[e].pc = "wait", runs'[e].answer = Pending
             PROVE  Prompted'
  BY DEF WaitersAreAsked, Prompted
<1>1. upset \cap {"cancel", "cleared"} = {}
  BY UpsetStays
<1>2. Senders' /\ slot' = e
  BY SendersStep DEF Senders, Sender
<1>3. ASSUME runs[e].pc = "wait", runs[e].answer = Pending
      PROVE  Prompted
  BY <1>1, <1>3 DEF WaitersAreAsked, Prompted
<1>4. ASSUME NEW f \in Runs, Post(f)
      PROVE  Prompted'
  <2>1. runs[f].repo \in Repos
    BY <1>4 DEF Post, Goto, DialogTypeOK
  <2>2. Prompt(runs[f].repo) \in Closure /\ Prompt(runs[f].repo).kind = "prompt"
    BY <2>1, PromptAndRetry DEF Prompt
  <2> HIDE DEF Prompt
  <2>3. events'[Len(events) + 1].kind = "prompt" /\ Len(events) + 1 \in DOMAIN events'
    BY <1>4, <2>2, Pushed DEF Post
  <2> QED
    BY <2>3 DEF Prompted
<1>5. ASSUME NEW f \in Runs, Take(f)
      PROVE  Prompted'
  <2>1. slot' = f /\ runs'[f].pc = "post"
    BY <1>5, TakeTakes DEF Take
  <2> QED
    BY <1>2, <2>1
<1>6. ASSUME NEW f \in Runs, \/ \E r \in Repos : Start(f, r)
                             \/ Look(f) \/ Answered(f) \/ Back_up(f)
      PROVE  Prompted'
  <2>1. PICK pc, repo, answer : pc \in Pcs \ {"wait"} /\ Becomes(f, pc, repo, answer)
    BY <1>6, StartStarts, LookTakes, FieldReplaced DEF Moves, Answered, Goto, Back_up, Pcs
  <2>2. runs[e] = runs'[e]
    BY <2>1 DEF Becomes
  <2>3. UNCHANGED <<events, dialog>>
    BY <1>6 DEF Start, Look, Answered, Back_up
  <2> QED
    BY <1>3, <2>2, <2>3 DEF Prompted
<1>7. ASSUME NEW r \in Repos, Export(r)
      PROVE  Prompted'
  BY <1>7, Opened DEF Export, Prompted
<1>8. ASSUME ShowPrompt
      PROVE  Prompted'
  BY <1>8 DEF ShowPrompt, Prompted, DialogTypeOK, Dialog
<1>9. ASSUME RetryAction
      PROVE  Prompted'
  <2>1. Prompted
    BY <1>3, <1>9 DEF RetryAction
  <2>2. CASE dialog.shown
    <3> DEFINE again == Head(events).arg = "export_key" /\ active # None /\ session[active] = None
               d == IF again THEN ExportDialog(dialog) ELSE dialog
    <3>1. d.shown
      BY <2>2, Opened
    <3> QED
      BY <1>9, <3>1 DEF RetryAction
  <2>3. CASE \E i \in DOMAIN events : events[i].kind = "prompt"
    <3>1. PICK i \in DOMAIN events : events[i].kind = "prompt"
      BY <2>3
    <3>2. i # 1 /\ i - 1 \in DOMAIN events' /\ events'[i - 1] = events[i]
      BY <1>9, <3>1, Popped DEF RetryAction
    <3> QED
      BY <3>1, <3>2 DEF Prompted
  <2> QED
    BY <2>1, <2>2, <2>3 DEF Prompted
<1>10. ASSUME NEW word \in Repos, Submit(word)
       PROVE  Prompted'
  <2>1. dialog.shown /\ dialog.path # None
    BY <1>1, <1>10 DEF Submit, OpenedForPath
  <2>2. Path # None
    BY <2>1 DEF Path
  <2>3. slot' = 0
    BY <1>10, <2>2, SubmitSends DEF Sent
  <2> QED
    BY <1>2, <2>3, RunsNumbered
<1>11. CASE Cancel
  BY <1>11 DEF Cancel
<1>12. CASE UNCHANGED <<runs, events, dialog>>
  BY <1>3, <1>12 DEF Prompted
<1> QED
  BY <1>4, <1>5, <1>6, <1>7, <1>8, <1>9, <1>10, <1>11, <1>12
     DEF Next, RunStep, Ask, Select, vars

-------------------------------------------------------------------------------
(***************************************************************************)
(* One that wants the dialog at a time                                     *)
(***************************************************************************)

\* What was done to the dialog before: nobody wants it.
LEMMA NotInUse ==
  ASSUME "overlap" \notin upset', upset' = upset \cup Overlapping
  PROVE  slot = 0 /\ ~dialog.shown /\ events = << >> /\ upset' = upset
BY DEF Overlapping, InUse

\* A step of an execution that has been, or has yet to be, at the dialog.
LEMMA QuietByRun ==
  ASSUME DialogTypeOK, Quiet, UNCHANGED <<slot, events, dialog, active, upset>>,
         NEW e \in Runs, NEW pc, NEW repo, NEW answer, Becomes(e, pc, repo, answer),
         pc # "post", slot = e => repo = runs[e].repo
  PROVE  Quiet'
<1>1. slot # 0 => slot \in Runs /\ runs'[slot].repo = runs[slot].repo
  BY DEF DialogTypeOK, Becomes
<1>2. \A f \in Runs : runs'[f].pc = "post" => runs[f].pc = "post"
  BY DEF Becomes
<1> QED
  BY <1>1, <1>2 DEF Quiet

LEMMA QuietStep ==
  ASSUME DialogTypeOK, Senders, OneAtATime, [Next]_vars
  PROVE  OneAtATime'
<1> SUFFICES ASSUME "overlap" \notin upset'
             PROVE  Quiet'
  BY DEF OneAtATime
<1>0. Quiet
  BY UpsetStays DEF OneAtATime
<1>1. ASSUME NEW e \in Runs, NEW r \in Repos, Start(e, r)
      PROVE  Quiet'
  <2>1. slot # e
    BY <1>1 DEF Start, Senders, Sender
  <2> QED
    BY <1>0, <1>1, <2>1, StartStarts, QuietByRun DEF Start
<1>2. ASSUME NEW e \in Runs, Look(e)
      PROVE  Quiet'
  <2>1. PICK pc, answer : pc \in {"take", "backup"} /\ Becomes(e, pc, runs[e].repo, answer)
    BY <1>2, LookTakes DEF Moves
  <2> QED
    BY <1>0, <1>2, <2>1, QuietByRun DEF Look
<1>3. ASSUME NEW e \in Runs, Take(e)
      PROVE  Quiet'
  <2>1. /\ runs'[e].pc = "post"
        /\ \A f \in Runs \ {e} : runs'[f].pc = runs[f].pc
    BY <1>3, TakeTakes
  <2>2. slot = 0 /\ ~dialog.shown /\ events = << >>
    BY <1>3, NotInUse DEF Take
  <2>3. \A f \in Runs : runs[f].pc # "post"
    BY <1>0, <2>2, RunsNumbered DEF Quiet
  <2>4. slot' = e /\ ~dialog'.shown /\ events' = << >>
    BY <1>3, <2>2 DEF Take
  <2>5. Len(events') = 0
    BY <2>4
  <2> QED
    BY <2>1, <2>3, <2>4, <2>5 DEF Quiet
<1>4. ASSUME NEW e \in Runs, Post(e)
      PROVE  Quiet'
  <2>1. runs[e].pc = "post" /\ Moves(e, "wait") /\ runs[e].repo \in Repos
    BY <1>4, FieldReplaced DEF Post, Goto, Pcs, DialogTypeOK
  <2>2. slot = e /\ ~dialog.shown /\ events = << >>
    BY <1>0, <2>1 DEF Quiet
  <2>3. UNCHANGED <<slot, dialog>> /\ events' = Append(events, Prompt(runs[e].repo))
    BY <1>4 DEF Post
  <2>4. Prompt(runs[e].repo) \in Closure
    BY <2>1, PromptAndRetry
  <2>5. Len(events') = 1 /\ events'[1] = Prompt(runs[e].repo)
    BY <2>2, <2>3, <2>4, Pushed
  <2>6. events'[1].arg = runs'[slot'].repo /\ slot' # 0
    BY <2>1, <2>2, <2>3, <2>5, RunsNumbered DEF Prompt, Moves, Becomes
  <2>7. \A f \in Runs : runs'[f].pc # "post"
    BY <1>0, <2>1, <2>2 DEF Quiet, Moves, Becomes
  <2>8. events'[1].kind = "prompt"
    BY <2>5 DEF Prompt
  <2> QED
    BY <2>2, <2>3, <2>5, <2>6, <2>7, <2>8 DEF Quiet
<1>5. ASSUME NEW e \in Runs, Answered(e) \/ Back_up(e)
      PROVE  Quiet'
  <2>1. PICK pc \in {"backup", "done", "failed"} : Moves(e, pc)
    BY <1>5, FieldReplaced DEF Answered, Goto, Back_up, Pcs
  <2> QED
    BY <1>0, <1>5, <2>1, QuietByRun DEF Moves, Answered, Back_up
<1>6. ASSUME NEW r \in Repos \cup {None}, Select(r)
      PROVE  Quiet'
  BY <1>0, <1>6 DEF Select, Quiet
<1>7. ASSUME NEW r \in Repos, Export(r)
      PROVE  Quiet'
  <2>1. slot = 0 /\ ~dialog.shown /\ events = << >>
    BY <1>7, NotInUse DEF Export
  <2>2. \A f \in Runs : runs[f].pc # "post"
    BY <1>0, <2>1, RunsNumbered DEF Quiet
  <2>3. dialog'.shown /\ dialog'.action = "export_key"
    BY <1>7, Opened DEF Export
  <2>5. events' = << >> /\ slot' = 0 /\ Len(events') = 0 /\ UNCHANGED runs
    BY <1>7, <2>1 DEF Export
  <2> QED
    BY <2>2, <2>3, <2>5 DEF Quiet
<1>8. ASSUME ShowPrompt
      PROVE  Quiet'
  <2>1. events # << >> /\ Head(events) = events[1] /\ Len(events') = 0 /\ events' \in Seq(Closure)
    BY <1>0, <1>8, Popped DEF ShowPrompt, Quiet
  <2>2. events' = << >>
    BY <2>1
  <2>3. slot # 0 /\ events[1].arg = runs[slot].repo
    BY <1>0, <1>8, <2>1 DEF ShowPrompt, Quiet
  <2>5. dialog'.shown /\ dialog'.for = events[1].arg
    BY <1>8, <2>1 DEF ShowPrompt, DialogTypeOK, Dialog
  <2>7. UNCHANGED <<slot, runs>> /\ \A f \in Runs : runs[f].pc # "post"
    BY <1>0, <1>8, <2>1 DEF ShowPrompt, Quiet
  <2> QED
    BY <2>1, <2>2, <2>3, <2>5, <2>7 DEF Quiet
<1>9. ASSUME RetryAction
      PROVE  Quiet'
  <2> DEFINE again == Head(events).arg = "export_key" /\ active # None /\ session[active] = None
             d == IF again THEN ExportDialog(dialog) ELSE dialog
  <2>1. events # << >> /\ Head(events) = events[1] /\ Len(events') = 0 /\ events' \in Seq(Closure)
    BY <1>0, <1>9, Popped DEF RetryAction, Quiet
  <2>2. events' = << >>
    BY <2>1
  <2>3. slot = 0 /\ ~dialog.shown /\ UNCHANGED <<slot, runs, active>>
    BY <1>0, <1>9, <2>1 DEF RetryAction, Quiet
  <2>4. /\ dialog' = [d EXCEPT !.path = None, !.action = "", !.for = None]
        /\ upset' = upset \cup (IF d.shown THEN {"cleared"} ELSE {})
    BY <1>9 DEF RetryAction
  <2>5. d \in Dialog
    BY <2>3, Opened DEF DialogTypeOK
  <2> HIDE DEF d
  <2>6. dialog'.shown = d.shown
    BY <2>4, <2>5 DEF Dialog
  <2>7. dialog'.shown => "cleared" \in upset'
    BY <2>4, <2>6
  <2>8. \A f \in Runs : runs[f].pc # "post"
    BY <1>0, <2>1 DEF Quiet
  <2> QED
    BY <2>1, <2>2, <2>3, <2>7, <2>8 DEF Quiet
<1>10. ASSUME NEW word \in Repos, Submit(word)
       PROVE  Quiet'
  <2>1. dialog.shown
    BY <1>10 DEF Submit
  <2>2. events = << >> /\ Len(events) = 0 /\ \A f \in Runs : runs[f].pc # "post"
    BY <1>0, <2>1 DEF Quiet
  <2>3. ~dialog'.shown
    BY <1>10, SubmitSends
  <2>4. CASE UNCHANGED <<runs, slot, events>>
    BY <2>2, <2>3, <2>4 DEF Quiet
  <2>5. CASE Sent(Entry(word)) /\ UNCHANGED events
    <3>1. \A f \in Runs : runs'[f].pc # "post"
      BY <2>2, <2>5 DEF Sent, Becomes, DialogTypeOK
    <3> QED
      BY <2>2, <2>3, <2>5, <3>1 DEF Quiet
  <2>6. CASE slot = 0 /\ UNCHANGED <<runs, slot>> /\ events' = Append(events, Retry(dialog.action))
    <3>1. Retry(dialog.action) \in Closure
      BY PromptAndRetry DEF DialogTypeOK, Dialog
    <3>2. Len(events') = 1 /\ events'[1] = Retry(dialog.action)
      BY <2>2, <2>6, <3>1, Pushed
    <3>3. events'[1].kind # "prompt"
      BY <3>2 DEF Retry
    <3> QED
      BY <2>2, <2>3, <2>6, <3>2, <3>3 DEF Quiet
  <2> QED
    BY <1>10, <2>4, <2>5, <2>6, SubmitSends
<1>11. ASSUME Cancel
       PROVE  Quiet'
  <2>1. ~dialog'.shown /\ UNCHANGED <<runs, slot, events>>
    BY <1>11 DEF Cancel, DialogTypeOK, Dialog
  <2> QED
    BY <1>0, <2>1 DEF Quiet
<1>12. CASE UNCHANGED vars
  BY <1>0, <1>12 DEF vars, Quiet
<1> QED
  BY <1>1, <1>2, <1>3, <1>4, <1>5, <1>6, <1>7, <1>8, <1>9, <1>10, <1>11, <1>12 DEF Next, RunStep, Ask

LEMMA TheirsStep ==
  ASSUME DialogTypeOK, OneAtATime, FiledAsOpened, Theirs, [Next]_vars
  PROVE  Theirs'
<1> SUFFICES ASSUME "overlap" \notin upset'
             PROVE  Theirs'
  BY DEF Theirs
<1>0. /\ Quiet
      /\ \A e \in Runs : runs[e].answer \in TypedFor({None, runs[e].repo}) \cup {Pending}
  BY UpsetStays DEF OneAtATime, Theirs
<1>1. ASSUME NEW e \in Runs, NEW pc, NEW repo, NEW answer, Becomes(e, pc, repo, answer),
             answer \in TypedFor({None, repo}) \cup {Pending}
      PROVE  Theirs'
  BY <1>0, <1>1 DEF Theirs, Becomes
<1>2. ASSUME NEW e \in Runs, NEW r \in Repos, Start(e, r)
      PROVE  Theirs'
  BY <1>1, <1>2, StartStarts
<1>3. ASSUME NEW e \in Runs, Look(e)
      PROVE  Theirs'
  <2>1. runs[e].repo \in Repos
    BY <1>3 DEF Look, DialogTypeOK
  <2>2. CASE Moves(e, "take")
    BY <1>0, <1>1, <2>1, <2>2 DEF Moves
  <2>3. CASE /\ keyring[runs[e].repo] # None
             /\ Becomes(e, "backup", runs[e].repo, keyring[runs[e].repo])
    <3>1. keyring[runs[e].repo] \in TypedFor({None, runs[e].repo})
      BY <2>1, <2>3 DEF FiledAsOpened
    <3> QED
      BY <1>1, <2>3, <3>1
  <2> QED
    BY <1>3, <2>2, <2>3, LookTakes
<1>4. ASSUME NEW e \in Runs, Take(e)
      PROVE  Theirs'
  <2>1. slot = 0
    BY <1>4, NotInUse DEF Take
  <2>2. \A f \in Runs : runs'[f].answer = runs[f].answer /\ runs'[f].repo = runs[f].repo
    BY <1>4, <2>1, TakeTakes, RunsNumbered
  <2> QED
    BY <1>0, <2>2 DEF Theirs
<1>5. ASSUME NEW e \in Runs, Post(e) \/ Answered(e) \/ Back_up(e)
      PROVE  Theirs'
  <2>1. PICK pc \in Pcs : Moves(e, pc)
    BY <1>5, FieldReplaced DEF Post, Answered, Goto, Back_up, Pcs
  <2> QED
    BY <1>0, <1>1, <2>1 DEF Moves
<1>6. ASSUME NEW word \in Repos, Submit(word)
      PROVE  Theirs'
  <2>1. CASE UNCHANGED runs
    BY <1>0, <2>1 DEF Theirs
  <2>2. CASE Sent(Entry(word))
    <3>1. slot \in Runs /\ dialog.for = runs[slot].repo
      BY <1>0, <1>6, <2>2 DEF Quiet, Submit, Sent, DialogTypeOK
    <3>2. Entry(word) \in TypedFor({None, runs[slot].repo})
      BY <3>1, EntryTyped DEF TypedFor
    <3> QED
      BY <1>1, <2>2, <3>1, <3>2 DEF Sent
  <2> QED
    BY <1>6, <2>1, <2>2, SubmitSends
<1>7. CASE UNCHANGED runs
  BY <1>0, <1>7 DEF Theirs
<1> QED
  BY <1>2, <1>3, <1>4, <1>5, <1>6, <1>7
     DEF Next, RunStep, Ask, Select, Export, ShowPrompt, RetryAction, Cancel, vars

-------------------------------------------------------------------------------
(***************************************************************************)
(* The theorems                                                            *)
(***************************************************************************)

LEMMA DialogInit ==
  ASSUME Init
  PROVE  Senders /\ OpenedForPath /\ FiledAsOpened /\ WaitersAreAsked /\ OneAtATime /\ Theirs
<1>1. slot = 0 /\ events = << >> /\ Len(events) = 0 /\ ~dialog.shown
  BY DEF Init
<1>2. \A e \in Runs : runs[e].pc = "unused" /\ runs[e].answer = Pending
  BY DEF Init
<1>3. Senders
  BY <1>1, <1>2, RunsNumbered DEF Senders, Sender
<1>4. OpenedForPath /\ WaitersAreAsked /\ OneAtATime
  BY <1>1, <1>2 DEF OpenedForPath, WaitersAreAsked, OneAtATime, Quiet
<1>5. FiledAsOpened /\ Theirs
  BY <1>2 DEF Init, FiledAsOpened, Theirs, TypedFor
<1> QED
  BY <1>3, <1>4, <1>5

\* auth_oneshot holds the sender of the one execution that has yet to be answered,
\* whatever the user does.
THEOREM SendersCorrect == Spec => []Senders
<1>1. Init => Senders
  BY DialogInit
<1>2. DialogTypeOK /\ Senders /\ [Next]_vars => Senders'
  BY SendersStep
<1> QED
  BY <1>1, <1>2, DialogTypeCorrect, PTL DEF Spec

\* What is typed is filed under the repository the dialog was open for.
THEOREM FiledAsOpenedCorrect == Spec => []FiledAsOpened
<1>1. Init => OpenedForPath /\ FiledAsOpened
  BY DialogInit
<1>2. DialogTypeOK /\ (OpenedForPath /\ FiledAsOpened) /\ [Next]_vars => (OpenedForPath /\ FiledAsOpened)'
  BY OpenedStep, FiledStep
<1> QED
  BY <1>1, <1>2, DialogTypeCorrect, PTL DEF Spec

\* The dialog is open, or on its way, for an execution that waits for a password.
THEOREM WaitersAreAskedCorrect == Spec => []WaitersAreAsked
<1>1. Init => OpenedForPath /\ WaitersAreAsked
  BY DialogInit
<1>2. DialogTypeOK /\ Senders /\ (OpenedForPath /\ WaitersAreAsked) /\ [Next]_vars
        => (OpenedForPath /\ WaitersAreAsked)'
  BY OpenedStep, WaitersStep
<1> QED
  BY <1>1, <1>2, DialogTypeCorrect, SendersCorrect, PTL DEF Spec

\* Who wants the dialog alone gets it as it was asked for.
THEOREM OneAtATimeCorrect == Spec => []OneAtATime
<1>1. Init => OneAtATime
  BY DialogInit
<1>2. DialogTypeOK /\ Senders /\ OneAtATime /\ [Next]_vars => OneAtATime'
  BY QuietStep
<1> QED
  BY <1>1, <1>2, DialogTypeCorrect, SendersCorrect, PTL DEF Spec

\* No execution is given what was typed for another repository, or none, unless two want
\* the dialog at the same time.
THEOREM RunsGetTheirsCorrect == Spec => []RunsGetTheirs
<1>1. Init => Theirs
  BY DialogInit
<1>2. DialogTypeOK /\ OneAtATime /\ FiledAsOpened /\ Theirs /\ [Next]_vars => Theirs'
  BY TheirsStep
<1>3. Theirs => RunsGetTheirs
  BY DEF Theirs, RunsGetTheirs
<1> QED
  BY <1>1, <1>2, <1>3, DialogTypeCorrect, FiledAsOpenedCorrect, OneAtATimeCorrect, PTL DEF Spec

\* A dialog that nobody waits for is for an action.
THEOREM NoStrayBackupCorrect == Spec => []NoStrayBackup
<1>1. OneAtATime => NoStrayBackup
  BY DEF OneAtATime, Quiet, NoStrayBackup
<1> QED
  BY <1>1, OneAtATimeCorrect, PTL
===============================================================================
