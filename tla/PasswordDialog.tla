----------------------------- MODULE PasswordDialog -----------------------------
(***************************************************************************)
(* How executions of scheduled backups come by their passwords: the        *)
(* keyring, the one password dialog of the window, which the export of a   *)
(* key uses too, and the one place, auth_oneshot, for the execution that   *)
(* waits for it.                                                           *)
(*                                                                         *)
(* Executions run side by side, the window is one thread.  What they want  *)
(* of it they post as closures, and the window runs them in order between  *)
(* what the user does.                                                     *)
(*                                                                         *)
(* A repository's password is the repository itself.  The dialog names no  *)
(* repository: its text is the one it starts with or that of the last      *)
(* export, and a prompt names its repository in the terminal behind it     *)
(* only.  So the user may type any password into it, and the properties    *)
(* are about what was typed while the dialog was open for a repository.    *)
(***************************************************************************)
EXTENDS Naturals, Sequences, FiniteSets

CONSTANTS
  Repos,      \* repositories, all encrypted and with a bookmark
  None,       \* no repository, and no password; what a dropped sender gives
  Pending,    \* a oneshot with nothing sent yet
  MaxRuns,    \* bound: executions
  MaxExports  \* bound: clicks on export

\* A password somebody typed, with the repository the dialog was open for: none once
\* a retried action had cleared it.
Typed == [word : Repos, for : Repos \cup {None}]
TypedFor(S) == {typed \in Typed : typed.for \in S}

ASSUME ReposAssumption ==
  None \notin Repos \cup Typed /\ Pending \notin Typed \cup {None}
ASSUME BoundsAssumption == MaxRuns \in Nat /\ MaxExports \in Nat

VARIABLES
  runs,     \* runs[e]: execution e
  slot,     \* auth_oneshot: the execution whose sender it is (0: none)
  events,   \* the closures posted to the window
  dialog,   \* is it shown, for which repository and action; for: which it was opened for (history)
  active,   \* the repository selected in the window
  session,  \* session_passwords
  keyring,  \* the keyring
  exports,  \* clicks on export so far
  upset     \* what has got in the way of the dialog (history)

vars == <<runs, slot, events, dialog, active, session, keyring, exports, upset>>

Runs == 1 .. MaxRuns

Prompt(r) == [kind |-> "prompt", arg |-> r]
Retry(action) == [kind |-> "retry", arg |-> action]

Init ==
  /\ runs = [e \in Runs |-> [pc |-> "unused", repo |-> None, answer |-> Pending]]
  /\ slot = 0
  /\ events = << >>
  /\ dialog = [shown |-> FALSE, path |-> None, action |-> "", for |-> None]
  /\ active = None
  /\ session = [r \in Repos |-> None]
  /\ keyring \in [Repos -> Typed \cup {None}]       \* what it has from earlier windows
  /\ \A r \in Repos : keyring[r] \in TypedFor({r}) \cup {None}
  /\ exports = 0
  /\ upset = {}

\* The dialog is on its way, open, or answered by a closure still to run.
InUse == slot # 0 \/ dialog.shown \/ events # << >>
Overlapping == IF InUse THEN {"overlap"} ELSE {}

-------------------------------------------------------------------------------
(***************************************************************************)
(* An execution                                                            *)
(***************************************************************************)

Goto(e, from, to) == runs[e].pc = from /\ runs' = [runs EXCEPT ![e].pc = to]

Start(e, r) ==
  /\ runs[e].pc = "unused" /\ \A f \in 1 .. e - 1 : runs[f].pc # "unused"
  /\ runs' = [runs EXCEPT ![e] = [pc |-> "look", repo |-> r, answer |-> Pending]]
  /\ UNCHANGED <<slot, events, dialog, active, session, keyring, exports, upset>>

\* A password in the keyring is taken without asking.
Look(e) ==
  /\ runs[e].pc = "look"
  /\ LET found == keyring[runs[e].repo]
     IN  runs' = [runs EXCEPT ![e] = IF found = None THEN [@ EXCEPT !.pc = "take"]
                                     ELSE [@ EXCEPT !.pc = "backup", !.answer = found]]
  /\ UNCHANGED <<slot, events, dialog, active, session, keyring, exports, upset>>

\* The sender is stored; the one that was there is dropped, and with it the
\* hopes of the execution it was for.
Take(e) ==
  /\ runs[e].pc = "take"
  /\ runs' = [f \in Runs |-> CASE f = e -> [runs[f] EXCEPT !.pc = "post"]
                               [] f # e /\ f = slot -> [runs[f] EXCEPT !.answer = None]
                               [] OTHER -> runs[f]]
  /\ slot' = e
  /\ upset' = upset \cup Overlapping
  /\ UNCHANGED <<events, dialog, active, session, keyring, exports>>

Post(e) ==
  /\ Goto(e, "post", "wait")
  /\ events' = Append(events, Prompt(runs[e].repo))
  /\ UNCHANGED <<slot, dialog, active, session, keyring, exports, upset>>

Answered(e) ==
  /\ runs[e].answer # Pending
  /\ Goto(e, "wait", "backup")
  /\ UNCHANGED <<slot, events, dialog, active, session, keyring, exports, upset>>

\* Without the right password the execution ends with an error at once: the text
\* for which it would ask again, and with the next retry not look in the keyring,
\* is in no error of open or create_archive.
Back_up(e) ==
  /\ runs[e].pc = "backup"
  /\ runs' = [runs EXCEPT ![e].pc =
       IF runs[e].answer # None /\ runs[e].answer.word = runs[e].repo THEN "done" ELSE "failed"]
  /\ UNCHANGED <<slot, events, dialog, active, session, keyring, exports, upset>>

\* Faulty: the window is asked for the dialog before the sender is stored.
PostFirst(e) ==
  \/ /\ Goto(e, "take", "post")
     /\ events' = Append(events, Prompt(runs[e].repo))
     /\ UNCHANGED <<slot, dialog, active, session, keyring, exports, upset>>
  \/ /\ runs[e].pc = "post"
     /\ runs' = [f \in Runs |-> CASE f = e -> [runs[f] EXCEPT !.pc = "wait"]
                                  [] f # e /\ f = slot -> [runs[f] EXCEPT !.answer = None]
                                  [] OTHER -> runs[f]]
     /\ slot' = e
     /\ UNCHANGED <<events, dialog, active, session, keyring, exports, upset>>

Ask(e) == Take(e) \/ Post(e)

RunStep(e) == Look(e) \/ Ask(e) \/ Answered(e) \/ Back_up(e)

-------------------------------------------------------------------------------
(***************************************************************************)
(* The window                                                              *)
(***************************************************************************)

\* on_export_key_clicked without a password of the session.
ExportDialog(d) ==
  [d EXCEPT !.shown = TRUE, !.path = active, !.action = "export_key", !.for = active]

\* The dialog leaves the sidebar and the menu open to clicks.  Who selects a
\* repository, or none, gives the session what the keyring has.
Select(r) ==
  /\ active' = r
  /\ session' = IF r # None /\ session[r] = None THEN [session EXCEPT ![r] = keyring[r]] ELSE session
  /\ UNCHANGED <<runs, slot, events, dialog, keyring, exports, upset>>

Export(r) ==
  /\ r = active /\ session[r] = None
  /\ exports < MaxExports
  /\ exports' = exports + 1
  /\ dialog' = ExportDialog(dialog)
  /\ upset' = upset \cup Overlapping
  /\ UNCHANGED <<runs, slot, events, active, session, keyring>>

\* Faulty: the prompt shows the dialog with the repository it had last.
ShowPromptForLast ==
  /\ events # << >> /\ Head(events).kind = "prompt"
  /\ events' = Tail(events)
  /\ LET r == Head(events).arg
     IN  dialog' = [dialog EXCEPT !.shown = TRUE, !.for = r,
                                  !.path = IF dialog.path = None THEN r ELSE dialog.path]
  /\ UNCHANGED <<runs, slot, active, session, keyring, exports, upset>>

ShowPrompt ==
  /\ events # << >> /\ Head(events).kind = "prompt"
  /\ events' = Tail(events)
  /\ LET r == Head(events).arg
     IN  dialog' = [dialog EXCEPT !.shown = TRUE, !.path = r, !.for = r]
  /\ UNCHANGED <<runs, slot, active, session, keyring, exports, upset>>

\* The action the dialog was for is tried again, which may open the dialog once
\* more; then its repository and action are cleared, whoever set them.
RetryAction ==
  /\ events # << >> /\ Head(events).kind = "retry"
  /\ events' = Tail(events)
  /\ LET again == Head(events).arg = "export_key" /\ active # None /\ session[active] = None
         d == IF again THEN ExportDialog(dialog) ELSE dialog
     IN  /\ dialog' = [d EXCEPT !.path = None, !.action = "", !.for = None]
         /\ upset' = upset \cup (IF d.shown THEN {"cleared"} ELSE {})
  /\ UNCHANGED <<runs, slot, active, session, keyring, exports>>

\* Faulty: the password is filed under the repository selected in the window.
PathSelected == active

\* The repository the password is filed under.
Path == IF dialog.path # None THEN dialog.path ELSE active

Entry(word) == [word |-> word, for |-> dialog.for]

\* Faulty: the dialog stays open when an execution was waiting.
SubmitLeavesOpen(word) ==
  /\ dialog.shown
  /\ dialog' = [dialog EXCEPT !.shown = slot # 0]
  /\ IF Path = None
     THEN UNCHANGED <<runs, slot, events, session, keyring>>
     ELSE /\ session' = [session EXCEPT ![Path] = Entry(word)]
          /\ keyring' \in {keyring, [keyring EXCEPT ![Path] = Entry(word)]}
          /\ IF slot # 0
             THEN /\ runs' = [runs EXCEPT ![slot].answer = Entry(word)]
                  /\ slot' = 0
                  /\ UNCHANGED events
             ELSE /\ events' = Append(events, Retry(dialog.action))
                  /\ UNCHANGED <<runs, slot>>
  /\ UNCHANGED <<active, exports, upset>>

\* What the dialog is submitted with goes to the session and to the keyring, if
\* that takes it, and then to the execution that waits or else to the action.
Submit(word) ==
  /\ dialog.shown
  /\ dialog' = [dialog EXCEPT !.shown = FALSE]
  /\ IF Path = None
     THEN UNCHANGED <<runs, slot, events, session, keyring>>
     ELSE /\ session' = [session EXCEPT ![Path] = Entry(word)]
          /\ keyring' \in {keyring, [keyring EXCEPT ![Path] = Entry(word)]}
          /\ IF slot # 0
             THEN /\ runs' = [runs EXCEPT ![slot].answer = Entry(word)]
                  /\ slot' = 0
                  /\ UNCHANGED events
             ELSE /\ events' = Append(events, Retry(dialog.action))
                  /\ UNCHANGED <<runs, slot>>
  /\ UNCHANGED <<active, exports, upset>>

\* The dialog is closed and nothing else: the sender stays.
Cancel ==
  /\ dialog.shown
  /\ dialog' = [dialog EXCEPT !.shown = FALSE]
  /\ upset' = upset \cup {"cancel"}
  /\ UNCHANGED <<runs, slot, events, active, session, keyring, exports>>

Next ==
  \/ \E e \in Runs : RunStep(e) \/ \E r \in Repos : Start(e, r)
  \/ \E r \in Repos \cup {None} : Select(r)
  \/ \E r \in Repos : Export(r)
  \/ ShowPrompt \/ RetryAction
  \/ \E word \in Repos : Submit(word)
  \/ Cancel

Spec == Init /\ [][Next]_vars
-------------------------------------------------------------------------------
(***************************************************************************)
(* Properties                                                              *)
(***************************************************************************)

\* Without two that want the dialog at the same time, no execution sees its sender
\* dropped, or is given what was typed while the dialog was open for another
\* repository, at once or by way of the keyring, however prompts, submissions,
\* selections and exports follow each other.
RunsGetTheirs ==
  "overlap" \notin upset =>
    \A e \in Runs : runs[e].answer \in TypedFor({None, runs[e].repo}) \cup {Pending}

\* What is typed is filed under the repository the dialog was open for, whatever was
\* selected meanwhile and also when prompts overtake each other; only where a retried
\* action had cleared that repository the selection decides.
FiledAsOpened ==
  \A r \in Repos : {session[r], keyring[r]} \subseteq TypedFor({None, r}) \cup {None}

\* The dialog is open, or on its way, for an execution that waits for a password,
\* whichever answered or replaced the senders of the others: unless the user
\* cancelled a dialog, or its repository was cleared, none waits for ever.
WaitersAreAsked ==
  upset \cap {"cancel", "cleared"} = {} =>
    \A e \in Runs : runs[e].pc = "wait" /\ runs[e].answer = Pending =>
      dialog.shown \/ \E i \in DOMAIN events : events[i].kind = "prompt"

\* A dialog that nobody waits for, submitted without an action, starts a backup of
\* the selected repository.  It takes two that want the dialog, or an action that is
\* retried after another repository was selected, to come to that.
NoStrayBackup ==
  upset \cap {"overlap", "cleared"} = {} => (dialog.shown /\ dialog.action = "" => slot # 0)
===============================================================================
