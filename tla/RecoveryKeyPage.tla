-------------------------- MODULE RecoveryKeyPage --------------------------
(***************************************************************************)
(* The master password (RecoveryKey.tsx) and the commands that keep it in  *)
(* process memory and in the OS keychain.  A form that is closed while its *)
(* command runs is not told of the answer; the page is.  What is typed is  *)
(* a password long enough, twice the same.                                 *)
(***************************************************************************)
EXTENDS ClientContext

VARIABLE recovery

Modes == {"idle", "set", "change", "revoke"}

Recovery == [mode : Modes, present : BOOLEAN, checking : BOOLEAN, saving : BOOLEAN]

NewRecovery == [mode |-> "idle", present |-> FALSE, checking |-> TRUE, saving |-> FALSE]

Shown == page = "recovery" /\ ~recovery.checking

\* The buttons, and those of the three forms.
CanOpen(mode) ==
  /\ Shown
  /\ CASE mode = "set"    -> ~passwordSet /\ recovery.mode # "set"
       [] mode = "change" -> passwordSet /\ recovery.mode \notin {"change", "revoke"}
       [] mode = "revoke" -> recovery.present /\ recovery.mode \notin {"change", "revoke"}
       [] mode = "idle"   -> recovery.mode \in {"change", "revoke"}

CanSave   == Shown /\ recovery.mode = "set" /\ ~recovery.saving
CanChange == Shown /\ recovery.mode = "change" /\ ~recovery.saving

SetMode(mode) ==
  /\ CanOpen(mode)
  /\ recovery' = [recovery EXCEPT !.mode = mode, !.saving = FALSE]
  /\ UNCHANGED context

Submit(cmd) ==
  /\ \E pw \in Passwords : Request(cmd, pw)
  /\ recovery' = [recovery EXCEPT !.saving = TRUE]
  /\ UNCHANGED <<page, timers, ui, secrets, repos, lab, raced>>

\* handleSave; handleChange asks for the old password to be verified first.
HandleSave   == CanSave /\ Submit("set_password")
HandleChange == CanChange /\ Submit("verify_password")

HandleRevoke ==
  /\ Shown
  /\ recovery.mode = "revoke"
  /\ Request("clear_password", None)
  /\ UNCHANGED <<page, timers, ui, secrets, repos, lab, raced, recovery>>

Rest == UNCHANGED <<page, timers, health, jobs, jobState, realLab, secrets, repos, lab,
                    clicks>>

NoPasswordChange == UNCHANGED <<passwordSet, flags, setup, asked, raced>>

\* The process works on the password: from the keychain, which may not give it, or in
\* memory first, then in the keychain, which may refuse a new one (and on macOS may
\* have lost the item it had) or keep the old one (which the bridge does not pass on).
PasswordRun ==
  /\ \/ /\ Run("load_keychain", "ok")
        /\ keychain # None
        /\ memory' = keychain
        /\ UNCHANGED keychain
     \/ Run("load_keychain", "error") /\ UNCHANGED secrets
     \/ Run("set_password", "ok") /\ memory' = arg /\ keychain' = arg
     \/ /\ Run("set_password", "error")
        /\ memory' = arg
        /\ keychain' \in {keychain, None}
     \/ /\ Run("clear_password", "ok")
        /\ memory' = None
        /\ keychain' \in {keychain, None}
  /\ UNCHANGED <<page, timers, ui, repos, lab, clicks, raced, recovery>>

\* The effect of the page: is there a password in the keychain, does it load?
KeychainFound ==
  /\ Queried("has_keychain")
  /\ IF keychain # None THEN Continue("load_keychain", None) ELSE Finish
  /\ recovery' = IF here THEN [recovery EXCEPT !.present = (keychain # None),
                                               !.checking = (keychain # None)]
                 ELSE recovery
  /\ NoPasswordChange
  /\ Rest

KeychainLoaded ==
  /\ \/ GoesOn("load_keychain", "ok") /\ SetMasterPasswordSet(TRUE)
     \/ GoesOn("load_keychain", "error") /\ NoPasswordChange
  /\ Finish
  /\ recovery' = IF here THEN [recovery EXCEPT !.checking = FALSE] ELSE recovery
  /\ Rest

\* The form whose command fails takes its button back, unless it is another by now.
FormFailed ==
  recovery' = IF here
              THEN [recovery EXCEPT !.saving = @ /\ \E i \in 2..Len(calls) :
                      calls[i].here /\ calls[i].cmd \in {"set_password", "verify_password"}]
              ELSE recovery

PasswordSaved ==
  /\ \/ /\ GoesOn("set_password", "ok")
        /\ SetMasterPasswordSet(TRUE)
        /\ recovery' = IF here THEN [recovery EXCEPT !.mode = "idle", !.present = TRUE,
                                                     !.saving = FALSE]
                       ELSE recovery
     \/ GoesOn("set_password", "error") /\ NoPasswordChange /\ FormFailed
  /\ Finish
  /\ Rest

\* The old password is right, or was not the one in memory.
PasswordVerified ==
  /\ Queried("verify_password")
  /\ \/ memory # None /\ Continue("set_password", arg) /\ UNCHANGED recovery
     \/ Finish /\ FormFailed
  /\ NoPasswordChange
  /\ Rest

PasswordCleared ==
  /\ GoesOn("clear_password", "ok")
  /\ Finish
  /\ SetMasterPasswordSet(FALSE)
  /\ recovery' = IF here THEN [recovery EXCEPT !.mode = "idle", !.present = FALSE,
                                               !.saving = FALSE]
                 ELSE recovery
  /\ Rest

RecoverySteps ==
  \/ \E mode \in Modes : SetMode(mode)
  \/ HandleSave
  \/ HandleChange
  \/ HandleRevoke
  \/ PasswordRun
  \/ KeychainFound
  \/ KeychainLoaded
  \/ PasswordSaved
  \/ PasswordVerified
  \/ PasswordCleared
=============================================================================
