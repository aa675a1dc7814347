----------------------------- MODULE ClientConfig -----------------------------
(***************************************************************************)
(* How the desktop client keeps its settings: React state (AppContext.tsx) *)
(* written through to app-config.json by savePersistedConfig, which loads  *)
(* the file, merges its keys into what it has read, and saves the result:  *)
(* two commands of the Rust process, each of them atomic for the others    *)
(* since commands run one after the other on its main thread, with an      *)
(* await between.  Calls and answers arrive in order; nothing orders the   *)
(* two calls of one save with those of another.  A definition Name_Bug is  *)
(* a variant of Name with a plausible mistake, which the properties must   *)
(* notice; no action uses it.                                              *)
(***************************************************************************)
EXTENDS Naturals, Sequences

CONSTANTS Torn,        \* the content of a file whose write was cut short
          MaxEdits,    \* bound: changes that the user makes
          MaxExits,    \* bound: times the application ends
          MaxOverlap   \* bound: commands and answers under way at an edit

ASSUME BoundsAssumption ==
  MaxEdits \in Nat /\ MaxExits \in Nat /\ MaxOverlap \in Nat

\* Lists are saved by an effect when they change, flags by their setter.
Lists == {"wizardConfigs", "savedPeers"}
Flags == {"recoveryKeyConfirmed", "offlineMode"}
Keys  == Lists \cup Flags

\* A list is known by the edit that made it; 0 is the empty list and FALSE.
Values(k) == IF k \in Lists THEN 0..MaxEdits ELSE 0..1
Config    == {c \in [Keys -> 0..(MaxEdits + 1)] : \A k \in Keys : c[k] \in Values(k)}
Defaults  == [k \in Keys |-> 0]

VARIABLES disk,      \* app-config.json
          running,   \* the application runs
          ui,        \* the provider's state
          loaded,    \* persistedLoaded: the first load has been applied
          calls,     \* commands on their way to the Rust process
          answers,   \* answers on their way back
          edits,
          exits,
          stored,    \* history: the file when the application started
          touched    \* history: the user has edited since

session == <<running, ui, loaded, calls, answers>>
history == <<edits, exits, stored, touched>>
vars    == <<disk, session, history>>

Call == [cmd : {"restore", "load", "save"}, key : Keys, value : 0..(MaxEdits + 1),
         config : Config]

\* The mount effect's load carries no key of its own.
Restore == [cmd |-> "restore", key |-> "savedPeers", value |-> 0,
            config |-> Defaults]

\* The first of the two calls of savePersistedConfig({key: value}).
Load(k, v) == [cmd |-> "load", key |-> k, value |-> v, config |-> Defaults]

Init ==
  /\ disk = Defaults
  /\ running = FALSE
  /\ ui = Defaults
  /\ loaded = FALSE
  /\ calls = <<>>
  /\ answers = <<>>
  /\ edits = 0
  /\ exits = 0
  /\ stored = Defaults
  /\ touched = FALSE
-----------------------------------------------------------------------------
\* The effects that save both lists, in the order they are declared.
SaveLists(c) == <<Load("wizardConfigs", c["wizardConfigs"]),
                  Load("savedPeers", c["savedPeers"])>>

\* Variant: the effects do not wait for persistedLoaded.
Mount_SavesAtOnce ==
  /\ ~running
  /\ running' = TRUE
  /\ ui' = Defaults
  /\ loaded' = FALSE
  /\ calls' = <<Restore>> \o SaveLists(Defaults)
  /\ answers' = <<>>
  /\ stored' = disk
  /\ touched' = FALSE
  /\ UNCHANGED <<disk, edits, exits>>

Mount ==
  /\ ~running
  /\ running' = TRUE
  /\ ui' = Defaults
  /\ loaded' = FALSE
  /\ calls' = <<Restore>>
  /\ answers' = <<>>
  /\ stored' = disk
  /\ touched' = FALSE
  /\ UNCHANGED <<disk, edits, exits>>

\* An empty list or a flag that is off does not overwrite what the page has by now.
Restored ==
  /\ answers # <<>>
  /\ Head(answers).cmd = "restore"
  /\ ui' = [k \in Keys |-> IF Head(answers).config[k] # 0
                           THEN Head(answers).config[k] ELSE ui[k]]
  /\ loaded' = TRUE
  /\ calls' = calls \o SaveLists(ui')
  /\ answers' = Tail(answers)
  /\ UNCHANGED <<disk, running, history>>

\* Variant: only the keys of this save are written.
Merged_PatchOnly(c, k, v) == [Defaults EXCEPT ![k] = v]

Merged(c, k, v) == [c EXCEPT ![k] = v]

\* savePersistedConfig goes on after its await.
SaveMerged ==
  /\ answers # <<>>
  /\ Head(answers).cmd = "load"
  /\ LET a == Head(answers)
     IN  calls' = Append(calls, [a EXCEPT !.cmd = "save",
                                   !.config = Merged(a.config, a.key, a.value)])
  /\ answers' = Tail(answers)
  /\ UNCHANGED <<disk, running, ui, loaded, history>>

\* The user changes a setting.  A list that changes before the first load has been
\* applied is not saved.
Edit(k, v) ==
  /\ running
  /\ Len(calls) + Len(answers) < MaxOverlap
  /\ edits < MaxEdits
  /\ v # ui[k]
  /\ edits' = edits + 1
  /\ ui' = [ui EXCEPT ![k] = v]
  /\ calls' = IF k \in Lists /\ ~loaded THEN calls ELSE Append(calls, Load(k, v))
  /\ touched' = TRUE
  /\ UNCHANGED <<disk, running, loaded, answers, exits, stored>>
-----------------------------------------------------------------------------
\* Variant: the text of the file is handed over as it is.
RunLoad_TornParses ==
  /\ calls # <<>>
  /\ Head(calls).cmd \in {"restore", "load"}
  /\ calls' = Tail(calls)
  /\ answers' = Append(answers, [Head(calls) EXCEPT !.config = disk])
  /\ UNCHANGED <<disk, running, ui, loaded, history>>

\* load_app_config.  It fails on a torn file: the page then starts from nothing,
\* and a save is given up.
RunLoad ==
  /\ calls # <<>>
  /\ Head(calls).cmd \in {"restore", "load"}
  /\ calls' = Tail(calls)
  /\ answers' = IF disk # Torn
                THEN Append(answers, [Head(calls) EXCEPT !.config = disk])
                ELSE IF Head(calls).cmd = "restore"
                THEN Append(answers, Head(calls))
                ELSE answers
  /\ UNCHANGED <<disk, running, ui, loaded, history>>

\* save_app_config.
RunSave ==
  /\ calls # <<>>
  /\ Head(calls).cmd = "save"
  /\ disk' = Head(calls).config
  /\ calls' = Tail(calls)
  /\ UNCHANGED <<running, ui, loaded, answers, history>>

\* The application ends or is killed, whatever is under way; killed within
\* save_app_config, between the truncation of the file and the end of its write,
\* it leaves the file torn.
Exit ==
  /\ running
  /\ exits < MaxExits
  /\ exits' = exits + 1
  /\ running' = FALSE
  /\ calls' = <<>>
  /\ answers' = <<>>
  /\ \/ UNCHANGED disk
     \/ calls # <<>> /\ Head(calls).cmd = "save" /\ disk' = Torn
  /\ UNCHANGED <<ui, loaded, edits, stored, touched>>

Next ==
  \/ Mount
  \/ Restored
  \/ SaveMerged
  \/ \E k \in Keys : \E v \in Values(k) \cap {0, 1, edits + 1} : Edit(k, v)
  \/ RunLoad
  \/ RunSave
  \/ Exit

Spec == Init /\ [][Next]_vars
-----------------------------------------------------------------------------
\* The variables have their types.
TypeOK ==
  /\ disk \in Config \cup {Torn}
  /\ running \in BOOLEAN
  /\ ui \in Config
  /\ loaded \in BOOLEAN
  /\ calls \in Seq(Call)
  /\ answers \in Seq(Call)
  /\ edits \in 0..MaxEdits
  /\ exits \in 0..MaxExits
  /\ stored \in Config \cup {Torn}
  /\ touched \in BOOLEAN

\* Starting the application changes nothing in the file: the effects that save the
\* lists run on every start, and must neither write the empty lists the page starts
\* with (persistedLoaded) nor undo each other.
StartupKeepsConfig == running /\ ~touched => disk = stored

\* Once every save has come back, the file has what the page shows
\* (docs/client-app/README.md: "all peers persist as savedPeers[] in app config"); if it was
\* read, and not torn by an end in the middle of a write, after which every load fails, and
\* with it every save to come.
SavedWhenQuiet ==
  running /\ loaded /\ calls = <<>> /\ answers = <<>> /\ disk # Torn => disk = ui
=============================================================================
