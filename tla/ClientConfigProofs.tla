------------------------- MODULE ClientConfigProofs -------------------------
(***************************************************************************)
(* For any number of edits and exits: starting the client keeps its        *)
(* settings, and when saves do not overlap the file has what is shown.     *)
(***************************************************************************)
EXTENDS ClientConfig, SequenceTheorems, TLAPS

\* A call with a value of its key.
Calls == {c \in Call : c.value \in Values(c.key)}

TypeInv ==
  /\ TypeOK
  /\ calls \in Seq(Calls)
  /\ answers \in Seq(Calls)

LEMMA WiderSeq ==
  ASSUME NEW S, NEW T, S \subseteq T, NEW q \in Seq(S)
  PROVE  q \in Seq(T)
<1>1. PICK n \in Nat : q \in [1..n -> S]
  BY SeqDef
<1>2. q \in [1..n -> T]
  BY <1>1
<1>3. QED
  BY <1>2, SeqDef

LEMMA ValueOfKey ==
  ASSUME NEW k \in Keys
  PROVE  Values(k) \subseteq 0..(MaxEdits + 1) /\ 0 \in Values(k)
  BY BoundsAssumption DEF Values

LEMMA ConfigOf ==
  /\ Defaults \in Config
  /\ \A c \in Config : c \in [Keys -> 0..(MaxEdits + 1)] /\ \A k \in Keys : c[k] \in Values(k)
  /\ \A f \in [Keys -> 0..(MaxEdits + 1)] : (\A k \in Keys : f[k] \in Values(k)) => f \in Config
  BY ValueOfKey, BoundsAssumption DEF Config, Defaults

\* One key of a configuration is set.
LEMMA KeySet ==
  ASSUME NEW c \in Config, NEW k \in Keys, NEW v \in Values(k)
  PROVE  [c EXCEPT ![k] = v] \in Config
<1>1. [c EXCEPT ![k] = v] \in [Keys -> 0..(MaxEdits + 1)]
  BY ConfigOf, ValueOfKey
<1>2. \A x \in Keys : [c EXCEPT ![k] = v][x] \in Values(x)
  BY ConfigOf
<1>3. QED
  BY <1>1, <1>2, ConfigOf

LEMMA LoadIsCall ==
  ASSUME NEW k \in Keys, NEW v \in Values(k)
  PROVE  Load(k, v) \in Calls
<1>1. v \in 0..(MaxEdits + 1) /\ Defaults \in Config
  BY ValueOfKey, ConfigOf
<1>2. QED
  BY <1>1 DEF Load, Call, Calls

LEMMA RestoreIsCall == Restore \in Calls
<1>1. "savedPeers" \in Keys
  BY DEF Keys, Lists
<1>2. 0 \in Values("savedPeers") /\ 0 \in 0..(MaxEdits + 1) /\ Defaults \in Config
  BY <1>1, ValueOfKey, ConfigOf
<1>3. QED
  BY <1>1, <1>2 DEF Restore, Call, Calls

LEMMA SaveListsAreCalls ==
  ASSUME NEW c \in Config
  PROVE  /\ Load("wizardConfigs", c["wizardConfigs"]) \in Calls
         /\ Load("savedPeers", c["savedPeers"]) \in Calls
         /\ SaveLists(c) \in Seq(Calls)
<1>1. {"wizardConfigs", "savedPeers"} \subseteq Keys
  BY DEF Keys, Lists
<1>2. /\ Load("wizardConfigs", c["wizardConfigs"]) \in Calls
      /\ Load("savedPeers", c["savedPeers"]) \in Calls
  BY <1>1, ConfigOf, LoadIsCall
<1>3. QED
  BY <1>2 DEF SaveLists

\* What is restored, over what the page has.
Overlaid(c, u) == [k \in Keys |-> IF c[k] # 0 THEN c[k] ELSE u[k]]

LEMMA OverlaidIsConfig ==
  ASSUME NEW c \in Config, NEW u \in Config
  PROVE  Overlaid(c, u) \in Config
<1>1. Overlaid(c, u) \in [Keys -> 0..(MaxEdits + 1)]
  BY ConfigOf DEF Overlaid
<1>2. \A k \in Keys : Overlaid(c, u)[k] \in Values(k)
  BY ConfigOf DEF Overlaid
<1>3. QED
  BY <1>1, <1>2, ConfigOf

\* The first of a queue, and the rest.
LEMMA FirstOf ==
  ASSUME NEW S, NEW q \in Seq(S), q # <<>>
  PROVE  Head(q) \in S /\ Tail(q) \in Seq(S)
  BY HeadTailProperties

LEMMA TypeStep ==
  ASSUME TypeInv, [Next]_vars
  PROVE  TypeInv'
<1>1. CASE Mount
  <2>1. calls' = <<Restore>> /\ answers' = <<>>
    BY <1>1 DEF Mount
  <2>2. calls' \in Seq(Calls) /\ answers' \in Seq(Calls)
    BY <2>1, RestoreIsCall
  <2>3. calls' \in Seq(Call) /\ answers' \in Seq(Call)
    BY <2>2, WiderSeq DEF Calls
  <2>4. QED
    BY <1>1, <2>2, <2>3, ConfigOf DEF Mount, TypeInv, TypeOK
<1>2. CASE Restored
  <2>1. Head(answers) \in Calls /\ answers' \in Seq(Calls)
    BY <1>2, FirstOf DEF Restored, TypeInv
  <2>2. ui' = Overlaid(Head(answers).config, ui)
    BY <1>2 DEF Restored, Overlaid
  <2>3. ui' \in Config
    BY <2>1, <2>2, OverlaidIsConfig DEF TypeInv, TypeOK, Calls, Call
  <2>4. calls' \in Seq(Calls)
    BY <1>2, <2>3, SaveListsAreCalls, ConcatProperties DEF Restored, TypeInv
  <2>5. calls' \in Seq(Call) /\ answers' \in Seq(Call)
    BY <2>1, <2>4, WiderSeq DEF Calls
  <2>6. QED
    BY <1>2, <2>1, <2>3, <2>4, <2>5 DEF Restored, TypeInv, TypeOK, history
<1>3. CASE SaveMerged
  <2> DEFINE a == Head(answers)
             c == [a EXCEPT !.cmd = "save", !.config = Merged(a.config, a.key, a.value)]
  <2>1. a \in Calls /\ answers' \in Seq(Calls) /\ calls' = Append(calls, c)
    BY <1>3, FirstOf DEF SaveMerged, TypeInv
  <2> HIDE DEF a
  <2>2. Merged(a.config, a.key, a.value) \in Config
    BY <2>1, KeySet DEF Merged, Calls, Call
  <2>3. c \in Calls
    BY <2>1, <2>2 DEF Calls, Call
  <2>4. calls' \in Seq(Calls)
    BY <2>1, <2>3, AppendProperties DEF TypeInv
  <2>5. calls' \in Seq(Call) /\ answers' \in Seq(Call)
    BY <2>1, <2>4, WiderSeq DEF Calls
  <2>6. QED
    BY <1>3, <2>1, <2>4, <2>5 DEF SaveMerged, TypeInv, TypeOK, history
<1>4. ASSUME NEW k \in Keys, NEW v \in Values(k), Edit(k, v)
      PROVE  TypeInv'
  <2>1. ui' \in Config
    BY <1>4, KeySet DEF Edit, TypeInv, TypeOK
  <2>2. calls' \in Seq(Calls)
    BY <1>4, LoadIsCall, AppendProperties DEF Edit, TypeInv
  <2>3. calls' \in Seq(Call)
    BY <2>2, WiderSeq DEF Calls
  <2>4. edits' \in 0..MaxEdits
    BY <1>4, BoundsAssumption DEF Edit, TypeInv, TypeOK
  <2>5. QED
    BY <1>4, <2>1, <2>2, <2>3, <2>4 DEF Edit, TypeInv, TypeOK
<1>5. CASE RunLoad
  <2> DEFINE c == Head(calls)
  <2>1. c \in Calls /\ calls' \in Seq(Calls)
    BY <1>5, FirstOf DEF RunLoad, TypeInv
  <2>2. disk # Torn => [c EXCEPT !.config = disk] \in Calls
    <3> HIDE DEF c
    <3>1. QED
      BY <2>1 DEF TypeInv, TypeOK, Calls, Call
  <2>3. answers' \in Seq(Calls)
    BY <1>5, <2>1, <2>2, AppendProperties DEF RunLoad, TypeInv
  <2>4. calls' \in Seq(Call) /\ answers' \in Seq(Call)
    BY <2>1, <2>3, WiderSeq DEF Calls
  <2>5. QED
    BY <1>5, <2>1, <2>3, <2>4 DEF RunLoad, TypeInv, TypeOK, history
<1>6. CASE RunSave
  <2>1. Head(calls) \in Calls /\ calls' \in Seq(Calls)
    BY <1>6, FirstOf DEF RunSave, TypeInv
  <2>2. calls' \in Seq(Call)
    BY <2>1, WiderSeq DEF Calls
  <2>3. QED
    BY <1>6, <2>1, <2>2 DEF RunSave, TypeInv, TypeOK, history, Calls, Call
<1>7. CASE Exit
  <2>1. exits' \in 0..MaxExits
    BY <1>7, BoundsAssumption DEF Exit, TypeInv, TypeOK
  <2>2. calls' = <<>> /\ answers' = <<>>
    BY <1>7 DEF Exit
  <2>3. /\ calls' \in Seq(Calls) /\ answers' \in Seq(Calls)
        /\ calls' \in Seq(Call) /\ answers' \in Seq(Call)
    BY <2>2, EmptySeq
  <2>4. disk' \in Config \cup {Torn} /\ running' \in BOOLEAN
    BY <1>7 DEF Exit, TypeInv, TypeOK
  <2>5. QED
    BY <1>7, <2>1, <2>3, <2>4 DEF Exit, TypeInv, TypeOK
<1>8. CASE UNCHANGED vars
  BY <1>8 DEF vars, session, history, TypeInv, TypeOK
<1>9. QED
  BY <1>1, <1>2, <1>3, <1>4, <1>5, <1>6, <1>7, <1>8 DEF Next

LEMMA TypeInvariant == Spec => []TypeInv
<1>1. Init => TypeInv
  <2>1. <<>> \in Seq(Calls) /\ <<>> \in Seq(Call)
    BY EmptySeq
  <2>2. 0 \in 0..MaxEdits /\ 0 \in 0..MaxExits
    BY BoundsAssumption
  <2>3. QED
    BY <2>1, <2>2, ConfigOf DEF Init, TypeInv, TypeOK
<1>2. QED
  BY <1>1, TypeStep, PTL DEF Spec

\* The type invariant, for any number of edits and exits.
THEOREM TypeCorrect == Spec => []TypeOK
<1>1. TypeInv => TypeOK
  BY DEF TypeInv
<1>2. QED
  BY <1>1, TypeInvariant, PTL
-----------------------------------------------------------------------------
\* What is under way over a file d that nobody edits: saves write what is there.
Page(d) == IF d = Torn THEN Defaults ELSE d

GoodCalls(d) ==
  {c \in Calls :
    /\ c.cmd = "restore" => c.config = Defaults
    /\ c.cmd = "load" => d = Torn \/ c.value = d[c.key]
    /\ c.cmd = "save" => d # Torn /\ c.config = d}

GoodAnswers(d) ==
  {a \in Calls :
    /\ a.cmd = "restore" => a.config = Page(d)
    /\ a.cmd = "load" => d # Torn /\ a.config = d /\ a.value = d[a.key]
    /\ a.cmd # "save"}

Undisturbed(d) == calls \in Seq(GoodCalls(d)) /\ answers \in Seq(GoodAnswers(d))

\* A page that shows the file, or nothing yet, still does once it is restored, and what
\* its effects save is in the file.
LEMMA RestoredIsPage ==
  ASSUME NEW d \in Config \cup {Torn}, NEW u \in {Defaults, Page(d)}
  PROVE  Overlaid(Page(d), u) = Page(d)
<1>1. Page(d) \in Config
  BY ConfigOf DEF Page
<1>2. \A k \in Keys : Overlaid(Page(d), u)[k] = Page(d)[k]
  BY <1>1, ConfigOf DEF Overlaid, Defaults
<1>3. QED
  BY <1>1, <1>2, ConfigOf DEF Overlaid

LEMMA SaveListsAreGood ==
  ASSUME NEW d \in Config \cup {Torn}, NEW u \in Config, d # Torn => u = d
  PROVE  SaveLists(u) \in Seq(GoodCalls(d))
<1>1. /\ Load("wizardConfigs", u["wizardConfigs"]) \in Calls
      /\ Load("savedPeers", u["savedPeers"]) \in Calls
  BY SaveListsAreCalls
<1>2. /\ Load("wizardConfigs", u["wizardConfigs"]) \in GoodCalls(d)
      /\ Load("savedPeers", u["savedPeers"]) \in GoodCalls(d)
  BY <1>1 DEF GoodCalls, Load
<1>3. QED
  BY <1>2 DEF SaveLists

\* The end of the first await of a save, and the two commands.
LEMMA UndisturbedSave ==
  ASSUME TypeInv, Undisturbed(disk), SaveMerged
  PROVE  Undisturbed(disk)'
<1> DEFINE a == Head(answers)
           c == [a EXCEPT !.cmd = "save", !.config = Merged(a.config, a.key, a.value)]
<1>1. a \in GoodAnswers(disk) /\ answers' \in Seq(GoodAnswers(disk))
  BY FirstOf DEF SaveMerged, Undisturbed
<1>2. /\ calls' = Append(calls, c) /\ a.cmd = "load"
      /\ UNCHANGED disk
  BY DEF SaveMerged
<1> HIDE DEF a
<1>3. /\ a \in Calls /\ disk # Torn /\ a.config = disk /\ a.value = disk[a.key]
      /\ disk \in Config
  BY <1>1, <1>2 DEF GoodAnswers, TypeInv, TypeOK
<1>4. Merged(a.config, a.key, a.value) = disk
  BY <1>3, ConfigOf DEF Merged
<1>5. c \in GoodCalls(disk)
  BY <1>3, <1>4 DEF GoodCalls, Calls, Call
<1>6. calls' \in Seq(GoodCalls(disk))
  BY <1>2, <1>5, AppendProperties DEF Undisturbed
<1>7. QED
  BY <1>1, <1>2, <1>6 DEF Undisturbed

LEMMA UndisturbedRun ==
  ASSUME TypeInv, Undisturbed(disk), RunLoad \/ RunSave
  PROVE  Undisturbed(disk)' /\ disk' = disk
<1> DEFINE c == Head(calls)
<1>1. /\ c \in GoodCalls(disk) /\ calls' \in Seq(GoodCalls(disk))
      /\ answers \in Seq(GoodAnswers(disk))
  BY FirstOf DEF RunLoad, RunSave, Undisturbed
<1>2. CASE RunSave
  BY <1>1, <1>2 DEF RunSave, Undisturbed, GoodCalls
<1>3. CASE RunLoad
  <2>1. /\ UNCHANGED disk /\ c.cmd \in {"restore", "load"}
        /\ answers' = IF disk # Torn THEN Append(answers, [c EXCEPT !.config = disk])
                      ELSE IF c.cmd = "restore" THEN Append(answers, c) ELSE answers
    BY <1>3 DEF RunLoad
  <2> HIDE DEF c
  <2>2. disk # Torn => [c EXCEPT !.config = disk] \in GoodAnswers(disk)
    <3> SUFFICES ASSUME disk # Torn
                 PROVE  [c EXCEPT !.config = disk] \in GoodAnswers(disk)
      OBVIOUS
    <3>1. c \in Calls /\ disk \in Config
      BY <1>1 DEF GoodCalls, TypeInv, TypeOK
    <3>2. /\ [c EXCEPT !.config = disk] \in Calls
          /\ [c EXCEPT !.config = disk].cmd = c.cmd
          /\ [c EXCEPT !.config = disk].config = disk
          /\ [c EXCEPT !.config = disk].value = c.value
          /\ [c EXCEPT !.config = disk].key = c.key
      BY <3>1 DEF Calls, Call
    <3>3. c.cmd = "load" => c.value = disk[c.key]
      BY <1>1 DEF GoodCalls
    <3>4. QED
      BY <2>1, <3>2, <3>3 DEF GoodAnswers, Page
  <2>3. disk = Torn /\ c.cmd = "restore" => c \in GoodAnswers(disk)
    BY <1>1 DEF GoodCalls, GoodAnswers, Page
  <2>4. answers' \in Seq(GoodAnswers(disk))
    BY <1>1, <2>1, <2>2, <2>3, AppendProperties
  <2>5. QED
    BY <1>1, <2>1, <2>4 DEF Undisturbed
<1>4. QED
  BY <1>2, <1>3

\* Until the user edits something, the page shows the file or nothing yet.
StartInv ==
  running /\ ~touched =>
    /\ disk = stored
    /\ ui \in {Defaults, Page(disk)}
    /\ Undisturbed(disk)

\* The application's start leaves the file as it is, torn or not: its effects save what
\* has been restored and what the page starts with is never written (persistedLoaded).
THEOREM StartKeepsConfig == Spec => []StartupKeepsConfig
<1>1. Init => StartInv
  BY DEF Init, StartInv
<1>2. TypeInv /\ StartInv /\ [Next]_vars => StartInv'
  <2> SUFFICES ASSUME TypeInv, StartInv, [Next]_vars, running', ~touched'
               PROVE  /\ disk' = stored'
                      /\ ui' \in {Defaults, Page(disk)'}
                      /\ Undisturbed(disk)'
    BY DEF StartInv
  <2>1. CASE Mount
    <3>1. /\ disk' = disk /\ stored' = disk /\ ui' = Defaults
          /\ calls' = <<Restore>> /\ answers' = <<>>
      BY <2>1 DEF Mount
    <3>2. Restore \in GoodCalls(disk)
      BY RestoreIsCall DEF GoodCalls, Restore
    <3>3. calls' \in Seq(GoodCalls(disk)) /\ answers' \in Seq(GoodAnswers(disk))
      BY <3>1, <3>2
    <3>4. QED
      BY <3>1, <3>3 DEF Undisturbed
  <2>2. CASE Restored
    <3>1. /\ running /\ ~touched /\ UNCHANGED <<disk, stored>>
          /\ answers # <<>> /\ answers' = Tail(answers) /\ Head(answers).cmd = "restore"
          /\ calls' = calls \o SaveLists(ui')
          /\ ui' = Overlaid(Head(answers).config, ui)
      BY <2>2 DEF Restored, history, Overlaid
    <3>2. /\ Head(answers) \in GoodAnswers(disk) /\ answers' \in Seq(GoodAnswers(disk))
          /\ calls \in Seq(GoodCalls(disk)) /\ ui \in {Defaults, Page(disk)}
      BY <3>1, FirstOf DEF StartInv, Undisturbed
    <3>3. disk \in Config \cup {Torn}
      BY DEF TypeInv, TypeOK
    <3>4. ui' = Page(disk)
      BY <3>1, <3>2, <3>3, RestoredIsPage DEF GoodAnswers
    <3>5. SaveLists(ui') \in Seq(GoodCalls(disk))
      BY <3>3, <3>4, ConfigOf, SaveListsAreGood DEF Page
    <3>6. calls' \in Seq(GoodCalls(disk))
      BY <3>1, <3>2, <3>5, ConcatProperties
    <3>7. QED
      BY <3>1, <3>2, <3>4, <3>6 DEF StartInv, Undisturbed
  <2>3. CASE SaveMerged
    BY <2>3, UndisturbedSave DEF SaveMerged, history, StartInv
  <2>4. ASSUME NEW k \in Keys, NEW v \in Values(k), Edit(k, v)
        PROVE  FALSE
    BY <2>4 DEF Edit
  <2>5. CASE RunLoad \/ RunSave
    <3>1. UNCHANGED <<running, ui, stored, touched>>
      <4>1. CASE RunLoad
        BY <4>1 DEF RunLoad, history
      <4>2. CASE RunSave
        BY <4>2 DEF RunSave, history
      <4>3. QED
        BY <2>5, <4>1, <4>2
    <3>2. disk' = disk /\ Undisturbed(disk)'
      BY <2>5, <3>1, UndisturbedRun DEF StartInv
    <3>3. QED
      BY <3>1, <3>2 DEF StartInv
  <2>6. CASE Exit
    BY <2>6 DEF Exit
  <2>7. CASE UNCHANGED vars
    BY <2>7 DEF vars, session, history, StartInv, Undisturbed
  <2>8. QED
    BY <2>1, <2>2, <2>3, <2>4, <2>5, <2>6, <2>7 DEF Next
<1>3. StartInv => StartupKeepsConfig
  BY DEF StartInv, StartupKeepsConfig
<1>4. QED
  BY <1>1, <1>2, <1>3, TypeInvariant, PTL DEF Spec
-----------------------------------------------------------------------------
\* What is under way while no edit meets a save: the first load, or saves of what the
\* file has already, or the one save of the key in which the page differs from it.
Starting ==
  /\ ~loaded
  /\ ui = Defaults
  /\ \/ calls = <<Restore>> /\ answers = <<>>
     \/ calls = <<>> /\ answers = <<[Restore EXCEPT !.config = Page(disk)]>>

Agreed ==
  /\ loaded
  /\ disk # Torn => ui = disk
  /\ Undisturbed(disk)

Asked(k, v)  == Load(k, v)
Loaded(k, v) == [Load(k, v) EXCEPT !.config = disk]
Written(k, v) == [Load(k, v) EXCEPT !.cmd = "save", !.config = ui]

Saving ==
  /\ loaded
  /\ disk # Torn
  /\ \E k \in Keys : \E v \in Values(k) :
       /\ ui = [disk EXCEPT ![k] = v]
       /\ \/ calls = <<Asked(k, v)>> /\ answers = <<>>
          \/ calls = <<>> /\ answers = <<Loaded(k, v)>>
          \/ calls = <<Written(k, v)>> /\ answers = <<>>

QuietInv == running => Starting \/ Agreed \/ Saving

LEMMA OneInQueue ==
  ASSUME NEW x
  PROVE  /\ <<x>> # <<>> /\ Head(<<x>>) = x /\ Tail(<<x>>) = <<>> /\ Len(<<x>>) = 1
         /\ Append(<<>>, x) = <<x>>
  OBVIOUS

LEMMA OneUnderWay ==
  ASSUME NEW p, NEW q, NEW x, (p = <<x>> /\ q = <<>>) \/ (p = <<>> /\ q = <<x>>)
  PROVE  Len(p) + Len(q) = 1
<1>1. Len(<<x>>) = 1 /\ Len(<<>>) = 0
  OBVIOUS
<1>2. CASE p = <<x>> /\ q = <<>>
  BY <1>1, <1>2
<1>3. CASE p = <<>> /\ q = <<x>>
  BY <1>1, <1>3
<1>4. QED
  BY <1>2, <1>3

LEMMA QuietStarting ==
  ASSUME TypeInv, running, Starting, [Next]_vars, running', MaxOverlap \in 0..1
  PROVE  QuietInv'
<1>1. Len(calls) + Len(answers) = 1
  BY OneUnderWay DEF Starting
<1>2. CASE Restored
  <2>1. /\ calls = <<>> /\ answers = <<[Restore EXCEPT !.config = Page(disk)]>>
        /\ Head(answers) = [Restore EXCEPT !.config = Page(disk)]
        /\ answers' = <<>> /\ loaded' /\ UNCHANGED disk
        /\ ui' = Overlaid(Head(answers).config, ui)
        /\ calls' = calls \o SaveLists(ui')
    BY <1>2, OneInQueue DEF Restored, Starting, Overlaid
  <2>2. Head(answers).config = Page(disk) /\ disk \in Config \cup {Torn}
    BY <2>1 DEF Restore, TypeInv, TypeOK
  <2>3. ui' = Page(disk)
    BY <2>1, <2>2, RestoredIsPage DEF Starting
  <2>4. SaveLists(ui') \in Seq(GoodCalls(disk))
    BY <2>2, <2>3, ConfigOf, SaveListsAreGood DEF Page
  <2>5. calls' \in Seq(GoodCalls(disk)) /\ answers' \in Seq(GoodAnswers(disk))
    BY <2>1, <2>4, EmptySeq, ConcatProperties
  <2>6. QED
    BY <2>1, <2>3, <2>5 DEF QuietInv, Agreed, Undisturbed, Page
<1>3. CASE RunLoad
  <2>1. /\ calls = <<Restore>> /\ answers = <<>> /\ Head(calls) = Restore
        /\ calls' = <<>> /\ UNCHANGED <<disk, ui, loaded>>
        /\ answers' = IF disk # Torn
                      THEN Append(answers, [Head(calls) EXCEPT !.config = disk])
                      ELSE IF Head(calls).cmd = "restore"
                      THEN Append(answers, Head(calls))
                      ELSE answers
    BY <1>3, OneInQueue DEF RunLoad, Starting
  <2>2. Restore.cmd = "restore" /\ Restore = [Restore EXCEPT !.config = Defaults]
    BY DEF Restore
  <2>3. answers' = <<[Restore EXCEPT !.config = Page(disk)]>>
    BY <2>1, <2>2, OneInQueue DEF Page
  <2>4. QED
    BY <2>1, <2>3 DEF QuietInv, Starting
<1>4. CASE RunSave \/ SaveMerged
  <2>1. calls # <<>> => Head(calls).cmd = "restore"
    BY OneInQueue DEF Starting, Restore
  <2>2. answers # <<>> => Head(answers).cmd = "restore"
    BY OneInQueue DEF Starting, Restore
  <2>3. QED
    BY <1>4, <2>1, <2>2 DEF RunSave, SaveMerged
<1>5. ASSUME NEW k \in Keys, NEW v \in Values(k), Edit(k, v)
      PROVE  FALSE
  BY <1>1, <1>5 DEF Edit
<1>6. CASE Mount \/ Exit
  BY <1>6 DEF Mount, Exit
<1>7. CASE UNCHANGED vars
  BY <1>7 DEF vars, session, QuietInv, Starting
<1>8. QED
  BY <1>2, <1>3, <1>4, <1>5, <1>6, <1>7 DEF Next

LEMMA QuietAgreed ==
  ASSUME TypeInv, running, Agreed, [Next]_vars, running', MaxOverlap \in 0..1
  PROVE  QuietInv'
<1>1. disk \in Config \cup {Torn} /\ ui \in Config
  BY DEF TypeInv, TypeOK
<1>2. CASE Restored
  <2>1. /\ Head(answers) \in GoodAnswers(disk) /\ answers' \in Seq(GoodAnswers(disk))
        /\ Head(answers).cmd = "restore"
        /\ calls \in Seq(GoodCalls(disk))
        /\ loaded' /\ UNCHANGED disk
        /\ ui' = Overlaid(Head(answers).config, ui)
        /\ calls' = calls \o SaveLists(ui')
    BY <1>2, FirstOf DEF Restored, Overlaid, Agreed, Undisturbed
  <2>2. Head(answers).config = Page(disk) /\ Page(disk) \in Config
    BY <1>1, <2>1, ConfigOf DEF GoodAnswers, Page
  <2>3. ui' \in Config /\ (disk # Torn => ui' = disk)
    BY <1>1, <2>1, <2>2, RestoredIsPage, OverlaidIsConfig DEF Agreed, Page
  <2>4. SaveLists(ui') \in Seq(GoodCalls(disk))
    BY <1>1, <2>3, SaveListsAreGood
  <2>5. calls' \in Seq(GoodCalls(disk))
    BY <2>1, <2>4, ConcatProperties
  <2>6. QED
    BY <2>1, <2>3, <2>5 DEF QuietInv, Agreed, Undisturbed
<1>3. CASE SaveMerged
  BY <1>3, UndisturbedSave DEF SaveMerged, Agreed, QuietInv
<1>4. CASE RunLoad \/ RunSave
  <2>1. UNCHANGED <<ui, loaded>>
    <3>1. CASE RunLoad
      BY <3>1 DEF RunLoad
    <3>2. CASE RunSave
      BY <3>2 DEF RunSave
    <3>3. QED
      BY <1>4, <3>1, <3>2
  <2>2. QED
    BY <1>4, <2>1, UndisturbedRun DEF Agreed, QuietInv
<1>5. ASSUME NEW k \in Keys, NEW v \in Values(k), Edit(k, v)
      PROVE  QuietInv'
  <2>1. /\ calls \in Seq(GoodCalls(disk)) /\ answers \in Seq(GoodAnswers(disk))
        /\ Len(calls) + Len(answers) < 1
    BY <1>5 DEF Edit, Agreed, Undisturbed
  <2>2. calls = <<>> /\ answers = <<>>
    BY <2>1, EmptySeq, LenProperties
  <2>3. /\ calls' = <<Load(k, v)>> /\ answers' = <<>>
        /\ ui' = [ui EXCEPT ![k] = v] /\ loaded' /\ UNCHANGED disk
    BY <1>5, <2>2, OneInQueue DEF Edit, Agreed
  <2>4. CASE disk = Torn
    <3>1. Load(k, v) \in GoodCalls(disk)
      BY <2>4, LoadIsCall DEF GoodCalls, Load
    <3>2. calls' \in Seq(GoodCalls(disk)) /\ answers' \in Seq(GoodAnswers(disk))
      BY <2>3, <3>1
    <3>3. QED
      BY <2>3, <2>4, <3>2 DEF QuietInv, Agreed, Undisturbed
  <2>5. CASE disk # Torn
    <3>1. ui' = [disk EXCEPT ![k] = v]
      BY <2>3, <2>5 DEF Agreed
    <3>2. QED
      BY <2>3, <2>5, <3>1 DEF QuietInv, Saving, Asked
  <2>6. QED
    BY <2>4, <2>5
<1>6. CASE Mount \/ Exit
  BY <1>6 DEF Mount, Exit
<1>7. CASE UNCHANGED vars
  BY <1>7 DEF vars, session, QuietInv, Agreed, Undisturbed
<1>8. QED
  BY <1>2, <1>3, <1>4, <1>5, <1>6, <1>7 DEF Next

LEMMA QuietSaving ==
  ASSUME TypeInv, running, Saving, [Next]_vars, running', MaxOverlap \in 0..1
  PROVE  QuietInv'
<1>k. PICK k \in Keys : \E v \in Values(k) :
        /\ ui = [disk EXCEPT ![k] = v]
        /\ \/ calls = <<Asked(k, v)>> /\ answers = <<>>
           \/ calls = <<>> /\ answers = <<Loaded(k, v)>>
           \/ calls = <<Written(k, v)>> /\ answers = <<>>
  BY DEF Saving
<1>1. PICK v \in Values(k) :
        /\ ui = [disk EXCEPT ![k] = v]
        /\ \/ calls = <<Asked(k, v)>> /\ answers = <<>>
           \/ calls = <<>> /\ answers = <<Loaded(k, v)>>
           \/ calls = <<Written(k, v)>> /\ answers = <<>>
  BY <1>k
<1>2. loaded /\ disk # Torn /\ disk \in Config
  BY DEF Saving, TypeInv, TypeOK
<1>3. Len(calls) + Len(answers) = 1
  BY <1>1, OneUnderWay
<1>4. /\ Asked(k, v).cmd = "load" /\ Loaded(k, v).cmd = "load" /\ Written(k, v).cmd = "save"
      /\ Loaded(k, v).config = disk /\ Loaded(k, v).key = k /\ Loaded(k, v).value = v
      /\ Written(k, v).config = ui
  BY DEF Asked, Loaded, Written, Load
<1>5. CASE RunLoad
  <2>1. /\ calls = <<Asked(k, v)>> /\ answers = <<>>
        /\ calls' = <<>> /\ UNCHANGED <<disk, ui, loaded>>
        /\ answers' = <<[Asked(k, v) EXCEPT !.config = disk]>>
    <3>1. calls # <<>> /\ Head(calls).cmd \in {"restore", "load"}
      BY <1>5 DEF RunLoad
    <3>2. calls # <<Written(k, v)>>
      BY <1>4, <3>1, OneInQueue
    <3>3. calls = <<Asked(k, v)>> /\ answers = <<>>
      BY <1>1, <3>1, <3>2
    <3>4. Head(calls) = Asked(k, v) /\ Tail(calls) = <<>>
      BY <3>3, OneInQueue
    <3>5. calls' = <<>> /\ UNCHANGED <<disk, ui, loaded>>
      BY <1>5, <3>4 DEF RunLoad
    <3>6. answers' = Append(<<>>, [Asked(k, v) EXCEPT !.config = disk])
      BY <1>2, <1>5, <3>3, <3>4 DEF RunLoad
    <3>7. QED
      BY <3>3, <3>5, <3>6, OneInQueue
  <2>2. answers' = <<Loaded(k, v)'>>
    BY <2>1 DEF Asked, Loaded
  <2>3. QED
    BY <1>1, <1>2, <2>1, <2>2 DEF QuietInv, Saving
<1>6. CASE SaveMerged
  <2> DEFINE a == Loaded(k, v)
  <2>1. /\ calls = <<>> /\ answers = <<a>>
        /\ answers' = <<>> /\ UNCHANGED <<disk, ui, loaded>>
        /\ calls' = <<[a EXCEPT !.cmd = "save", !.config = Merged(a.config, a.key, a.value)]>>
    BY <1>1, <1>4, <1>6, OneInQueue DEF SaveMerged
  <2>2. Merged(a.config, a.key, a.value) = ui
    BY <1>1, <1>4 DEF Merged
  <2>3. calls' = <<Written(k, v)'>>
    BY <2>1, <2>2 DEF Loaded, Written, Load
  <2>4. QED
    BY <1>1, <1>2, <2>1, <2>3 DEF QuietInv, Saving
<1>7. CASE RunSave
  <2>1. /\ calls' = <<>> /\ answers' = <<>> /\ disk' = ui /\ UNCHANGED <<ui, loaded>>
    BY <1>1, <1>4, <1>7, OneInQueue DEF RunSave
  <2>2. calls' \in Seq(GoodCalls(disk')) /\ answers' \in Seq(GoodAnswers(disk'))
    BY <2>1, EmptySeq
  <2>3. QED
    BY <1>2, <2>1, <2>2 DEF QuietInv, Agreed, Undisturbed
<1>8. CASE Restored
  BY <1>1, <1>4, <1>8, OneInQueue DEF Restored
<1>9. ASSUME NEW x \in Keys, NEW y \in Values(x), Edit(x, y)
      PROVE  FALSE
  BY <1>3, <1>9 DEF Edit
<1>10. CASE Mount \/ Exit
  BY <1>10 DEF Mount, Exit
<1>11. CASE UNCHANGED vars
  BY <1>11 DEF vars, session, QuietInv, Saving, Loaded, Written
<1>12. QED
  BY <1>5, <1>6, <1>7, <1>8, <1>9, <1>10, <1>11 DEF Next

\* If no edit is made while a save is under way (config_key_lost is about those), the
\* file has what the page shows once every save has come back, for any number of edits.
THEOREM PatientUserIsSaved ==
  ASSUME MaxOverlap \in 0..1
  PROVE  Spec => []SavedWhenQuiet
<1>1. Init => QuietInv
  BY DEF Init, QuietInv
<1>2. TypeInv /\ QuietInv /\ [Next]_vars => QuietInv'
  <2> SUFFICES ASSUME TypeInv, QuietInv, [Next]_vars, running'
               PROVE  QuietInv'
    BY DEF QuietInv
  <2>1. CASE running
    BY <2>1, QuietStarting, QuietAgreed, QuietSaving DEF QuietInv
  <2>2. CASE ~running
    <3>1. CASE Mount
      BY <3>1 DEF Mount, QuietInv, Starting
    <3>2. CASE RunLoad \/ RunSave \/ Restored \/ SaveMerged
      BY <2>2, <3>2 DEF RunLoad, RunSave, Restored, SaveMerged
    <3>3. ASSUME NEW k \in Keys, NEW v \in Values(k), Edit(k, v)
          PROVE  FALSE
      BY <2>2, <3>3 DEF Edit
    <3>4. CASE Exit
      BY <3>4 DEF Exit
    <3>5. CASE UNCHANGED vars
      BY <2>2, <3>5 DEF vars, session
    <3>6. QED
      BY <3>1, <3>2, <3>3, <3>4, <3>5 DEF Next
  <2>3. QED
    BY <2>1, <2>2
<1>3. QuietInv => SavedWhenQuiet
  BY OneInQueue DEF QuietInv, Starting, Agreed, Saving, SavedWhenQuiet
<1>4. QED
  BY <1>1, <1>2, <1>3, TypeInvariant, PTL DEF Spec
=============================================================================
