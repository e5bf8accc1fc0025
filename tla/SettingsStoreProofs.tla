------------------------ MODULE SettingsStoreProofs ------------------------
(***************************************************************************)
(* Proofs about SettingsStore, for any accounts, options and admins: types *)
(* and the three properties, from one inductive invariant.                 *)
(***************************************************************************)
EXTENDS SettingsStore, TLAPS

-----------------------------------------------------------------------------
(* What a merge of two levels is.                                          *)

LEMMA PartialFunctions ==
  \A S, T :
    /\ \A f \in PartialFunction(S, T) :
         /\ DOMAIN f \subseteq S /\ f = [k \in DOMAIN f |-> f[k]]
         /\ \A k \in DOMAIN f : f[k] \in T
    /\ \A D \in SUBSET S : \A f \in [D -> T] : f \in PartialFunction(S, T)
  BY DEF PartialFunction

LEMMA MergedTypes ==
  \A S, T : \A f, g \in PartialFunction(S, T) : Merged(f, g) \in PartialFunction(S, T)
  <1> SUFFICES ASSUME NEW S, NEW T, NEW f \in PartialFunction(S, T), NEW g \in PartialFunction(S, T)
               PROVE  Merged(f, g) \in PartialFunction(S, T)
    OBVIOUS
  <1> DEFINE D == DOMAIN f \cup DOMAIN g
  <1>1. D \in SUBSET S /\ Merged(f, g) \in [D -> T]
    BY PartialFunctions DEF Merged
  <1> QED BY <1>1, PartialFunctions

LEMMA MergedKeys ==
  \A f, g : /\ DOMAIN Merged(f, g) = DOMAIN f \cup DOMAIN g
            /\ \A k \in DOMAIN g : Merged(f, g)[k] = g[k]
            /\ \A k \in DOMAIN f \ DOMAIN g : Merged(f, g)[k] = f[k]
  BY DEF Merged

\* Nothing of the base is left where the override has every key of it.
LEMMA MergedOver ==
  \A S, T : \A f, g \in PartialFunction(S, T) :
    DOMAIN f \subseteq DOMAIN g => Merged(f, g) = g
  <1> SUFFICES ASSUME NEW S, NEW T, NEW f \in PartialFunction(S, T), NEW g \in PartialFunction(S, T),
                      DOMAIN f \subseteq DOMAIN g
               PROVE  Merged(f, g) = g
    OBVIOUS
  <1>1. DOMAIN f \cup DOMAIN g = DOMAIN g
    OBVIOUS
  <1>2. Merged(f, g) = [k \in DOMAIN g |-> g[k]]
    BY <1>1 DEF Merged
  <1> QED BY <1>2, PartialFunctions

LEMMA MergeTypes ==
  ASSUME NEW b \in Sections, NEW o \in Sections
  PROVE  /\ Merge(b, o) \in Sections
         /\ Merge(b, o).options = Merged(b.options, o.options)
         /\ Merge(b, o).overrides = Merged(b.overrides, o.overrides)
         /\ b \in Settings => Merge(b, o) \in Settings
  <1>1. /\ Merged(b.options, o.options) \in PartialFunction(Options, Values)
        /\ DOMAIN Merged(b.options, o.options) = DOMAIN b.options \cup DOMAIN o.options
        /\ DOMAIN o.options \subseteq Options
    <2>1. /\ b.options \in PartialFunction(Options, Values)
          /\ o.options \in PartialFunction(Options, Values)
      BY DEF Sections
    <2> QED BY <2>1, MergedTypes, MergedKeys, PartialFunctions
  <1>2. Merged(b.overrides, o.overrides) \in PartialFunction(Accounts, Enabled)
    BY MergedTypes DEF Sections
  <1> QED BY <1>1, <1>2 DEF Merge, Sections, Settings

LEMMA MergeOver ==
  ASSUME NEW b \in Settings, NEW o \in Settings, DOMAIN b.overrides \subseteq DOMAIN o.overrides
  PROVE  Merge(b, o) = o
  <1>1. Merged(b.options, o.options) = o.options
    BY MergedOver DEF Settings, Sections
  <1>2. Merged(b.overrides, o.overrides) = o.overrides
    BY MergedOver DEF Settings, Sections
  <1> QED BY <1>1, <1>2 DEF Merge, Settings, Sections

LEMMA Constants ==
  /\ Pristine \in Settings /\ DOMAIN Pristine.overrides = {}
  /\ Unsaved \notin Settings /\ Closed \notin Sections
  <1>1. Pristine.options \in PartialFunction(Options, Values)
    BY PartialFunctions, SettingsAssumption DEF Pristine
  <1>2. Pristine.overrides \in PartialFunction(Accounts, Enabled)
    <2>1. [a \in {} |-> "enabled"] \in [{} -> Enabled]
      BY DEF Enabled
    <2>2. {} \in SUBSET Accounts
      OBVIOUS
    <2>3. Pristine.overrides = [a \in {} |-> "enabled"]
      BY DEF Pristine
    <2>4. Pristine.overrides \in [{} -> Enabled]
      BY <2>1, <2>3
    <2> QED BY <2>2, <2>4, PartialFunctions
  <1> QED BY <1>1, <1>2 DEF Pristine, Settings, Sections, Unsaved, Closed

-----------------------------------------------------------------------------
(* The invariant.                                                          *)

\* The defaults of the API keep their options; overrides get into them only
\* where a decision failed before anything was saved, and what is saved then
\* covers them.
DefaultsCovered ==
  /\ defaults.options = Pristine.options
  /\ IF saved = Unsaved THEN DOMAIN defaults.overrides \subseteq unsaved
                        ELSE DOMAIN defaults.overrides \subseteq DOMAIN saved.overrides

\* Overrides like the decisions, for these accounts.
Shows(overrides, accounts) ==
  \A a \in accounts \ (undone \cup unsaved) :
    IF decided[a] = NoDecision THEN a \notin DOMAIN overrides
                               ELSE a \in DOMAIN overrides /\ overrides[a] = decided[a]

SavedAsDecided ==
  IF saved = Unsaved THEN \A a \in Accounts : decided[a] = NoDecision
                     ELSE Shows(saved.overrides, Accounts)

FormsAsDecided ==
  \A d \in Admins : form[d] # Closed => Shows(form[d].overrides, shows[d])

Inv == TypeOK /\ DefaultsCovered /\ SavedAsDecided /\ FormsAsDecided

\* With anything saved, both processes read just that.
LEMMA Reads ==
  ASSUME Inv
  PROVE  /\ saved = Unsaved => Read(defaults) = defaults /\ Read(Pristine) = Pristine
         /\ saved # Unsaved => Read(defaults) = saved /\ Read(Pristine) = saved
         /\ Read(defaults) \in Settings /\ Read(Pristine) \in Settings
  BY MergeOver, Constants DEF Inv, TypeOK, DefaultsCovered, Read

\* What the API reads shows the decisions.
LEMMA ReadShows ==
  ASSUME Inv
  PROVE  Shows(Read(defaults).overrides, Accounts)
  BY Reads DEF Inv, SavedAsDecided, DefaultsCovered, Shows

LEMMA InitHolds == ASSUME Init PROVE Inv
  BY Constants DEF Init, Inv, TypeOK, DefaultsCovered, SavedAsDecided, FormsAsDecided, NoDecision

\* The overrides that a pause or resume writes.
LEMMA WithTypes ==
  ASSUME Inv, NEW a \in Accounts, NEW e \in Enabled
  PROVE  /\ With(a, e) \in PartialFunction(Accounts, Enabled)
         /\ DOMAIN With(a, e) = DOMAIN Read(defaults).overrides \cup {a}
         /\ With(a, e)[a] = e
         /\ \A b \in DOMAIN Read(defaults).overrides \ {a} :
              With(a, e)[b] = Read(defaults).overrides[b]
         /\ OverridesOnly(With(a, e)) \in Sections
         /\ OverridesOnly(With(a, e)).overrides = With(a, e)
         /\ DOMAIN OverridesOnly(With(a, e)).options = {}
  <1> DEFINE D == DOMAIN Read(defaults).overrides \cup {a}
  <1>1. Read(defaults).overrides \in PartialFunction(Accounts, Enabled)
    BY Reads DEF Settings, Sections
  <1>2. /\ DOMAIN Read(defaults).overrides \subseteq Accounts
        /\ \A b \in DOMAIN Read(defaults).overrides : Read(defaults).overrides[b] \in Enabled
    BY <1>1, PartialFunctions
  <1>3. D \in SUBSET Accounts /\ With(a, e) \in [D -> Enabled]
    BY <1>2 DEF With
  <1>4. With(a, e) \in PartialFunction(Accounts, Enabled)
    BY <1>3, PartialFunctions
  <1>5. [o \in {} |-> Default] \in PartialFunction(Options, Values)
    <2>1. {} \in SUBSET Options /\ [o \in {} |-> Default] \in [{} -> Values]
      OBVIOUS
    <2> QED BY <2>1, PartialFunctions
  <1> QED BY <1>4, <1>5 DEF With, OverridesOnly, Sections

\* What a write of these settings leaves behind.
LEMMA UpdateTypes ==
  ASSUME NEW b \in Settings, Read(b) \in Settings, NEW partial \in Sections,
         Update(b, partial)
  PROVE  /\ saved' \in Settings /\ saved' # Unsaved
         /\ saved'.options = Merged(Read(b).options, partial.options)
         /\ saved'.overrides = Merged(Read(b).overrides, partial.overrides)
         /\ DOMAIN saved'.overrides = DOMAIN Read(b).overrides \cup DOMAIN partial.overrides
         /\ \A a \in DOMAIN partial.overrides : saved'.overrides[a] = partial.overrides[a]
         /\ \A a \in DOMAIN Read(b).overrides \ DOMAIN partial.overrides :
              saved'.overrides[a] = Read(b).overrides[a]
  <1>1. Read(b) \in Sections
    BY DEF Settings
  <1>2. /\ saved' \in Settings
        /\ saved'.options = Merged(Read(b).options, partial.options)
        /\ saved'.overrides = Merged(Read(b).overrides, partial.overrides)
    BY <1>1, MergeTypes DEF Update
  <1> DEFINE new == Merged(Read(b).overrides, partial.overrides)
  <1>3. /\ DOMAIN new = DOMAIN Read(b).overrides \cup DOMAIN partial.overrides
        /\ \A a \in DOMAIN partial.overrides : new[a] = partial.overrides[a]
        /\ \A a \in DOMAIN Read(b).overrides \ DOMAIN partial.overrides :
             new[a] = Read(b).overrides[a]
    BY DEF Merged
  <1>4. saved' # Unsaved
    BY <1>2, Constants
  <1>5. saved'.overrides = new
    BY <1>2
  <1> HIDE DEF new
  <1>6. /\ DOMAIN saved'.overrides = DOMAIN Read(b).overrides \cup DOMAIN partial.overrides
        /\ \A a \in DOMAIN partial.overrides : saved'.overrides[a] = partial.overrides[a]
        /\ \A a \in DOMAIN Read(b).overrides \ DOMAIN partial.overrides :
             saved'.overrides[a] = Read(b).overrides[a]
    BY <1>3, <1>5
  <1> QED BY <1>2, <1>4, <1>6

\* A pause or resume that is saved.
LEMMA DecideKeeps ==
  ASSUME Inv, NEW a \in Accounts, NEW e \in Enabled, Decide(a, e)
  PROVE  /\ Inv' /\ saved' # Unsaved
         /\ saved'.options = Merged(Read(defaults).options, [o \in {} |-> Default])
  <1> DEFINE overrides == With(a, e)
             read == Read(defaults).overrides
  <1>1. /\ defaults' \in Settings /\ defaults'.options = defaults.options
        /\ defaults'.overrides = IF saved = Unsaved THEN overrides ELSE defaults.overrides
    BY WithTypes DEF Inv, TypeOK, Decide, Shared, Settings, Sections
  <1>2. /\ Read(defaults') \in Settings /\ Read(defaults').options = Read(defaults).options
        /\ Read(defaults').overrides = IF saved = Unsaved THEN overrides ELSE read
    BY <1>1, Reads DEF Inv, TypeOK, Decide, Shared, Read
  <1>3. /\ saved' \in Settings /\ saved' # Unsaved
        /\ saved'.options = Merged(Read(defaults).options, [o \in {} |-> Default])
        /\ DOMAIN saved'.overrides = DOMAIN read \cup {a}
        /\ saved'.overrides[a] = e
        /\ \A b \in DOMAIN read \ {a} : saved'.overrides[b] = read[b]
    <2>1. Update(defaults', OverridesOnly(overrides))
      BY DEF Decide
    <2>2. OverridesOnly(overrides).options = [o \in {} |-> Default]
      BY DEF OverridesOnly
    <2>3. /\ OverridesOnly(overrides) \in Sections
          /\ OverridesOnly(overrides).overrides = overrides
          /\ DOMAIN overrides = DOMAIN read \cup {a} /\ overrides[a] = e
          /\ \A b \in DOMAIN read \ {a} : overrides[b] = read[b]
      BY WithTypes
    <2> HIDE DEF overrides
    <2>4. /\ saved' \in Settings /\ saved' # Unsaved
          /\ saved'.options = Merged(Read(defaults').options, OverridesOnly(overrides).options)
          /\ DOMAIN saved'.overrides = DOMAIN Read(defaults').overrides \cup DOMAIN overrides
          /\ \A b \in DOMAIN overrides : saved'.overrides[b] = overrides[b]
      BY <1>1, <1>2, <2>1, <2>3, UpdateTypes
    <2> HIDE DEF read
    <2>5. DOMAIN saved'.overrides = DOMAIN overrides
      BY <1>2, <2>3, <2>4
    <2>6. saved'.options = Merged(Read(defaults).options, [o \in {} |-> Default])
      BY <1>2, <2>2, <2>4
    <2> QED BY <2>3, <2>4, <2>5, <2>6
  <1>4. TypeOK'
    BY <1>1, <1>3 DEF Inv, TypeOK, Decide
  <1>5. DefaultsCovered'
    <2>1. DOMAIN defaults'.overrides \subseteq DOMAIN saved'.overrides
      <3>1. CASE saved = Unsaved
        <4>1. DOMAIN overrides = DOMAIN read \cup {a}
          BY WithTypes
        <4> HIDE DEF overrides, read
        <4> QED BY <1>1, <1>3, <3>1, <4>1
      <3>2. CASE saved # Unsaved
        <4>1. read = saved.overrides
          BY <3>2, Reads
        <4>2. DOMAIN defaults.overrides \subseteq DOMAIN saved.overrides
          BY <3>2 DEF Inv, DefaultsCovered
        <4> HIDE DEF read
        <4> QED BY <1>1, <1>3, <3>2, <4>1, <4>2
      <3> QED BY <3>1, <3>2
    <2>2. defaults'.options = Pristine.options
      BY <1>1 DEF Inv, DefaultsCovered
    <2> QED BY <1>3, <2>1, <2>2 DEF DefaultsCovered, Pristine
  <1>6. SavedAsDecided'
    <2>1. ASSUME NEW b \in Accounts \ (undone' \cup unsaved'), b # a
          PROVE  /\ decided'[b] = decided[b] /\ b \notin undone \cup unsaved
                 /\ b \in DOMAIN read => b \in DOMAIN saved.overrides /\ saved # Unsaved
      BY <2>1, Reads DEF Inv, TypeOK, DefaultsCovered, Decide
    <2>2. ASSUME NEW b \in Accounts \ (undone' \cup unsaved'), b # a
          PROVE  IF decided'[b] = NoDecision
                 THEN b \notin DOMAIN saved'.overrides
                 ELSE b \in DOMAIN saved'.overrides /\ saved'.overrides[b] = decided'[b]
      BY <1>3, <2>1, <2>2, Reads DEF Inv, SavedAsDecided, Shows
    <2>3. decided'[a] = e /\ e # NoDecision
      BY DEF Inv, TypeOK, Decide, Enabled, NoDecision
    <2> QED BY <1>3, <2>2, <2>3 DEF SavedAsDecided, Shows
  <1>7. FormsAsDecided'
    <2>1. ASSUME NEW d \in Admins, form[d] # Closed
          PROVE  Shows(form[d].overrides, shows[d])
      BY <2>1 DEF Inv, FormsAsDecided
    <2>2. ASSUME NEW d \in Admins, NEW b \in shows'[d] \ (undone' \cup unsaved')
          PROVE  /\ b \in shows[d] \ (undone \cup unsaved) /\ decided'[b] = decided[b]
                 /\ form' = form
      BY <2>2 DEF Inv, TypeOK, Decide
    <2> QED BY <2>1, <2>2 DEF FormsAsDecided, Shows, Decide
  <1> QED BY <1>3, <1>4, <1>5, <1>6, <1>7 DEF Inv

\* One that cannot be saved.
LEMMA DecideFailsKeeps ==
  ASSUME Inv, NEW a \in Accounts, NEW e \in Enabled, DecideFails(a, e)
  PROVE  Inv'
  <1>1. /\ defaults' \in Settings /\ defaults'.options = defaults.options
        /\ defaults'.overrides = IF saved = Unsaved THEN With(a, e) ELSE defaults.overrides
    BY WithTypes DEF Inv, TypeOK, DecideFails, Shared, Settings, Sections
  <1>2. TypeOK'
    BY <1>1 DEF Inv, TypeOK, DecideFails
  <1>3. DefaultsCovered'
    <2>1. defaults'.options = Pristine'.options
      BY <1>1 DEF Inv, DefaultsCovered, Pristine
    <2>2. CASE saved = Unsaved
      <3>1. DOMAIN defaults'.overrides = DOMAIN defaults.overrides \cup {a}
        BY <1>1, <2>2, WithTypes, Reads
      <3> QED BY <2>1, <2>2, <3>1 DEF Inv, DefaultsCovered, DecideFails
    <2>3. CASE saved # Unsaved
      BY <1>1, <2>1, <2>3 DEF Inv, DefaultsCovered, DecideFails
    <2> QED BY <2>2, <2>3
  <1>4. SavedAsDecided' /\ FormsAsDecided'
    <2>1. unsaved \subseteq unsaved' /\ UNCHANGED <<saved, form, decided, undone, shows>>
      BY DEF DecideFails
    <2> QED BY <2>1 DEF Inv, SavedAsDecided, FormsAsDecided, Shows
  <1> QED BY <1>2, <1>3, <1>4 DEF Inv

\* A form that is loaded shows the decisions of which the API knows.
LEMMA LoadKeeps ==
  ASSUME Inv, NEW d \in Admins, Load(d)
  PROVE  Inv'
  <1>1. Read(defaults) \in Sections /\ form \in [Admins -> Sections \cup {Closed}]
    BY Reads DEF Settings, Inv, TypeOK
  <1>2. TypeOK'
    BY <1>1 DEF Inv, TypeOK, Load
  <1>4. FormsAsDecided'
    BY <1>1, ReadShows DEF Inv, TypeOK, FormsAsDecided, Shows, Load
  <1>5. DefaultsCovered' /\ SavedAsDecided'
    BY DEF Inv, DefaultsCovered, SavedAsDecided, Shows, Load, Pristine
  <1> QED BY <1>2, <1>4, <1>5 DEF Inv

\* Editing leaves the overrides in the form alone.
LEMMA EditKeeps ==
  ASSUME Inv, NEW d \in Admins, NEW options \in PartialFunction(Options, Values),
         Edit(d, options)
  PROVE  Inv'
  <1>1. form[d] \in Sections /\ form \in [Admins -> Sections \cup {Closed}]
    BY DEF Inv, TypeOK, Edit
  <1>2. /\ form' \in [Admins -> Sections \cup {Closed}] /\ form'[d].overrides = form[d].overrides
        /\ \A c \in Admins \ {d} : form'[c] = form[c]
    BY <1>1 DEF Edit, Sections
  <1>3. TypeOK'
    BY <1>2 DEF Inv, TypeOK, Edit, history
  <1>4. FormsAsDecided'
    BY <1>2 DEF Inv, FormsAsDecided, Shows, Edit, history
  <1>5. DefaultsCovered' /\ SavedAsDecided'
    BY DEF Inv, DefaultsCovered, SavedAsDecided, Shows, Edit, history, Pristine
  <1> QED BY <1>3, <1>4, <1>5 DEF Inv

\* A form that is saved brings back what it lists of accounts decided since.
LEMMA SaveKeeps ==
  ASSUME Inv, NEW d \in Admins, Save(d)
  PROVE  /\ Inv' /\ saved' # Unsaved
         /\ saved'.options = Merged(Read(defaults).options, form[d].options)
  <1> DEFINE entered == form[d].overrides
             read == Read(defaults).overrides
  <1>1. /\ form[d] \in Sections /\ form \in [Admins -> Sections \cup {Closed}]
        /\ DOMAIN entered \subseteq Accounts
    <2>1. form[d] \in Sections /\ form \in [Admins -> Sections \cup {Closed}]
      BY DEF Inv, TypeOK, Save
    <2>2. entered \in PartialFunction(Accounts, Enabled)
      BY <2>1 DEF Sections
    <2> QED BY <2>1, <2>2, PartialFunctions
  <1>2. /\ saved' \in Settings /\ saved' # Unsaved
        /\ saved'.options = Merged(Read(defaults).options, form[d].options)
        /\ DOMAIN saved'.overrides = DOMAIN read \cup DOMAIN entered
        /\ \A a \in DOMAIN entered : saved'.overrides[a] = entered[a]
        /\ \A a \in DOMAIN read \ DOMAIN entered : saved'.overrides[a] = read[a]
    BY <1>1, Reads, UpdateTypes DEF Inv, TypeOK, Save
  <1>3. /\ form' = [form EXCEPT ![d] = saved']
        /\ undone' = undone \cup (DOMAIN entered \ shows[d])
        /\ shows' = [shows EXCEPT ![d] = Accounts]
        /\ UNCHANGED <<defaults, decided, unsaved>>
    BY DEF Save
  <1>4. TypeOK'
    BY <1>1, <1>2, <1>3 DEF Inv, TypeOK, Settings
  <1>5. DefaultsCovered'
    <2>1. DOMAIN defaults.overrides \subseteq DOMAIN read
      BY Reads DEF Inv, DefaultsCovered
    <2> HIDE DEF read, entered
    <2> QED BY <1>2, <1>3, <2>1 DEF Inv, DefaultsCovered, Pristine
  <1>6. Shows(saved.overrides, Accounts)'
    <2>1. Shows(read, Accounts) /\ Shows(entered, shows[d])
      BY ReadShows DEF Inv, FormsAsDecided, Save
    <2> HIDE DEF read, entered
    <2>2. ASSUME NEW a \in Accounts \ (undone' \cup unsaved')
          PROVE  IF decided'[a] = NoDecision
                 THEN a \notin DOMAIN saved'.overrides
                 ELSE a \in DOMAIN saved'.overrides /\ saved'.overrides[a] = decided'[a]
      <3>1. CASE a \in DOMAIN entered
        <4>1. a \in shows[d] \ (undone \cup unsaved)
          BY <1>3, <2>2, <3>1
        <4> QED BY <1>2, <1>3, <2>1, <3>1, <4>1 DEF Shows
      <3>2. CASE a \notin DOMAIN entered
        <4>1. a \in Accounts \ (undone \cup unsaved)
          BY <1>3, <2>2
        <4> QED BY <1>2, <1>3, <2>1, <3>2, <4>1 DEF Shows
      <3> QED BY <3>1, <3>2
    <2> QED BY <2>2 DEF Shows
  <1>7. SavedAsDecided'
    BY <1>2, <1>6 DEF SavedAsDecided, Shows
  <1>8. FormsAsDecided'
    <2>1. ASSUME NEW c \in Admins, form'[c] # Closed, c # d
          PROVE  Shows(form[c].overrides, shows[c]) /\ form'[c] = form[c] /\ shows'[c] = shows[c]
      BY <1>1, <1>3, <2>1 DEF Inv, TypeOK, FormsAsDecided
    <2>2. form'[d] = saved' /\ shows'[d] = Accounts
      BY <1>1, <1>3 DEF Inv, TypeOK
    <2>3. undone \subseteq undone' /\ unsaved' = unsaved /\ decided' = decided
      BY <1>3
    <2> QED BY <1>6, <2>1, <2>2, <2>3 DEF FormsAsDecided, Shows
  <1> QED BY <1>2, <1>4, <1>5, <1>7, <1>8 DEF Inv

LEMMA RestartKeeps ==
  ASSUME Inv, ApiRestarts
  PROVE  Inv'
  BY Constants DEF Inv, TypeOK, DefaultsCovered, SavedAsDecided, FormsAsDecided, Shows,
                   ApiRestarts, history, Pristine

LEMMA NextKeeps ==
  ASSUME Inv, [Next]_vars
  PROVE  Inv'
  <1>1. CASE UNCHANGED vars
    BY <1>1 DEF Inv, TypeOK, DefaultsCovered, SavedAsDecided, FormsAsDecided, Shows, vars,
                history, Pristine
  <1> QED BY <1>1, DecideKeeps, DecideFailsKeeps, LoadKeeps, EditKeeps, SaveKeeps, RestartKeeps
          DEF Next

LEMMA InvHolds == Spec => []Inv
  BY InitHolds, NextKeeps, PTL DEF Spec

-----------------------------------------------------------------------------
(* The properties.                                                         *)

\* Every reachable state is well typed: the rows, once there are any, have
\* every option.
THEOREM TypeCorrect == Spec => []TypeOK
  BY InvHolds, PTL DEF Inv

\* Whatever fails to be saved, the API and the worker act on the same settings
\* from the first row on.
THEOREM ProcessesAgreeHolds == Spec => []ProcessesAgree
  <1>1. ASSUME Inv PROVE ProcessesAgree
    BY <1>1, Reads DEF Inv, DefaultsCovered, ProcessesAgree, ApiReads, WorkerReads
  <1> QED BY <1>1, InvHolds, PTL

\* A pause or resume stands until an older form is saved over it.
THEOREM AsDecidedHolds == Spec => []AsDecided
  <1>1. ASSUME Inv PROVE AsDecided
    <2>1. CASE saved = Unsaved
      BY <1>1, <2>1, Reads, Constants DEF Inv, SavedAsDecided, AsDecided, WorkerReads
    <2>2. CASE saved # Unsaved
      BY <1>1, <2>2, Reads DEF Inv, SavedAsDecided, Shows, AsDecided, WorkerReads
    <2> QED BY <2>1, <2>2
  <1> QED BY <1>1, InvHolds, PTL

\* The worker's options move only to what a form has in its fields, never by a
\* pause, a restart or a cleared field.
THEOREM OnlyAsEnteredHolds == Spec => OnlyAsEntered
  <1> DEFINE Entered(o) == \E d \in Admins : form[d] # Closed /\ o \in DOMAIN form[d].options
                             /\ WorkerReads'.options[o] = form[d].options[o]
             Step == \A o \in Options :
                       WorkerReads'.options[o] # WorkerReads.options[o] => Entered(o)
  <1>1. ASSUME Inv, Inv', [Next]_vars, NEW o \in Options,
               WorkerReads'.options[o] # WorkerReads.options[o]
        PROVE  Entered(o)
    <2>1. saved' # saved
      BY <1>1 DEF WorkerReads, Read, Pristine
    <2>2. saved' # Unsaved => WorkerReads' = saved'
      <3>1. saved' # Unsaved => saved' \in Settings /\ Merge(Pristine, saved') = saved'
        BY <1>1, MergeOver, Constants DEF Inv, TypeOK
      <3>2. WorkerReads' = IF saved' = Unsaved THEN Pristine ELSE Merge(Pristine, saved')
        BY DEF WorkerReads, Read, Pristine
      <3> QED BY <3>1, <3>2
    <2>3. /\ Read(defaults).options = WorkerReads.options
          /\ o \in DOMAIN Read(defaults).options
      BY <1>1, Reads DEF WorkerReads, Inv, DefaultsCovered, Settings
    <2>4. ASSUME NEW a \in Accounts, NEW e \in Enabled, Decide(a, e)
          PROVE  FALSE
      <3>1. /\ WorkerReads'.options = Merged(Read(defaults).options, [k \in {} |-> Default])
        BY <1>1, <2>2, <2>4, DecideKeeps
      <3>2. WorkerReads'.options[o] = Read(defaults).options[o]
        BY <2>3, <3>1 DEF Merged
      <3> QED BY <1>1, <2>3, <3>2
    <2>5. ASSUME NEW d \in Admins, Save(d)
          PROVE  Entered(o)
      <3>1. /\ WorkerReads'.options = Merged(Read(defaults).options, form[d].options)
            /\ form[d] # Closed
        BY <1>1, <2>2, <2>5, SaveKeeps DEF Save
      <3>2. IF o \in DOMAIN form[d].options
            THEN WorkerReads'.options[o] = form[d].options[o]
            ELSE WorkerReads'.options[o] = Read(defaults).options[o]
        BY <2>3, <3>1 DEF Merged
      <3> QED BY <1>1, <2>3, <3>1, <3>2
    <2> QED BY <1>1, <2>1, <2>4, <2>5
            DEF Next, DecideFails, Load, Edit, ApiRestarts, vars, history
  <1>2. ASSUME Inv, Inv', [Next]_vars PROVE [Step]_vars
    BY <1>1, <1>2
  <1> HIDE DEF Step
  <1>3. Spec => [][Step]_vars
    BY <1>2, InvHolds, PTL DEF Spec
  <1> QED BY <1>3 DEF Step, OnlyAsEntered

=============================================================================
