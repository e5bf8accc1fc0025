--------------------------- MODULE SettingsStore ---------------------------
(***************************************************************************)
(* The settings that admins change while the worker runs: the rows in the  *)
(* state database, merged over the defaults of each process that reads     *)
(* them (storage/settings_store.py), the two ways an admin writes them,    *)
(* pausing an account and saving the settings form (app/api.py), and the   *)
(* form, a copy loaded once (ui/src/components/SettingsPanel.jsx).         *)
(*                                                                         *)
(* The merge copies a level of the defaults only where rows override it.   *)
(* Before anything is saved, the overrides that the API hands to its own   *)
(* handlers are those of its defaults, and a handler that writes to them   *)
(* writes to the defaults.  Account status is AccountLifecycle's.          *)
(***************************************************************************)
EXTENDS FiniteSets

CONSTANTS
  Accounts,  \* account ids
  Options,   \* the keys of an ordinary section
  Values,    \* and what they may be
  Default,   \* the value of an option in DEFAULT_SETTINGS
  Admins     \* browsers with the settings form

ASSUME SettingsAssumption == Default \in Values

VARIABLES
  saved,     \* the rows of the settings table, or Unsaved
  defaults,  \* DEFAULT_SETTINGS of the API process
  form       \* of each admin: the copy of the settings in the form, or Closed

\* History.  Of each account: the last pause or resume that was saved, or
\* none; those for which a form has since been saved that listed the account
\* as it was before; those with a pause or resume that could not be saved
\* before anything was.  And the accounts whose last decision a form shows.
VARIABLES decided, undone, unsaved, shows

history == <<decided, undone, unsaved, shows>>
vars == <<saved, defaults, form, history>>

\* Functions from part of a set.
PartialFunction(S, T) == UNION {[D -> T] : D \in SUBSET S}

\* The enabled flag of an override.
Enabled == {"enabled", "disabled"}

\* One section stands for limits, warmup, outreach and replies; overrides is
\* accounts.overrides, with enabled for each account that has an override.
\* A section of the form may lack an option whose field was cleared.
Sections == [options : PartialFunction(Options, Values),
             overrides : PartialFunction(Accounts, Enabled)]
Settings == {s \in Sections : DOMAIN s.options = Options}

Unsaved == [rows |-> "none"]
Closed == [page |-> "other"]
NoDecision == "none"

Pristine == [options |-> [o \in Options |-> Default], overrides |-> [a \in {} |-> "enabled"]]

Init ==
  /\ saved = Unsaved /\ defaults = Pristine /\ form = [d \in Admins |-> Closed]
  /\ decided = [a \in Accounts |-> NoDecision]
  /\ undone = {} /\ unsaved = {} /\ shows = [d \in Admins |-> {}]

-----------------------------------------------------------------------------
(* SettingsStore.                                                          *)

\* Mutant: a section is replaced.
Replaced(base, override) == override

\* One level of _merge: what override has, and base where it has nothing.
Merged(base, override) ==
  [k \in DOMAIN base \cup DOMAIN override |->
     IF k \in DOMAIN override THEN override[k] ELSE base[k]]

\* _merge: section by section.
Merge(base, override) ==
  [options |-> Merged(base.options, override.options),
   overrides |-> Merged(base.overrides, override.overrides)]

\* get_settings, for a process with these defaults.
Read(base) == IF saved = Unsaved THEN base ELSE Merge(base, saved)

\* Mutant: the partial settings are merged over the defaults alone.
UpdateOverDefaults(base, partial) == saved' = Merge(base, partial)

\* update_settings: all sections are written in one transaction, or none.  It
\* does not roll back: a locked database refuses the first section, and of a
\* full disk the model expects that SQLite rolls back itself.
Update(base, partial) == saved' = Merge(Read(base), partial)

-----------------------------------------------------------------------------
(* Pausing and resuming.                                                   *)

\* Mutant: an override is written to the defaults at any time.
SharedAlways(overrides) == defaults' = [defaults EXCEPT !.overrides = overrides]

\* The handler writes to the overrides it has read, which are the defaults'
\* own while there are no rows.
Shared(overrides) ==
  defaults' = IF saved = Unsaved THEN [defaults EXCEPT !.overrides = overrides] ELSE defaults

\* The overrides as read, with this account's.
With(account, enabled) ==
  [a \in DOMAIN Read(defaults).overrides \cup {account} |->
     IF a = account THEN enabled ELSE Read(defaults).overrides[a]]

OverridesOnly(overrides) == [options |-> [o \in {} |-> Default], overrides |-> overrides]

\* pause_account and resume_account.
Decide(account, enabled) ==
  /\ Shared(With(account, enabled))
  /\ Update(defaults', OverridesOnly(With(account, enabled)))
  /\ decided' = [decided EXCEPT ![account] = enabled]
  /\ undone' = undone \ {account} /\ unsaved' = unsaved \ {account}
  /\ shows' = [d \in Admins |-> shows[d] \ {account}]
  /\ UNCHANGED form

\* The database is locked by the worker for longer than the timeout, or full.
DecideFails(account, enabled) ==
  /\ Shared(With(account, enabled))
  /\ unsaved' = IF saved = Unsaved THEN unsaved \cup {account} ELSE unsaved
  /\ UNCHANGED <<saved, form, decided, undone, shows>>

-----------------------------------------------------------------------------
(* The settings form.                                                      *)

\* GET /settings, when the panel is mounted.
Load(admin) ==
  /\ form' = [form EXCEPT ![admin] = Read(defaults)]
  /\ shows' = [shows EXCEPT ![admin] = Accounts]
  /\ UNCHANGED <<saved, defaults, decided, undone, unsaved>>

\* updateSection: a field is filled in, or cleared; what is undefined is not
\* sent.
Edit(admin, options) ==
  /\ form[admin] # Closed
  /\ form' = [form EXCEPT ![admin].options = options]
  /\ UNCHANGED <<saved, defaults, history>>

\* PUT /settings: the whole copy, overrides and all.  The form then shows what
\* has been saved.  A save that fails changes nothing.
Save(admin) ==
  /\ form[admin] # Closed
  /\ Update(defaults, form[admin])
  /\ form' = [form EXCEPT ![admin] = saved']
  /\ undone' = undone \cup (DOMAIN form[admin].overrides \ shows[admin])
  /\ shows' = [shows EXCEPT ![admin] = Accounts]
  /\ UNCHANGED <<defaults, decided, unsaved>>

-----------------------------------------------------------------------------

\* The API process starts again: its defaults are as written.
ApiRestarts == defaults' = Pristine /\ UNCHANGED <<saved, form, history>>

Next ==
  \/ \E a \in Accounts, enabled \in Enabled : Decide(a, enabled) \/ DecideFails(a, enabled)
  \/ \E d \in Admins : Load(d) \/ Save(d)
  \/ \E d \in Admins, options \in PartialFunction(Options, Values) : Edit(d, options)
  \/ ApiRestarts

Spec == Init /\ [][Next]_vars

-----------------------------------------------------------------------------
(* Properties.                                                             *)

TypeOK ==
  /\ saved \in Settings \cup {Unsaved} /\ defaults \in Settings
  /\ form \in [Admins -> Sections \cup {Closed}]
  /\ decided \in [Accounts -> Enabled \cup {NoDecision}]
  /\ undone \subseteq Accounts /\ unsaved \subseteq Accounts
  /\ shows \in [Admins -> SUBSET Accounts]

\* What the API shows and acts on, and what the worker acts on.
ApiReads == Read(defaults)
WorkerReads == Read(Pristine)

\* Once anything is saved, both processes have the same settings.  Before, they
\* differ in no more than overrides that could not be saved.
ProcessesAgree ==
  IF saved # Unsaved
  THEN ApiReads = WorkerReads
  ELSE /\ ApiReads.options = WorkerReads.options
       /\ DOMAIN ApiReads.overrides \subseteq unsaved

\* The worker has an account enabled or disabled as it was last decided, unless
\* a form that listed it as before was saved since, or, before anything was
\* saved, a decision on it failed and went in with a later write.
AsDecided ==
  \A a \in Accounts \ (undone \cup unsaved) :
    IF decided[a] = NoDecision
    THEN a \notin DOMAIN WorkerReads.overrides
    ELSE a \in DOMAIN WorkerReads.overrides /\ WorkerReads.overrides[a] = decided[a]

\* An option changes for the worker only to what a form has in its field: a
\* field that was cleared, and a pause, leave it as it is.
OnlyAsEntered ==
  [][\A o \in Options :
       WorkerReads'.options[o] # WorkerReads.options[o] =>
         \E d \in Admins : form[d] # Closed /\ o \in DOMAIN form[d].options
                           /\ WorkerReads'.options[o] = form[d].options[o]]_vars
=============================================================================
