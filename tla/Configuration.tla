---------------------------- MODULE Configuration ----------------------------
(***************************************************************************)
(* The configuration in force and its reload (config.rs, run and           *)
(* apply_reload in app.rs): an operator edits the file and sends SIGHUP, a *)
(* task reads and validates the file and then replaces the configuration,  *)
(* or not.  What a reload does to sessions is in Sessions.tla.             *)
(***************************************************************************)
EXTENDS Naturals, Sequences

CONSTANTS
  Files,    \* contents the configuration file may have
  FirstFile,\* the one the process started with
  MaxTTL,   \* longest session lifetime (7 days)
  MaxEdits, \* bound: edits an operator makes
  None

\* A configuration, reduced to what decides something here: restart stands for
\* the settings that need a restart (listeners, storage, token_dir, public_url,
\* max_upload_bytes), wellFormed for the checks of text and addresses (the file
\* parses, URLs, names, paths, network limits), among them those that compare
\* two settings: listeners that differ, the files and URLs that an enabled way of
\* logging in needs, and https where OIDC is on.
Configurations ==
  [wellFormed : BOOLEAN,
   restart    : STRING,
   namespaces : Seq([name : STRING, push_networks : SUBSET STRING]),
   trusted    : SUBSET STRING,
   max_hops   : Nat,
   auth       : BOOLEAN,
   local      : BOOLEAN,
   oidc       : BOOLEAN,
   interval   : Nat,
   ttl        : Nat,
   mappings   : SUBSET [admin : BOOLEAN, namespaces : SUBSET STRING]]

Names(c) == {c.namespaces[i].name : i \in DOMAIN c.namespaces}

\* Config::validate.
validate(c) ==
  /\ c.wellFormed
  /\ c.interval > 0
  /\ c.oidc => c.interval < c.ttl
  /\ c.max_hops > 0
  /\ \A i, j \in DOMAIN c.namespaces :
       c.namespaces[i].name = c.namespaces[j].name => i = j
  /\ c.ttl \in 1 .. MaxTTL
  /\ c.auth => c.local \/ c.oidc
  /\ \A m \in c.mappings :
       (m.admin => m.namespaces = {}) /\ m.namespaces \subseteq Names(c)

ASSUME ConfigurationAssumption ==
  /\ Files \subseteq Configurations
  /\ FirstFile \in Files
  /\ validate(FirstFile)
  /\ MaxTTL \in Nat
  /\ MaxEdits \in Nat
  /\ None \notin Files

VARIABLES
  file,      \* what the configuration file says
  hangup,    \* SIGHUP was sent and not yet received by the reload task
  candidate, \* a validated configuration on its way to apply_reload, or None
  config,    \* the configuration in force
  edits      \* edits made so far

configVars == <<file, hangup, candidate, config, edits>>

ConfigInit ==
  /\ file = FirstFile
  /\ hangup = FALSE
  /\ candidate = None
  /\ config = FirstFile
  /\ edits = 0

EditFile(c) ==
  /\ edits < MaxEdits
  /\ c # file
  /\ file' = c
  /\ edits' = edits + 1
  /\ UNCHANGED <<hangup, candidate, config>>

\* Signals are not counted: one that is sent while another waits is the same.
SendHangup ==
  /\ ~hangup
  /\ hangup' = TRUE
  /\ UNCHANGED <<file, candidate, config, edits>>

\* The reload task receives the signal and loads the file; an error is logged.
LoadFile ==
  /\ hangup
  /\ candidate = None
  /\ hangup' = FALSE
  /\ candidate' = IF validate(file) THEN file ELSE None
  /\ UNCHANGED <<file, config, edits>>

\* Mutation: the file is read again after it was validated.
ApplyFile ==
  /\ candidate # None
  /\ config' = IF file.restart = config.restart THEN file ELSE config
  /\ candidate' = None
  /\ UNCHANGED <<file, hangup, edits>>

\* Mutation: a signal that came during the reload is taken for its own.
ApplyForgetsSignal ==
  /\ candidate # None
  /\ config' = IF candidate.restart = config.restart THEN candidate ELSE config
  /\ candidate' = None
  /\ hangup' = FALSE
  /\ UNCHANGED <<file, edits>>

\* apply_reload, once it has the gate: all of the candidate, or nothing.
ApplyReload ==
  /\ candidate # None
  /\ config' = IF candidate.restart = config.restart THEN candidate ELSE config
  /\ candidate' = None
  /\ UNCHANGED <<file, hangup, edits>>

Operator == SendHangup \/ \E c \in Files : EditFile(c)
Reload == LoadFile \/ ApplyReload

-----------------------------------------------------------------------------
\* The configuration in force is one that was validated as a whole, whatever
\* was written to the file while it was loaded and applied, and nothing in it
\* that needs a restart has changed since the start.
ConfigurationIsSound == validate(config) /\ config.restart = FirstFile.restart

\* A file that is valid and needs no restart is in force some time after a
\* SIGHUP, unless it is edited again: a signal that arrives while an earlier
\* one is being handled is not lost.
HangupTakesEffect ==
  \A c \in Files :
    hangup /\ file = c /\ validate(c) /\ c.restart = FirstFile.restart
      ~> config = c \/ file # c
=============================================================================
