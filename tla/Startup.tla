------------------------------ MODULE Startup ------------------------------
(***************************************************************************)
(* Start (server.go) and the TLS material it generates or reuses (tls.go). *)
(* The material is four files, written one after the other in a directory  *)
(* that outlives the server; a start that finds all four reuses them.  The *)
(* process may crash at any step, and each file operation may fail.        *)
(***************************************************************************)
EXTENDS Naturals, Sequences

CONSTANTS
  Configs,      \* the configurations servers are started with, see Config
  HostNames,    \* sets of them are what certificates are made for
  Missing,      \* there is no such file
  Torn,         \* the file is there, its content is not, or not all of it
  MaxStarts,    \* bound: starts
  MaxCrashes,   \* bound: crashes
  MaxFaults,    \* bound: operations that fail
  MaxDeletions  \* bound: files the operator deletes

\* What of Config decides about a start: whether the required options are there
\* and chaos is valid (the rest), the TLS address, which may be nothing but
\* white space, certificate and key files, and for generated material the host
\* names, with its directory or without.
Config ==
  [complete : BOOLEAN, listen : {"none", "blank", "address"}, cert : BOOLEAN, key : BOOLEAN,
   generated : BOOLEAN, directory : BOOLEAN, names : SUBSET HostNames]

ASSUME ConfigsAssumption == Configs \subseteq Config
ASSUME BoundsAssumption ==
  {MaxStarts, MaxCrashes, MaxFaults, MaxDeletions} \subseteq Nat
ASSUME FilesAssumption == Missing # Torn /\ {Missing, Torn} \cap Nat = {}

Files       == {"server.pem", "server.key", "ca.pem", "ca.key"}
RemoveOrder == <<"server.pem", "server.key", "ca.pem", "ca.key">>

\* Mutation: the certificate is written last.
CertificateLast == <<"ca.pem", "ca.key", "server.key", "server.pem">>
WriteOrder == <<"ca.pem", "ca.key", "server.pem", "server.key">>

VARIABLES
  place,      \* where the process stands, see Places
  step,       \* the file it removes or writes next
  config,     \* of the start
  listening,  \* the plaintext listener is open
  file,       \* what each file holds: the number of the generation it is of
  generation, \* how often material was generated
  madeFor,    \* the host names of each generation
  served,     \* the generation of the certificate that is served, <<>> for another

  \* Bounds and history: the last start met a failing operation.
  starts, crashes, faults, deletions, faulted

process == <<place, step, config, listening, served>>
disk    == <<file, generation, madeFor>>
counts  == <<starts, crashes, faults, deletions, faulted>>
vars    == <<process, disk, counts>>

Places ==
  {"down", "store", "listen", "material", "remove", "write", "fill", "load",
   "bind", "serving", "failed"}

Init ==
  /\ place = "down" /\ step = 1 /\ config \in Configs
  /\ listening = FALSE /\ served = <<>>
  /\ file = [f \in Files |-> Missing] /\ generation = 0 /\ madeFor = <<>>
  /\ starts = 0 /\ crashes = 0 /\ faults = 0 /\ deletions = 0 /\ faulted = FALSE

-----------------------------------------------------------------------------
(***************************************************************************)
(* TLSConfig.Validate, and normalized around it.  Validate trims the       *)
(* address; Start and load do not, so a blank one is refused only by load. *)
(***************************************************************************)
Validate(c) ==
  IF c.listen # "address" THEN ~c.cert /\ ~c.key /\ ~c.generated
  ELSE c.cert = c.key /\ c.cert # c.generated /\ (c.generated => c.directory)

normalized(c) == c.complete /\ Validate(c)

\* Mutations: the material counts as there when the certificate is; it never is.
CertificateExists == file["server.pem"] # Missing
NoneExists        == FALSE
\* Whether the files are there; a Stat that fails on one that is is in Material.
allFilesExist == \A f \in Files : file[f] # Missing

-----------------------------------------------------------------------------
GoTo(to, next) == place' = to /\ step' = next

\* Start returns an error, and has closed the plaintext listener.
Fail ==
  /\ GoTo("failed", 1)
  /\ listening' = FALSE /\ served' = <<>>
  /\ UNCHANGED <<config, starts, crashes, deletions>>

Works == UNCHANGED counts
Fault == faults < MaxFaults /\ faults' = faults + 1 /\ faulted' = TRUE

Begin(c) ==
  /\ place = "down" /\ starts < MaxStarts
  /\ starts' = starts + 1 /\ faulted' = FALSE
  /\ config' = c
  /\ GoTo(IF normalized(c) THEN "store" ELSE "failed", 1)
  /\ UNCHANGED <<listening, served, disk, crashes, faults, deletions>>

OpenStore ==
  /\ place = "store"
  /\ \/ GoTo("listen", 1) /\ Works /\ UNCHANGED <<config, listening, served>>
     \/ Fault /\ Fail
  /\ UNCHANGED disk

Listen ==
  /\ place = "listen"
  /\ \/ /\ GoTo(IF config.listen # "none" THEN "material" ELSE "serving", 1)
        /\ listening' = TRUE
        /\ Works /\ UNCHANGED <<config, served>>
     \/ Fault /\ Fail
  /\ UNCHANGED disk

(***************************************************************************)
(* ensureGeneratedTLS: reuse all four files, or remove what there is and   *)
(* write new ones.  os.WriteFile creates the file first and fills it then. *)
(* allFilesExist takes any error of os.Stat for a file that is not there:  *)
(* such a failure sends whole material to its removal.                     *)
(***************************************************************************)
Material ==
  /\ place = "material"
  /\ \/ /\ GoTo(IF config.generated /\ ~allFilesExist THEN "remove" ELSE "load", 1)
        /\ Works /\ UNCHANGED <<config, listening, served>>
     \/ config.generated /\ Fault /\ Fail
     \/ /\ config.generated /\ Fault /\ GoTo("remove", 1)
        /\ UNCHANGED <<config, listening, served, starts, crashes, deletions>>
  /\ UNCHANGED disk

LastStep == Len(WriteOrder)

Remove ==
  /\ place = "remove"
  /\ \/ /\ file' = [file EXCEPT ![RemoveOrder[step]] = Missing]
        /\ IF step < LastStep
           THEN GoTo("remove", step + 1) /\ UNCHANGED <<generation, madeFor>>
           ELSE /\ GoTo("write", 1)
                /\ generation' = generation + 1
                /\ madeFor' = Append(madeFor, config.names)
        /\ Works /\ UNCHANGED <<config, listening, served>>
     \/ Fault /\ Fail /\ UNCHANGED disk

Create ==
  /\ place = "write"
  /\ \/ /\ file' = [file EXCEPT ![WriteOrder[step]] = Torn]
        /\ GoTo("fill", step)
        /\ Works /\ UNCHANGED <<config, listening, served, generation, madeFor>>
     \/ Fault /\ Fail /\ UNCHANGED disk

Fill ==
  /\ place = "fill"
  /\ \/ /\ file' = [file EXCEPT ![WriteOrder[step]] = generation]
        /\ IF step < LastStep THEN GoTo("write", step + 1) ELSE GoTo("load", 1)
        /\ Works /\ UNCHANGED <<config, listening, served, generation, madeFor>>
     \/ Fault /\ Fail /\ UNCHANGED disk

\* tls.LoadX509KeyPair: both files can be read and the key is the certificate's.
PairFits ==
  file["server.pem"] \notin {Missing, Torn} /\ file["server.key"] = file["server.pem"]

\* Supplied files do; with a blank address there are none.
Loads == config.listen # "blank" /\ (config.generated => PairFits)

Load ==
  /\ place = "load"
  /\ \/ /\ Loads
        /\ GoTo("bind", 1)
        /\ served' = IF config.generated THEN <<file["server.pem"]>> ELSE <<>>
        /\ Works /\ UNCHANGED <<config, listening>>
     \/ ~Loads /\ Fail /\ UNCHANGED <<faults, faulted>>
     \/ Fault /\ Fail
  /\ UNCHANGED disk

Bind ==
  /\ place = "bind"
  /\ \/ GoTo("serving", 1) /\ Works /\ UNCHANGED <<config, listening, served>>
     \/ Fault /\ Fail
  /\ UNCHANGED disk

-----------------------------------------------------------------------------
\* Close, or the end of the process after an error.
Stop ==
  /\ place \in {"serving", "failed"}
  /\ GoTo("down", 1) /\ listening' = FALSE /\ served' = <<>>
  /\ UNCHANGED <<config, disk, counts>>

Crash ==
  /\ place \notin {"down", "failed"} /\ crashes < MaxCrashes
  /\ crashes' = crashes + 1
  /\ GoTo("down", 1) /\ listening' = FALSE /\ served' = <<>>
  /\ UNCHANGED <<config, disk, starts, faults, deletions, faulted>>

\* The operator deletes a file while no server runs.
Delete(f) ==
  /\ place = "down" /\ file[f] # Missing /\ deletions < MaxDeletions
  /\ deletions' = deletions + 1
  /\ file' = [file EXCEPT ![f] = Missing]
  /\ UNCHANGED <<process, generation, madeFor, starts, crashes, faults, faulted>>

Finished == place = "down" /\ starts = MaxStarts /\ UNCHANGED vars

Next ==
  \/ \E c \in Configs : Begin(c)
  \/ OpenStore \/ Listen \/ Material \/ Remove \/ Create \/ Fill \/ Load \/ Bind
  \/ Stop \/ Crash \/ Finished
  \/ \E f \in Files : Delete(f)

Spec == Init /\ [][Next]_vars

-----------------------------------------------------------------------------
(***************************************************************************)
(* Properties.                                                             *)
(***************************************************************************)
\* The types of the variables.
TypeOK ==
  /\ place \in Places /\ step \in 1..4 /\ config \in Configs
  /\ listening \in BOOLEAN /\ faulted \in BOOLEAN
  /\ generation \in Nat
  /\ file \in [Files -> {Missing, Torn} \cup 1..generation]
  /\ madeFor \in Seq(SUBSET HostNames) /\ Len(madeFor) = generation
  /\ served \in {<<>>} \cup {<<g>> : g \in 1..generation}
  /\ {starts, crashes, faults, deletions} \subseteq Nat

\* Whatever crashed or failed before: when all four files exist they are of one
\* generation and whole, but for the one written last.  That is what a start
\* that goes by their existence relies on.
ExistingIsWholeButLast ==
  allFilesExist =>
    /\ file["ca.pem"] \in Nat
    /\ file["ca.key"] = file["ca.pem"] /\ file["server.pem"] = file["ca.pem"]
    /\ file["server.key"] \in {Torn, file["ca.pem"]}

\* A server with generated material serves a certificate that the CA file it
\* names (CACertificatePath) has signed, with its key: a client that trusts
\* the file can connect, after any history of the directory.
ServedIsTrusted ==
  place = "serving" /\ config.listen # "none" /\ config.generated =>
    served = <<file["ca.pem"]>> /\ file["server.key"] = file["ca.pem"]

Whole == \A f \in Files : file[f] \in Nat

\* "Persists": a start in which no operation has failed changes no whole
\* material, so what clients trust stays what it is until somebody deletes a
\* file.  While material is removed, the operation that failed is the os.Stat
\* of allFilesExist.
MaterialIsKept ==
  [][Whole /\ ~faulted /\ deletions' = deletions => file' = file]_vars

\* "Remove incomplete TLS material" is all that removeTLSFiles (tls.go) says it
\* does: whole material is never removed, whatever fails.
OnlyIncompleteIsRemoved ==
  [][Whole /\ deletions' = deletions => file' = file]_vars

\* All four files are there and the last one is torn: every later start will
\* reuse them, and fail.
Stuck == allFilesExist /\ file["server.key"] = Torn

\* No server starts with it: normalized refuses it, or load does.
Refused(c) == ~normalized(c) \/ c.listen = "blank"

\* A start fails only because of its configuration, of an operation that
\* failed, or of material that a crash or a failed write has left stuck.
FailsForAReason ==
  place = "failed" /\ ~Refused(config) /\ ~faulted =>
    Stuck /\ crashes + faults > 0

\* What "remove incomplete TLS material" is for: a start that no operation
\* fails in replaces what an earlier one has left incomplete.
IncompleteIsReplaced ==
  place = "failed" /\ ~Refused(config) => faulted

\* "Persist generated test material ... and declare every client hostname
\* explicitly" (README): the certificate is for the names that are declared.
NamesAreServed ==
  place = "serving" /\ served # <<>> => config.names \subseteq madeFor[served[1]]
=============================================================================
