-------------------------- MODULE RegistryAuthority --------------------------
(***************************************************************************)
(* verify_parity: the public registry and the private runtime configuration *)
(* of a host are read entry by entry and compared.  A file is abstracted to *)
(* the entries it may contain, in any number up to MaxEntries; labels that  *)
(* no schema admits are the value Bad.                                      *)
(***************************************************************************)
EXTENDS Naturals, FiniteSets

CONSTANTS AgentIds, DiscordIds, Definitions, Adapters,
          AdapterOf,    \* the adapter of each executor definition
          Bad,          \* a discord id, or a definition, that is not valid
          Nothing,      \* the field is absent
          MaxEntries    \* bound: entries in a file

ASSUME RegistryConstants ==
  /\ AdapterOf \in [Definitions -> Adapters] /\ MaxEntries \in Nat
  /\ Bad \notin DiscordIds /\ {Bad, Nothing} \cap Definitions = {}

VARIABLES
  gStage,     \* what is being read
  gAuthority, \* entries of load_authority, and whether it raised
  gRuntime,   \* entries of project_runtime_roster, whether it met errors, adapters
  gRead,      \* history: the entries of both files
  gOk         \* the verdict

registryVars == <<gStage, gAuthority, gRuntime, gRead, gOk>>

AgentTypes == {"managed", "external"}
\* A display name is absent, which stands for the id, or a name of its own.
Names == {"absent", "name"}
AuthorityEntry == [type : AgentTypes, id : AgentIds, did : DiscordIds \cup {Bad},
                   name : Names, def : Definitions \cup {Bad, Nothing}]
RuntimeEntry == [type : AgentTypes, id : AgentIds, did : DiscordIds \cup {Bad},
                 name : Names, adapter : Adapters]
\* What canonical_hash and _diff_rosters look at.
RosterEntry == [type : AgentTypes, id : AgentIds, did : DiscordIds, name : Names]
Binding == [id : AgentIds, def : Definitions]

RegistryTypeOK ==
  /\ gStage \in {"authority", "runtime", "compared"}
  /\ gAuthority \in [roster : SUBSET RosterEntry, bindings : SUBSET Binding, raised : BOOLEAN]
  /\ gRuntime \in [roster : SUBSET RosterEntry, seen : SUBSET AgentIds, errors : BOOLEAN,
                   adapters : [AgentIds -> Adapters \cup {Nothing}]]
  /\ gRead \in [authority : SUBSET AuthorityEntry, runtime : SUBSET RuntimeEntry, twice : BOOLEAN]
  /\ gOk \in BOOLEAN

RegistryInit ==
  /\ gStage = "authority"
  /\ gAuthority = [roster |-> {}, bindings |-> {}, raised |-> FALSE]
  /\ gRuntime = [roster |-> {}, seen |-> {}, errors |-> FALSE,
                 adapters |-> [a \in AgentIds |-> Nothing]]
  /\ gRead = [authority |-> {}, runtime |-> {}, twice |-> FALSE]
  /\ gOk = FALSE

Roster(e) == [type |-> e.type, id |-> e.id, did |-> e.did, name |-> e.name]
UsesDiscordId(roster, e) == \E r \in roster : r.did = e.did

\* load_authority admits an entry: new id, valid and new discord id, and a
\* definition that exists; an external agent has none.
Admits(a, e) ==
  /\ \A r \in a.roster : r.id # e.id
  /\ e.did # Bad /\ ~UsesDiscordId(a.roster, e)
  /\ e.def # Bad /\ (e.type = "external" => e.def = Nothing)

\* The next entry of the registry; one that is not admitted raises.
ReadAuthority(e) ==
  /\ gStage = "authority" /\ ~gAuthority.raised
  /\ Cardinality(gRead.authority) < MaxEntries
  /\ gRead' = [gRead EXCEPT !.authority = @ \cup {e}, !.twice = @ \/ e \in gRead.authority]
  /\ gAuthority' = IF Admits(gAuthority, e)
                   THEN [gAuthority EXCEPT !.roster = @ \cup {Roster(e)},
                           !.bindings = IF e.def = Nothing THEN @
                                        ELSE @ \cup {[id |-> e.id, def |-> e.def]}]
                   ELSE [gAuthority EXCEPT !.raised = TRUE]
  /\ UNCHANGED <<gStage, gRuntime, gOk>>

\* A registry that raised ends the verification; otherwise the runtime is read.
AuthorityRead ==
  /\ gStage = "authority"
  /\ gStage' = IF gAuthority.raised THEN "compared" ELSE "runtime"
  /\ UNCHANGED <<gAuthority, gRuntime, gRead, gOk>>

\* project_runtime_roster: a duplicate or an invalid discord id is an error and
\* the entry is skipped; _runtime_adapter_by_id takes the last one of an id.
ReadRuntime(e) ==
  /\ gStage = "runtime"
  /\ Cardinality(gRead.runtime) < MaxEntries
  /\ LET good == e.id \notin gRuntime.seen /\ e.did # Bad /\ ~UsesDiscordId(gRuntime.roster, e)
     IN gRuntime' = [gRuntime EXCEPT
          !.roster = IF good THEN @ \cup {Roster(e)} ELSE @,
          !.errors = @ \/ ~good,
          !.seen = @ \cup {e.id},
          !.adapters[e.id] = IF e.type = "managed" THEN e.adapter ELSE @]
  /\ gRead' = [gRead EXCEPT !.runtime = @ \cup {e}, !.twice = @ \/ e \in gRead.runtime]
  /\ UNCHANGED <<gStage, gAuthority, gOk>>

\* Mutant: skipped runtime entries do not fail the verification.
RuntimeClean_Skipped == TRUE

\* Any error of the runtime projection fails the verification.
RuntimeClean == ~gRuntime.errors

\* _diff_rosters and the hash, then the adapter of every binding.
Parity ==
  /\ RuntimeClean
  /\ gAuthority.roster = gRuntime.roster
  /\ \A b \in gAuthority.bindings : gRuntime.adapters[b.id] = AdapterOf[b.def]

Compare ==
  /\ gStage = "runtime"
  /\ gStage' = "compared" /\ gOk' = Parity
  /\ UNCHANGED <<gAuthority, gRuntime, gRead>>

RegistryNext ==
  \/ \E e \in AuthorityEntry : ReadAuthority(e)
  \/ \E e \in RuntimeEntry : ReadRuntime(e)
  \/ AuthorityRead \/ Compare

RegistrySpec == RegistryInit /\ [][RegistryNext]_registryVars

----------------------------------------------------------------------------
\* A configuration that passes is, entry by entry, the one the registry declares:
\* each agent once, under the same identity, and with the adapter of its
\* definition in every place the runtime file names it.
PassMeansSame ==
  gOk =>
    /\ ~gRead.twice
    /\ \A e \in gRead.runtime : \E a \in gRead.authority :
         /\ Roster(a) = Roster(e)
         /\ a.def \in Definitions => e.adapter = AdapterOf[a.def]
    /\ Cardinality(gRead.runtime) = Cardinality(gRead.authority)

\* What it means that a host is configured as the registry says: both files fit
\* their schema and list each agent once, with valid and distinct discord ids; they
\* list the same agents; every agent bound to a definition has its adapter.
WellFormed(entries) ==
  \A e \in entries : e.did # Bad /\ \A f \in entries : e # f => e.id # f.id /\ e.did # f.did
ConfiguredAsDeclared ==
  /\ ~gRead.twice /\ WellFormed(gRead.authority) /\ WellFormed(gRead.runtime)
  /\ \A a \in gRead.authority : a.def # Bad /\ (a.type = "external" => a.def = Nothing)
  /\ {Roster(a) : a \in gRead.authority} = {Roster(e) : e \in gRead.runtime}
  /\ \A a \in gRead.authority, e \in gRead.runtime :
       a.id = e.id /\ a.def \in Definitions => e.adapter = AdapterOf[a.def]

\* No false alarm: such a host passes.
SameMeansPass == gStage = "compared" /\ ConfiguredAsDeclared => gOk

\* The verdict is neither too mild nor too strict.
VerdictIsExact == PassMeansSame /\ SameMeansPass
=============================================================================
