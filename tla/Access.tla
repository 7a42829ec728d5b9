------------------------------- MODULE Access -------------------------------
(***************************************************************************)
(* Who may read what: the object scopes of api/auth.py and the endpoints   *)
(* that apply them, list_models and get_history (api/models.py), get_run   *)
(* (api/runs.py), queue (api/adjudication.py) and get_golden_set           *)
(* (api/golden_sets.py).                                                   *)
(*                                                                         *)
(* A case is a caller and the rows of the database:                        *)
(*   roles, key, versions : version -> [owner, model, awaiting],           *)
(*   registrar (of the one golden set),                                    *)
(*   runs : sequence, oldest first, of [version, flagged, onGolden].       *)
(***************************************************************************)
EXTENDS Cases, Naturals, FiniteSets, FiniteSetsExt

Role == {"submitter", "governance", "adjudicator", "auditor"}

HasAny(c, roles) == c.roles \cap roles # {}

\* _latest_run_id, and the newest run list_models keeps of each version
RunsOf(c, v) == {r \in DOMAIN c.runs : c.runs[r].version = v}
IsLatest(c, r) == r = Max(RunsOf(c, c.runs[r].version))

\* a version awaits adjudication only on its newest run's flag
Possible(c) ==
  \A v \in DOMAIN c.versions :
    c.versions[v].awaiting => RunsOf(c, v) # {} /\ c.runs[Max(RunsOf(c, v))].flagged

HasFlaggedRun(c, v) ==
  \/ \E r \in RunsOf(c, v) : c.runs[r].flagged
  \/ c.versions[v].awaiting

Owns(c, v) == HasAny(c, {"submitter"}) /\ c.versions[v].owner = c.key
Judges(c, v) == HasAny(c, {"adjudicator"}) /\ HasFlaggedRun(c, v)

AuthorizeObjectRead(c, v) == HasAny(c, {"auditor"}) \/ Owns(c, v) \/ Judges(c, v)

AuthorizedVersionIds(c, versions) ==
  IF HasAny(c, {"auditor"}) THEN versions
  ELSE {v \in versions : Owns(c, v) \/ Judges(c, v)}

AuthorizeRunRead(c, r) ==
  \/ HasAny(c, {"auditor"})
  \/ Owns(c, c.runs[r].version)
  \/ Judges(c, c.runs[r].version)
  \/ HasAny(c, {"governance"}) /\ c.runs[r].onGolden /\ c.registrar = c.key

-----------------------------------------------------------------------------
(* The endpoints: what each answers to the caller                          *)

Reply(allowed, items) ==
  [status |-> IF allowed THEN 200 ELSE 403, items |-> IF allowed THEN items ELSE {}]

ListModels(c) ==
  Reply(HasAny(c, {"submitter", "adjudicator", "auditor"}),
        AuthorizedVersionIds(c, DOMAIN c.versions))

\* The run a row of the list sums up.
Summarized(c) ==
  {r \in DOMAIN c.runs : IsLatest(c, r) /\ c.runs[r].version \in ListModels(c).items}

Siblings(c, v) == {w \in DOMAIN c.versions : c.versions[w].model = c.versions[v].model}

\* mutant: the history of a readable version is that of the whole model
Unscoped(c, v) == Siblings(c, v)

InScope(c, v) == AuthorizedVersionIds(c, Siblings(c, v))

GetHistory(c, v) ==
  Reply(AuthorizeObjectRead(c, v),
        {r \in DOMAIN c.runs : c.runs[r].version \in InScope(c, v)})

GetRun(c, r) == HasAny(c, Role) /\ AuthorizeRunRead(c, r)

ToReview(c, r) ==
  /\ c.runs[r].flagged
  /\ c.versions[c.runs[r].version].awaiting
  /\ IsLatest(c, r)

Queue(c) ==
  Reply(HasAny(c, {"adjudicator", "auditor"}), {r \in DOMAIN c.runs : ToReview(c, r)})

\* the evaluated_run_ids of the golden set's status
GetGoldenSet(c) ==
  Reply(HasAny(c, {"auditor"}) \/ (HasAny(c, {"governance"}) /\ c.registrar = c.key),
        {r \in DOMAIN c.runs : c.runs[r].onGolden})

Shown(c) ==
  Summarized(c) \cup (UNION {GetHistory(c, v).items : v \in DOMAIN c.versions})
  \cup Queue(c).items \cup GetGoldenSet(c).items

-----------------------------------------------------------------------------
\* The list and the detail page apply one rule, written twice (auth.py:111-124
\* and 161-178): a caller finds in the list exactly the versions it can open.
ListAgreesWithRead ==
  Is("access") =>
    \A v \in DOMAIN case.versions :
      AuthorizeObjectRead(case, v)
        <=> v \in ListModels(case).items

\* No list, history, queue or status names a run its reader cannot open
\* (auth.py:127-145; models.py:388-390: two submitters share a model's name).
ShownRunsOpen == Is("access") => \A r \in Shown(case) : GetRun(case, r)

\* Every version that waits for a reviewer is in the queue exactly once, with
\* its newest run, and every adjudicator can open what the decision rests on.
QueueIsComplete ==
  (Is("access") /\ Queue(case).status = 200) =>
    \A v \in DOMAIN case.versions :
      /\ Cardinality(Queue(case).items \cap RunsOf(case, v)) = IF case.versions[v].awaiting THEN 1 ELSE 0
      /\ case.versions[v].awaiting => AuthorizeObjectRead(case, v)

\* The lists, the pages and the review queue agree on who reads what.
ReadersAgree == ListAgreesWithRead /\ ShownRunsOpen /\ QueueIsComplete
=============================================================================
