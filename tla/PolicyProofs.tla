---------------------------- MODULE PolicyProofs ----------------------------
(***************************************************************************)
(* Theorems about the permission engine, for every set of agents, tools,   *)
(* arguments and policy files: what merging a project-local policy can and *)
(* cannot change, and that hot reload loses no edit.                       *)
(***************************************************************************)
EXTENDS PolicyReload, SequenceTheorems, TLAPS

-----------------------------------------------------------------------------
(* The pure operators *)

\* A merged policy is a policy (merge_policies).
LEMMA MergeType ==
  ASSUME NEW g \in PolicyFile, NEW p \in PolicyFile \cup {Absent}
  PROVE  MergePolicies(g, p) \in PolicyFile
<1>1. CASE p = Absent
  BY <1>1 DEF MergePolicies
<1>2. CASE p # Absent
  <2>1. p \in PolicyFile
    BY <1>2
  <2>2. p.rules \o g.rules \in Seq(PolicyRule)
    BY <2>1 DEF PolicyFile
  <2>. QED
    BY <1>2, <2>2 DEF MergePolicies, PolicyFile
<1>. QED
  BY <1>1, <1>2

\* The global part of a load is a policy whenever the file parses.
LEMMA GlobalType ==
  ASSUME NEW g \in FileContent, g # Malformed
  PROVE  GlobalOrDefault(g) \in PolicyFile
<1>1. <<>> \in Seq(PolicyRule)
  OBVIOUS
<1>2. DefaultPolicy \in PolicyFile
  BY <1>1 DEF DefaultPolicy, PolicyFile, PolicyAction
<1>. QED
  BY <1>2 DEF GlobalOrDefault, FileContent

\* A load without error yields a policy.
LEMMA LoadedType ==
  ASSUME NEW g \in FileContent, NEW p \in FileContent, ~LoadError(g, p)
  PROVE  Loaded(g, p) \in PolicyFile
<1>1. GlobalOrDefault(g) \in PolicyFile
  BY GlobalType DEF LoadError
<1>2. p \in PolicyFile \cup {Absent}
  BY DEF LoadError, ProjectError, FileContent
<1>. QED
  BY <1>1, <1>2, MergeType DEF Loaded

\* Merging keeps the default action and exactly the rules of the two files: a
\* rule matches the merged policy iff it matches one of them.
LEMMA MergeMatch ==
  ASSUME NEW g \in PolicyFile, NEW p \in PolicyFile \cup {Absent},
         NEW action, NEW a, NEW t, NEW args
  PROVE  /\ MergePolicies(g, p).defaults = g.defaults
         /\ HasMatch(MergePolicies(g, p), action, a, t, args)
              <=> \/ HasMatch(g, action, a, t, args)
                  \/ p # Absent /\ HasMatch(p, action, a, t, args)
<1>1. CASE p = Absent
  BY <1>1 DEF MergePolicies
<1>2. CASE p # Absent
  <2>1. p \in PolicyFile
    BY <1>2
  <2> DEFINE ps == p.rules
             gs == g.rules
             m  == ps \o gs
             Fits(r) == r.action = action /\ RuleMatches(r, a, t, args)
  <2>2. ps \in Seq(PolicyRule) /\ gs \in Seq(PolicyRule)
    BY <2>1 DEF PolicyFile
  <2>3. MergePolicies(g, p) = [g EXCEPT !.rules = m]
    BY <1>2 DEF MergePolicies
  <2>4. MergePolicies(g, p).defaults = g.defaults /\ MergePolicies(g, p).rules = m
    BY <2>3 DEF PolicyFile
  <2>5. /\ Len(ps) \in Nat /\ Len(gs) \in Nat
        /\ DOMAIN ps = 1..Len(ps) /\ DOMAIN gs = 1..Len(gs)
        /\ DOMAIN m = 1..(Len(ps) + Len(gs))
        /\ \A i \in 1..(Len(ps) + Len(gs)) :
             m[i] = IF i <= Len(ps) THEN ps[i] ELSE gs[i - Len(ps)]
    <3>1. m \in Seq(PolicyRule) /\ Len(m) = Len(ps) + Len(gs)
      BY <2>2, ConcatProperties
    <3>2. \A i \in 1..(Len(ps) + Len(gs)) :
            m[i] = IF i <= Len(ps) THEN ps[i] ELSE gs[i - Len(ps)]
      BY <2>2, ConcatProperties
    <3> HIDE DEF m, ps, gs
    <3>. QED
      BY <2>2, <3>1, <3>2
  <2> HIDE DEF m, ps, gs, Fits
  <2>6. \A i \in DOMAIN ps : i \in DOMAIN m /\ m[i] = ps[i]
    BY <2>5
  <2>7. \A i \in DOMAIN gs : Len(ps) + i \in DOMAIN m /\ m[Len(ps) + i] = gs[i]
    BY <2>5
  <2>8. \A i \in DOMAIN m : \/ i \in DOMAIN ps /\ m[i] = ps[i]
                            \/ i - Len(ps) \in DOMAIN gs /\ m[i] = gs[i - Len(ps)]
    BY <2>5
  <2>9. (\E i \in DOMAIN m : Fits(m[i]))
          <=> (\E i \in DOMAIN gs : Fits(gs[i])) \/ (\E i \in DOMAIN ps : Fits(ps[i]))
    BY <2>6, <2>7, <2>8
  <2>. QED
    BY <1>2, <2>4, <2>9 DEF HasMatch, m, ps, gs, Fits
<1>. QED
  BY <1>1, <1>2

\* A validated project file has no `allow` match.
LEMMA ValidatedNeverAllows ==
  ASSUME NEW p, ValidateProjectLocal(p), NEW a, NEW t, NEW args
  PROVE  ~HasMatch(p, "allow", a, t, args)
BY DEF ValidateProjectLocal, HasMatch

\* Whatever a validated project file holds, the merged policy allows only what
\* the global file allows by itself.
THEOREM MergeNeverGrants ==
  ASSUME NEW g \in PolicyFile, NEW p \in PolicyFile \cup {Absent},
         p # Absent => ValidateProjectLocal(p),
         NEW a, NEW t, NEW args,
         EvaluateAgainstPolicy(MergePolicies(g, p), a, t, args) = "allow"
  PROVE  EvaluateAgainstPolicy(g, a, t, args) = "allow"
<1> DEFINE m == MergePolicies(g, p)
<1>1. /\ ~HasMatch(m, "deny", a, t, args)
      /\ \/ HasMatch(m, "allow", a, t, args)
         \/ ~HasMatch(m, "ask", a, t, args) /\ m.defaults = "allow"
  BY DEF EvaluateAgainstPolicy
<1>2. /\ ~HasMatch(g, "deny", a, t, args)
      /\ \/ HasMatch(g, "allow", a, t, args)
         \/ ~HasMatch(g, "ask", a, t, args) /\ g.defaults = "allow"
  <2> HIDE DEF m
  <2>1. m.defaults = g.defaults
    BY MergeMatch DEF m
  <2>2. HasMatch(g, "deny", a, t, args) => HasMatch(m, "deny", a, t, args)
    BY MergeMatch DEF m
  <2>3. HasMatch(g, "ask", a, t, args) => HasMatch(m, "ask", a, t, args)
    BY MergeMatch DEF m
  <2>4. HasMatch(m, "allow", a, t, args) => HasMatch(g, "allow", a, t, args)
    BY MergeMatch, ValidatedNeverAllows DEF m
  <2>. QED
    BY <1>1, <2>1, <2>2, <2>3, <2>4
<1>. QED
  BY <1>2 DEF EvaluateAgainstPolicy

\* A call the global file explicitly denies is denied by every merge.
THEOREM MergeKeepsDeny ==
  ASSUME NEW g \in PolicyFile, NEW p \in PolicyFile \cup {Absent},
         NEW a, NEW t, NEW args, HasMatch(g, "deny", a, t, args)
  PROVE  EvaluateAgainstPolicy(MergePolicies(g, p), a, t, args) = "deny"
<1>1. HasMatch(MergePolicies(g, p), "deny", a, t, args)
  BY MergeMatch
<1>. QED
  BY <1>1 DEF EvaluateAgainstPolicy

-----------------------------------------------------------------------------
(* The reload task *)

\* The files a reload has read so far passed the checks made on reading them,
\* and the installed policy is the merge of two files that passed all of them.
PolicyFromSource ==
  /\ ~LoadError(source.global, source.project)
  /\ policy = Loaded(source.global, source.project)
  /\ task \in {"readGlobal", "readBoth"} => readGlobal # Malformed
  /\ task = "readBoth" => ~ProjectError(readProject)

\* What the reload task has read is current unless a notification is on its way.
ReadsAreFresh ==
  missed = {} /\ tokens = 0 /\ unseen = 0 =>
    /\ task = "waiting" => UpToDate
    /\ task \in {"readGlobal", "readBoth"} => readGlobal = globalFile
    /\ task = "readBoth" => readProject = projectFile

IInv == TypeOK /\ PolicyFromSource /\ ReadsAreFresh

\* A load without error installs what is on disk.
LEMMA InitIInv == Init => IInv
<1> SUFFICES ASSUME Init PROVE IInv
  OBVIOUS
<1> USE ReloadAssumption
<1>1. policy \in PolicyFile
  BY LoadedType DEF Init
<1>2. TypeOK
  BY <1>1 DEF Init, TypeOK, TaskState
<1>3. PolicyFromSource
  BY DEF Init, PolicyFromSource
<1>4. ReadsAreFresh
  BY DEF Init, ReadsAreFresh, UpToDate
<1>. QED
  BY <1>2, <1>3, <1>4 DEF IInv

\* Every step of the user, the watcher and the reload task keeps the invariant.
LEMMA NextIInv == IInv /\ [Next]_vars => IInv'
<1> SUFFICES ASSUME IInv, [Next]_vars PROVE IInv'
  OBVIOUS
<1> USE ReloadAssumption DEF IInv
<1> USE DEF diskVars, watchVars, notifyVars, engineVars
<1>1. CASE StartWatcher
  <2>1. TypeOK'
    BY <1>1 DEF StartWatcher, TypeOK
  <2>. QED
    BY <1>1, <2>1 DEF StartWatcher, PolicyFromSource, ReadsAreFresh, UpToDate
<1>2. CASE EditGlobal
  <2>1. TypeOK'
    BY <1>2 DEF EditGlobal, Touch, TypeOK
  <2>2. PolicyFromSource'
    BY <1>2 DEF EditGlobal, Touch, PolicyFromSource
  <2>3. missed' # {} \/ unseen' # 0
    BY <1>2 DEF EditGlobal, Touch, TypeOK
  <2>. QED
    BY <2>1, <2>2, <2>3 DEF ReadsAreFresh
<1>3. CASE EditProject
  <2>1. TypeOK'
    BY <1>3 DEF EditProject, Touch, TypeOK
  <2>2. PolicyFromSource'
    BY <1>3 DEF EditProject, Touch, PolicyFromSource
  <2>3. missed' # {} \/ unseen' # 0
    BY <1>3 DEF EditProject, Touch, TypeOK
  <2>. QED
    BY <2>1, <2>2, <2>3 DEF ReadsAreFresh
<1>4. CASE Notify
  <2>1. TypeOK'
    BY <1>4 DEF Notify, TypeOK
  <2>2. tokens' # 0
    BY <1>4 DEF Notify, TypeOK
  <2>. QED
    BY <1>4, <2>1, <2>2 DEF Notify, PolicyFromSource, ReadsAreFresh
<1>5. CASE Recv
  <2>1. TypeOK'
    BY <1>5 DEF Recv, TypeOK, TaskState
  <2>. QED
    BY <1>5, <2>1 DEF Recv, PolicyFromSource, ReadsAreFresh
<1>6. CASE Drain
  <2>1. TypeOK'
    BY <1>6 DEF Drain, TypeOK, TaskState
  <2>. QED
    BY <1>6, <2>1 DEF Drain, PolicyFromSource, ReadsAreFresh
<1>7. CASE ReadGlobal
  <2>1. TypeOK'
    BY <1>7 DEF ReadGlobal, TypeOK, TaskState
  <2>2. PolicyFromSource'
    BY <1>7 DEF ReadGlobal, PolicyFromSource
  <2>3. ReadsAreFresh'
    BY <1>7 DEF ReadGlobal, ReadsAreFresh, UpToDate, LoadError
  <2>. QED
    BY <2>1, <2>2, <2>3
<1>8. CASE ReadProject
  <2>1. TypeOK'
    BY <1>8 DEF ReadProject, TypeOK, TaskState
  <2>2. PolicyFromSource'
    BY <1>8 DEF ReadProject, PolicyFromSource
  <2>3. ReadsAreFresh'
    BY <1>8 DEF ReadProject, ReadsAreFresh, UpToDate, LoadError
  <2>. QED
    BY <2>1, <2>2, <2>3
<1>9. CASE Install
  <2>1. readGlobal \in FileContent /\ readProject \in FileContent
    BY DEF TypeOK
  <2>2. ~LoadError(readGlobal, readProject)
    BY <1>9 DEF Install, PolicyFromSource, LoadError
  <2>3. Loaded(readGlobal, readProject) \in PolicyFile
    BY <2>1, <2>2, LoadedType
  <2>4. TypeOK'
    BY <1>9, <2>1, <2>3 DEF Install, TypeOK, TaskState
  <2>5. PolicyFromSource'
    BY <1>9, <2>2 DEF Install, PolicyFromSource
  <2>6. ReadsAreFresh'
    BY <1>9 DEF Install, ReadsAreFresh, UpToDate
  <2>. QED
    BY <2>4, <2>5, <2>6
<1>10. CASE UNCHANGED vars
  BY <1>10 DEF vars, TypeOK, PolicyFromSource, ReadsAreFresh, UpToDate
<1>. QED
  BY <1>1, <1>2, <1>3, <1>4, <1>5, <1>6, <1>7, <1>8, <1>9, <1>10 DEF Next, ReloadStep

\* The inductive invariant of hot reload holds in every reachable state.
THEOREM IInvHolds == Spec => []IInv
BY InitIInv, NextIInv, PTL DEF Spec

\* Every variable of the reload machine keeps its type: in particular the
\* engine always holds a well-formed policy.
THEOREM TypeCorrect == Spec => []TypeOK
<1>1. IInv => TypeOK
  BY DEF IInv
<1>. QED
  BY <1>1, IInvHolds, PTL

\* No reload, torn or not, ever installs a policy that allows a call its global
\* file would not have allowed alone.
THEOREM NeverGrants == Spec => []ProjectNeverGrants
<1>1. IInv => ProjectNeverGrants
  <2> SUFFICES ASSUME IInv, NEW a \in Agent, NEW t \in Tool, NEW args \in Args,
                      EvaluateAgainstPolicy(policy, a, t, args) = "allow"
               PROVE  EvaluateAgainstPolicy(GlobalOrDefault(source.global), a, t, args)
                        = "allow"
    BY DEF ProjectNeverGrants
  <2>1. source.global \in FileContent /\ source.project \in FileContent
    BY DEF IInv, TypeOK
  <2>2. GlobalOrDefault(source.global) \in PolicyFile
    BY <2>1, GlobalType DEF IInv, PolicyFromSource, LoadError
  <2>3. /\ source.project \in PolicyFile \cup {Absent}
        /\ source.project # Absent => ValidateProjectLocal(source.project)
    BY <2>1 DEF IInv, PolicyFromSource, LoadError, ProjectError, FileContent
  <2>4. policy = MergePolicies(GlobalOrDefault(source.global), source.project)
    BY DEF IInv, PolicyFromSource, Loaded
  <2>. QED
    BY <2>2, <2>3, <2>4, MergeNeverGrants
<1>. QED
  BY <1>1, IInvHolds, PTL

\* No reload ever lifts an explicit deny of the global file it was made from.
THEOREM DenyHolds == Spec => []GlobalDenyHolds
<1>1. IInv => GlobalDenyHolds
  <2> SUFFICES ASSUME IInv, NEW a \in Agent, NEW t \in Tool, NEW args \in Args,
                      HasMatch(GlobalOrDefault(source.global), "deny", a, t, args)
               PROVE  EvaluateAgainstPolicy(policy, a, t, args) = "deny"
    BY DEF GlobalDenyHolds
  <2>1. source.global \in FileContent /\ source.project \in FileContent
    BY DEF IInv, TypeOK
  <2>2. GlobalOrDefault(source.global) \in PolicyFile
    BY <2>1, GlobalType DEF IInv, PolicyFromSource, LoadError
  <2>3. source.project \in PolicyFile \cup {Absent}
    BY <2>1 DEF IInv, PolicyFromSource, LoadError, ProjectError, FileContent
  <2>4. policy = MergePolicies(GlobalOrDefault(source.global), source.project)
    BY DEF IInv, PolicyFromSource, Loaded
  <2>. QED
    BY <2>2, <2>3, <2>4, MergeKeepsDeny
<1>. QED
  BY <1>1, IInvHolds, PTL

\* When nothing is outstanding, the engine runs the policy on disk: the reload
\* protocol loses no edit its watcher saw, with any channel capacity.
THEOREM LosesNoEdit == Spec => []NoLostEdit
<1>1. IInv => NoLostEdit
  BY DEF IInv, ReadsAreFresh, NoLostEdit, Idle
<1>. QED
  BY <1>1, IInvHolds, PTL
=============================================================================
