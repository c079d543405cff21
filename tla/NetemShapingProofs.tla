------------------------- MODULE NetemShapingProofs -------------------------
(***************************************************************************)
(* Theorems about NetemShaping, for any number of shapers, shapes and      *)
(* profiles, any set of tools and any set of disturbances.                 *)
(***************************************************************************)
EXTENDS NetemShaping, SequenceTheorems, TLAPS

\* The steps that jobs are made of.
GoodSteps == {Clear(i) : i \in Ifaces} \cup {Apply(i, s) : i \in Ifaces, s \in Inputs}

\* No clear of an interface comes after another step on it, and an apply comes only
\* after a clear, next of the steps on its interface.
Composed(steps) ==
  \A k \in 1..Len(steps) :
     \/ /\ steps[k].op = "clear"
        /\ \A m \in 1..(k - 1) : steps[m].iface # steps[k].iface
     \/ /\ steps[k].op = "apply"
        /\ \E m \in 1..(k - 1) :
             /\ steps[m] = Clear(steps[k].iface)
             /\ \A l \in 1..Len(steps) : l \in {m, k} \/ steps[l].iface # steps[k].iface

StepsInv ==
  \A p \in Shapers : pc[p] # "idle" =>
     /\ job[p].steps \in Seq(GoodSteps) /\ Len(job[p].steps) <= 4
     /\ at[p] \in 1..Len(job[p].steps)

\* Who is at a step under the lock is the holder of the lock.
LockInv == \A p \in Shapers : pc[p] \in Locked <=> lock = p

\* What the labels say of the step, and of the npte that runs it.
LabelInv ==
  \A p \in Shapers :
     /\ pc[p] \in Locked => Shape(p) # NoKnobs
     /\ pc[p] \in {"root", "child"} => Step(p).op = "apply" /\ Shape(p) \in Shapes
     /\ pc[p] = "child" => Shape(p) \in ChildShapes
     /\ pc[p] = "del"   => Step(p).op = "clear"
     /\ pc[p] = "leave" /\ code[p] = "ok" /\ Step(p).op = "apply" => Shape(p) \in Shapes
     /\ IF pc[p] = "leave" THEN code[p] \in {"ok", "failed", "rejected"} ELSE code[p] = "none"
     /\ pc[p] \in {"idle", "call", "check", "done"} => ~changed[p]
     /\ pc[p] = "idle" => ~failed[p] /\ at[p] = 1

\* The commands that outlive their npte are those of valid applies, or deletions.
LateInv ==
  \A c \in late : /\ c.op = "root"  => c.shape \in Shapes
                  /\ c.op = "child" => c.shape \in ChildShapes

HalfOf(s) == [root |-> s, child |-> NoShape]

\* An interface that nobody tore is whole, or the holder of the lock is about to add
\* the child to the root that it has installed; that root is there, whatever was torn
\* before, if no late command has meddled since.
TreeInv ==
  /\ \A i \in Ifaces : tree[i].root = NoShape => tree[i].child = NoShape
  /\ \A p \in Shapers : pc[p] = "child" /\ Iface(p) \notin torn \cap meddled =>
       tree[Iface(p)] = HalfOf(Shape(p))
  /\ \A i \in Ifaces \ torn : \/ tree[i] = Bare
                              \/ \E s \in Shapes : tree[i] = Whole(s)
                              \/ \E p \in Shapers : pc[p] = "child" /\ Iface(p) = i

\* A shaper that is not interfered with is alone, with a job that a tool composed.
AloneInv ==
  \A p \in Shapers : alone[p] =>
     /\ pc[p] # "idle" /\ job[p] \in Jobs /\ late = {}
     /\ \A q \in Shapers \ {p} : pc[q] = "idle"

\* How many steps of its job have been done.
Completed(p) == IF pc[p] \in {"leave", "done"} THEN at[p] ELSE at[p] - 1

\* The k-th of the steps that have been done shows: an apply is whole, an interface
\* that was cleared is bare, unless a later step had to do with it.
InEffect(p, k) ==
  LET step == job[p].steps[k] IN
    /\ step.op = "apply" => tree[step.iface] = Whole(step.shape)
    /\ step.op = "clear" =>
         \/ tree[step.iface] = Bare
         \/ pc[p] = "child" /\ Iface(p) = step.iface
         \/ \E m \in (k + 1)..Completed(p) : job[p].steps[m].iface = step.iface

\* What such a shaper has achieved so far.
Achieved(p) ==
  /\ ~failed[p]
  /\ pc[p] = "leave" => code[p] = "ok"
  /\ pc[p] = "done"  => at[p] = Len(job[p].steps)
  /\ pc[p] = "child" => tree[Iface(p)] = HalfOf(Shape(p))
  /\ \A k \in 1..Completed(p) : InEffect(p, k)

AchievedInv == \A p \in Shapers : alone[p] /\ lab /\ Careful(p) => Achieved(p)

IInv == /\ TypeOK /\ StepsInv /\ LockInv /\ LabelInv /\ LateInv /\ TreeInv /\ ExitZeroIsWhole
        /\ RejectedChangesNothing /\ AloneInv /\ AchievedInv

-----------------------------------------------------------------------------
(* Jobs.                                                                   *)

\* What a job in Jobs is: one of seven kinds.
LEMMA KindsOfJobs ==
  ASSUME NEW j \in Jobs
  PROVE  \/ \E i \in Ifaces : j.steps = <<Clear(i)>>
         \/ \E i \in Ifaces, s \in Inputs : j.steps = <<Apply(i, s)>>
         \/ j.steps = Clears
         \/ \E d, u \in Shapes : j.steps = LabNetem(d, u)
         \/ \E i \in Ifaces, s \in Inputs : j.steps = Reshape(i, s)
<1> USE DirectionsAssumption, ProfilesAssumption DEF Ifaces, Job, Lone
<1>1. ASSUME NEW i \in Directions, j = Lone(Clear(i)) PROVE \E k \in Ifaces : j.steps = <<Clear(k)>>
  BY <1>1
<1>2. ASSUME NEW i \in Directions, NEW s \in Inputs, j = Lone(Apply(i, s))
      PROVE \E k \in Ifaces, t \in Inputs : j.steps = <<Apply(k, t)>>
  BY <1>2
<1>3. ASSUME NEW prof \in Profiles, j = Job("lab", LabNetem(prof[1], prof[2]))
      PROVE \E d, u \in Shapes : j.steps = LabNetem(d, u)
  BY <1>3
<1>4. ASSUME NEW i \in Directions, NEW s \in Inputs, NEW t, j = Job(t, Reshape(i, s))
      PROVE \E k \in Ifaces, r \in Inputs : j.steps = Reshape(k, r)
  BY <1>4
<1>5. ASSUME NEW i \in Directions, j = Job("python", <<Clear(i)>>)
      PROVE \E k \in Ifaces : j.steps = <<Clear(k)>>
  BY <1>5
<1>6. ASSUME NEW t, j = Job(t, Clears) PROVE j.steps = Clears
  BY <1>6
<1>7. QED
  BY <1>1, <1>2, <1>3, <1>4, <1>5, <1>6 DEF Jobs

\* The four steps of `lab netem` with a profile.
LEMMA StepsOfLabNetem ==
  ASSUME NEW d, NEW u
  PROVE  LabNetem(d, u) = <<Clear("if_client"), Clear("if_server"),
                            Apply("if_client", d), Apply("if_server", u)>>
<1> DEFINE c1 == Clear("if_client")  c2 == Clear("if_server")
           a1 == Apply("if_client", d)  a2 == Apply("if_server", u)
           S == {c1, c2, a1, a2}
<1> HIDE DEF c1, c2, a1, a2
<1>1. <<c1, c2>> \in Seq(S) /\ <<a1, a2>> \in Seq(S) /\ <<c1, c2, a1, a2>> \in Seq(S)
  OBVIOUS
<1>2. /\ <<c1, c2>> \o <<a1, a2>> \in Seq(S) /\ Len(<<c1, c2>> \o <<a1, a2>>) = 4
      /\ \A i \in 1..4 : (<<c1, c2>> \o <<a1, a2>>)[i] = <<c1, c2, a1, a2>>[i]
  BY <1>1, ConcatProperties
<1>3. <<c1, c2>> \o <<a1, a2>> = <<c1, c2, a1, a2>>
  BY <1>1, <1>2, SeqEqual
<1>4. QED
  BY <1>3 DEF LabNetem, Clears, c1, c2, a1, a2

\* Every tool composes jobs of good steps, and well if it begins with a clear.
LEMMA JobsAreGood ==
  ASSUME NEW j \in Jobs
  PROVE  /\ j.steps \in Seq(GoodSteps) /\ Len(j.steps) \in 1..4
         /\ j.steps[1].op = "clear" => Composed(j.steps)
<1> DEFINE Good(steps) == /\ steps \in Seq(GoodSteps) /\ Len(steps) \in 1..4
                          /\ steps[1].op = "clear" => Composed(steps)
<1>1. ASSUME NEW i \in Ifaces PROVE Good(<<Clear(i)>>)
  <2>1. <<Clear(i)>> \in Seq(GoodSteps)
    BY DEF GoodSteps
  <2>2. Composed(<<Clear(i)>>)
    BY DEF Composed, Clear
  <2>3. QED
    BY <2>1, <2>2
<1>2. ASSUME NEW i \in Ifaces, NEW s \in Inputs PROVE Good(<<Apply(i, s)>>)
  <2>1. <<Apply(i, s)>> \in Seq(GoodSteps)
    BY DEF GoodSteps
  <2>2. <<Apply(i, s)>>[1].op = "apply"
    BY DEF Apply
  <2>3. QED
    BY <2>1, <2>2
<1>3. Good(Clears)
  <2>1. Clears \in Seq(GoodSteps)
    BY DEF Clears, GoodSteps, Ifaces
  <2>2. Composed(Clears)
    BY DEF Composed, Clears, Clear
  <2>3. QED
    BY <2>1, <2>2 DEF Clears
<1>4. ASSUME NEW d \in Shapes, NEW u \in Shapes PROVE Good(LabNetem(d, u))
  <2>1. d \in Inputs /\ u \in Inputs
    BY DEF Inputs
  <2>2. LabNetem(d, u) \in Seq(GoodSteps)
    <3>1. /\ Clear("if_client") \in GoodSteps /\ Clear("if_server") \in GoodSteps
          /\ Apply("if_client", d) \in GoodSteps /\ Apply("if_server", u) \in GoodSteps
      BY <2>1 DEF GoodSteps, Ifaces
    <3>2. \A a, b, c, e \in GoodSteps : <<a, b, c, e>> \in Seq(GoodSteps)
      OBVIOUS
    <3>3. <<Clear("if_client"), Clear("if_server"), Apply("if_client", d), Apply("if_server", u)>>
            \in Seq(GoodSteps)
      BY <3>1, <3>2
    <3>4. QED
      BY <3>3, StepsOfLabNetem
  <2>3. Composed(LabNetem(d, u))
    BY StepsOfLabNetem DEF Composed, Clear, Apply
  <2>4. QED
    BY <2>2, <2>3, StepsOfLabNetem
<1>5. ASSUME NEW i \in Ifaces, NEW s \in Inputs PROVE Good(Reshape(i, s))
  <2>1. Reshape(i, s) \in Seq(GoodSteps)
    BY DEF Reshape, GoodSteps
  <2>2. Composed(Reshape(i, s))
    BY DEF Composed, Reshape, Clear, Apply
  <2>3. QED
    BY <2>1, <2>2 DEF Reshape
<1>6. Good(j.steps)
  BY <1>1, <1>2, <1>3, <1>4, <1>5, KindsOfJobs
<1>7. QED
  BY <1>6

\* A good step, taken apart.
LEMMA GoodStep ==
  ASSUME NEW step \in GoodSteps
  PROVE  /\ step \in Steps /\ step.iface \in Ifaces /\ step.op \in {"clear", "apply"}
         /\ step.op = "clear" => step = Clear(step.iface) /\ step.shape = NoShape
         /\ step.op = "apply" => step = Apply(step.iface, step.shape) /\ step.shape \in Inputs
BY DEF GoodSteps, Clear, Apply, Steps, Ifaces

\* The step at which a shaper is.
LEMMA StepFacts ==
  ASSUME StepsInv, NEW p \in Shapers, pc[p] # "idle"
  PROVE  /\ Step(p) \in GoodSteps /\ Step(p) \in Steps /\ Iface(p) \in Ifaces
         /\ Step(p).op \in {"clear", "apply"}
         /\ Step(p).op = "clear" => Shape(p) = NoShape
         /\ Step(p).op = "apply" => Shape(p) \in Inputs
         /\ at[p] \in 1..Len(job[p].steps) /\ Len(job[p].steps) \in Nat
<1>1. Step(p) \in GoodSteps
  BY DEF StepsInv, Step
<1>2. QED
  BY <1>1, GoodStep DEF StepsInv, Step, Iface, Shape

\* A step that the MCP server gives up on runs on; the rest of the job goes elsewhere.
GivenUp(p, q) ==
  /\ p # q /\ pc[p] # "idle" /\ pc[q] = "idle" /\ pc' = [pc EXCEPT ![q] = "call"]
  /\ job'[p] = Lone(Step(p)) /\ at'[p] = 1 /\ failed'[p] = FALSE
  /\ job'[q] = job[p] /\ at'[q] = at[p] + 1 /\ failed'[q] = TRUE
  /\ at[p] \in 1..Len(job[p].steps) /\ at[p] + 1 \in 1..Len(job[p].steps)
  /\ at[p] + 1 \in 1..4
  /\ \A r \in Shapers \ {p, q} : /\ job'[r] = job[r] /\ at'[r] = at[r]
                               /\ failed'[r] = failed[r]
  /\ \A r \in Shapers \ {q} : Step(r)' = Step(r) /\ Iface(r)' = Iface(r) /\ Shape(r)' = Shape(r)
  /\ alone' = Nobody
  /\ UNCHANGED <<lock, lab, tree, code, late, changed, torn, meddled>>

\* That is what Outlive does.
LEMMA Outlived ==
  ASSUME TypeOK, StepsInv, NEW p \in Shapers, NEW q \in Shapers, Outlive(p, q)
  PROVE  GivenUp(p, q)
<1>1. /\ p # q /\ pc[p] # "idle" /\ pc[q] = "idle" /\ pc' = [pc EXCEPT ![q] = "call"]
      /\ alone' = Nobody /\ at[p] < Len(job[p].steps)
      /\ UNCHANGED <<lock, lab, tree, code, late, changed, torn, meddled>>
  BY DEF Outlive
<1>2. /\ at[p] \in 1..Len(job[p].steps) /\ Len(job[p].steps) \in Nat /\ Len(job[p].steps) <= 4
      /\ at[p] \in Nat
  BY <1>1 DEF StepsInv
<1>3. at[p] + 1 \in 1..Len(job[p].steps) /\ at[p] + 1 \in 1..4
  BY <1>1, <1>2
<1>4. /\ job'[p] = Lone(Step(p)) /\ at'[p] = 1 /\ failed'[p] = FALSE
      /\ job'[q] = job[p] /\ at'[q] = at[p] + 1 /\ failed'[q] = TRUE
      /\ \A r \in Shapers \ {p, q} : /\ job'[r] = job[r] /\ at'[r] = at[r]
                                   /\ failed'[r] = failed[r]
  BY <1>1 DEF Outlive, TypeOK
<1>5. Lone(Step(p)).steps[1] = Step(p)
  BY DEF Lone, Job
<1>6. \A r \in Shapers \ {q} : Step(r)' = Step(r)
  BY <1>4, <1>5 DEF Step
<1>7. QED
  BY <1>1, <1>2, <1>3, <1>4, <1>6 DEF GivenUp, Iface, Shape

-----------------------------------------------------------------------------
(* The inductive invariant, part by part.                                  *)

\* What the end of an npte changes.
LEMMA ProceedFacts ==
  ASSUME TypeOK, StepsInv, NEW p \in Shapers, pc[p] # "idle", NEW c, Proceed(p, c)
  PROVE  /\ pc'      = [pc EXCEPT ![p] = pc'[p]] /\ pc'[p] \in {"call", "done"}
         /\ at'      = [at EXCEPT ![p] = at'[p]] /\ at'[p] \in 1..Len(job[p].steps) /\ at'[p] \in 1..4
         /\ code'    = [code EXCEPT ![p] = "none"]
         /\ failed'  = [failed EXCEPT ![p] = (@ \/ c # "ok")]
         /\ changed' = [changed EXCEPT ![p] = FALSE]
         /\ job'     = job
         /\ pc'[p] = "call" => at'[p] = at[p] + 1 /\ (c = "ok" \/ ~job[p].strict)
         /\ pc'[p] = "done" => at'[p] = at[p] /\ (at[p] = Len(job[p].steps) \/ c # "ok")
<1>1. /\ at[p] \in 1..Len(job[p].steps) /\ Len(job[p].steps) \in Nat /\ Len(job[p].steps) <= 4
      /\ at \in [Shapers -> 1..4] /\ pc \in [Shapers -> Labels]
  BY DEF StepsInv, TypeOK
<1>2. CASE at[p] = Len(job[p].steps) \/ (c # "ok" /\ job[p].strict)
  <2>1. pc' = [pc EXCEPT ![p] = "done"] /\ at' = at
    BY <1>2 DEF Proceed, Goto
  <2>2. QED
    BY <1>1, <1>2, <2>1 DEF Proceed
<1>3. CASE ~(at[p] = Len(job[p].steps) \/ (c # "ok" /\ job[p].strict))
  <2>1. pc' = [pc EXCEPT ![p] = "call"] /\ at' = [at EXCEPT ![p] = at[p] + 1]
    BY <1>3 DEF Proceed, Goto
  <2>2. at[p] + 1 \in 1..Len(job[p].steps) /\ at[p] + 1 \in 1..4
    BY <1>1, <1>3
  <2>3. QED
    BY <1>1, <1>3, <2>1, <2>2 DEF Proceed
<1>4. QED
  BY <1>2, <1>3

\* And its types.
LEMMA ProceedTypes ==
  ASSUME TypeOK, StepsInv, NEW p \in Shapers, pc[p] # "idle", NEW c, Proceed(p, c)
  PROVE  /\ pc' \in [Shapers -> Labels] /\ at' \in [Shapers -> 1..4] /\ code' \in [Shapers -> Codes]
         /\ failed' \in [Shapers -> BOOLEAN] /\ changed' \in [Shapers -> BOOLEAN]
<1>1. pc' \in [Shapers -> Labels] /\ at' \in [Shapers -> 1..4]
  BY ProceedFacts DEF TypeOK, Labels
<1>2. code' \in [Shapers -> Codes]
  BY ProceedFacts DEF TypeOK, Codes
<1>3. failed' \in [Shapers -> BOOLEAN] /\ changed' \in [Shapers -> BOOLEAN]
  BY ZenonT(20) DEF TypeOK, Proceed
<1>4. QED
  BY <1>1, <1>2, <1>3

\* Every step keeps StepsInv.
LEMMA StepsStep ==
  ASSUME TypeOK, StepsInv, LabelInv, [Next]_vars
  PROVE  StepsInv'
<1>b. ASSUME NEW p \in Shapers, NEW q \in Shapers, Outlive(p, q) PROVE GivenUp(p, q)
  BY <1>b, Outlived
<1> USE DEF TypeOK, StepsInv
<1>1. ASSUME NEW p \in Shapers, Begin(p) PROVE StepsInv'
  <2>1. PICK j \in Jobs : job' = [job EXCEPT ![p] = j]
    BY <1>1 DEF Begin
  <2>a. j.steps \in Seq(GoodSteps) /\ Len(j.steps) \in 1..4 /\ at[p] = 1
    BY <1>1, JobsAreGood DEF Begin, LabelInv
  <2>2. j.steps \in Seq(GoodSteps) /\ Len(j.steps) <= 4 /\ 1 \in 1..Len(j.steps) /\ at[p] = 1
    <3>1. \A n \in 1..4 : n <= 4 /\ 1 \in 1..n
      OBVIOUS
    <3>2. QED
      BY <2>a, <3>1
  <2>3. job'[p] = j /\ at'[p] = 1 /\ \A q \in Shapers : q # p => pc'[q] = pc[q] /\ job'[q] = job[q] /\ at'[q] = at[q]
    BY <1>1, <2>1, <2>2 DEF Begin, Goto
  <2>4. ASSUME NEW q \in Shapers, pc'[q] # "idle"
        PROVE  /\ job'[q].steps \in Seq(GoodSteps) /\ Len(job'[q].steps) <= 4
               /\ at'[q] \in 1..Len(job'[q].steps)
    <3>1. CASE q = p
      <4>1. job'[q].steps = j.steps /\ at'[q] = 1
        BY <2>3, <3>1
      <4>2. QED
        BY <2>2, <4>1
    <3>2. CASE q # p
      BY <2>3, <2>4, <3>2
    <3>3. QED
      BY <3>1, <3>2
  <2>5. QED
    BY <2>4
<1>2. ASSUME NEW p \in Shapers, Finish(p) PROVE StepsInv'
  BY <1>2 DEF Finish, Goto
<1>3. ASSUME NEW p \in Shapers, Reject(p) PROVE StepsInv'
  <2>1. pc[p] # "idle"
    BY <1>3 DEF Reject
  <2>2. QED
    BY <1>3, <2>1, ProceedFacts DEF Reject
<1>4. ASSUME NEW p \in Shapers, Lock(p) PROVE StepsInv'
  BY <1>4 DEF Lock, Goto, hist
<1>5. ASSUME NEW p \in Shapers, Check(p) PROVE StepsInv'
  BY <1>5 DEF Check, Exit, Goto, hist
<1>6. ASSUME NEW p \in Shapers, AddRoot(p) PROVE StepsInv'
  BY <1>6 DEF AddRoot, Exit, Goto, Change
<1>7. ASSUME NEW p \in Shapers, AddChild(p) PROVE StepsInv'
  BY <1>7 DEF AddChild, Exit, Goto, Change
<1>8. ASSUME NEW p \in Shapers, AddFails(p) PROVE StepsInv'
  BY <1>8 DEF AddFails, Exit, Goto
<1>9. ASSUME NEW p \in Shapers, DelRoot(p) PROVE StepsInv'
  BY <1>9 DEF DelRoot, Exit, Goto, Change
<1>10. ASSUME NEW p \in Shapers, DelFails(p) PROVE StepsInv'
  BY <1>10 DEF DelFails, Exit, Goto
<1>11. ASSUME NEW p \in Shapers, Leave(p) PROVE StepsInv'
  <2>1. pc[p] # "idle"
    BY <1>11 DEF Leave
  <2>2. QED
    BY <1>11, <2>1, ProceedFacts DEF Leave
<1>12. ASSUME NEW p \in Shapers, Kill(p) PROVE StepsInv'
  <2>1. pc[p] # "idle"
    BY <1>12 DEF Kill
  <2>2. QED
    BY <1>12, <2>1, ProceedFacts DEF Kill, Nobody
<1>13. ASSUME NEW p \in Shapers, Abandon(p) PROVE StepsInv'
  <2>1. Step(p) \in GoodSteps
    BY <1>13, StepFacts DEF Abandon
  <2>2. <<Step(p)>> \in Seq(GoodSteps) /\ Len(<<Step(p)>>) = 1
    BY <2>1
  <2>3. job' = [job EXCEPT ![p] = Lone(Step(p))] /\ Lone(Step(p)).steps = <<Step(p)>>
    BY <1>13 DEF Abandon, Lone, Job
  <2>4. /\ job'[p].steps = <<Step(p)>> /\ at'[p] = 1
        /\ \A q \in Shapers : q # p => job'[q] = job[q] /\ at'[q] = at[q]
    BY <1>13, <2>3 DEF Abandon
  <2>5. ASSUME NEW q \in Shapers, pc'[q] # "idle"
        PROVE  /\ job'[q].steps \in Seq(GoodSteps) /\ Len(job'[q].steps) <= 4
               /\ at'[q] \in 1..Len(job'[q].steps)
    <3>1. CASE q = p
      <4>1. job'[q].steps = <<Step(p)>> /\ at'[q] = 1
        BY <2>4, <3>1
      <4>2. QED
        BY <2>2, <4>1
    <3>2. CASE q # p
      BY <1>13, <2>4, <2>5, <3>2 DEF Abandon
    <3>3. QED
      BY <3>1, <3>2
  <2>6. QED
    BY <2>5
<1>o. ASSUME NEW p \in Shapers, NEW q \in Shapers, Outlive(p, q) PROVE StepsInv'
  <2>0. GivenUp(p, q)
    BY <1>o, <1>b
  <2>1. /\ <<Step(p)>> \in Seq(GoodSteps) /\ Len(<<Step(p)>>) = 1 /\ Lone(Step(p)).steps = <<Step(p)>>
    <3>1. Step(p) \in GoodSteps
      BY <2>0, StepFacts DEF GivenUp
    <3>2. QED
      BY <3>1 DEF Lone, Job
  <2>2. ASSUME NEW r \in Shapers, pc'[r] # "idle"
        PROVE  /\ job'[r].steps \in Seq(GoodSteps) /\ Len(job'[r].steps) <= 4
               /\ at'[r] \in 1..Len(job'[r].steps)
    <3>1. CASE r = p
      <4>1. job'[r].steps = <<Step(p)>> /\ at'[r] = 1
        BY <2>0, <2>1, <3>1 DEF GivenUp
      <4>2. QED
        BY <2>1, <4>1
    <3>2. CASE r = q
      BY <2>0, <3>2 DEF GivenUp
    <3>3. CASE r \notin {p, q}
      BY <2>0, <2>2, <3>3 DEF GivenUp
    <3>4. QED
      BY <3>1, <3>2, <3>3
  <2>3. QED
    BY <2>2
<1>14. ASSUME NEW c \in late, LateRuns(c) PROVE StepsInv'
  BY <1>14 DEF LateRuns, work
<1>15. CASE LabGoes
  BY <1>15 DEF LabGoes, Nobody, work
<1>16. CASE LabComes
  BY <1>16 DEF LabComes, Nobody, work
<1>17. CASE UNCHANGED vars
  BY <1>17 DEF vars, work, hist
<1>18. QED
  BY <1>1, <1>2, <1>3, <1>4, <1>5, <1>6, <1>7, <1>8, <1>9, <1>10,
     <1>11, <1>12, <1>13, <1>o, <1>14, <1>15, <1>16, <1>17
     DEF Next, Compose, NetemApply, NetemClear

\* Every step keeps the types.
LEMMA TypeStep ==
  ASSUME TypeOK, StepsInv, LabelInv, LateInv, StepsInv', [Next]_vars
  PROVE  TypeOK'
<1>a. InsideJob'
  BY DEF StepsInv, InsideJob
<1>b. ASSUME NEW p \in Shapers, NEW q \in Shapers, Outlive(p, q) PROVE GivenUp(p, q)
  BY <1>b, Outlived
<1> USE <1>a DEF TypeOK, Labels, Locked, Codes
<1>1. ASSUME NEW p \in Shapers, Begin(p) PROVE TypeOK'
  <2>1. job' \in [Shapers -> AnyJob]
    BY <1>1 DEF Begin, AnyJob
  <2>2. QED
    BY <1>1, <2>1 DEF Begin, Goto
<1>2. ASSUME NEW p \in Shapers, Finish(p) PROVE TypeOK'
  <2>1. job' \in [Shapers -> AnyJob]
    BY <1>2 DEF Finish, AnyJob
  <2>2. QED
    BY <1>2, <2>1 DEF Finish, Goto
<1>3. ASSUME NEW p \in Shapers, Reject(p) PROVE TypeOK'
  <2>1. pc[p] # "idle"
    BY <1>3 DEF Reject
  <2>2. QED
    BY <1>3, <2>1, ProceedTypes, ProceedFacts DEF Reject
<1>4. ASSUME NEW p \in Shapers, Lock(p) PROVE TypeOK'
  BY <1>4 DEF Lock, Goto, hist
<1>5. ASSUME NEW p \in Shapers, Check(p) PROVE TypeOK'
  BY <1>5 DEF Check, Exit, Goto, hist
<1>6. ASSUME NEW p \in Shapers, AddRoot(p) PROVE TypeOK'
  <2>1. tree' \in [Ifaces -> Trees]
    BY <1>6, StepFacts DEF AddRoot, Change, Trees, After, Bare, LabelInv, Accepts, Shapes
  <2>2. QED
    BY <1>6, <2>1 DEF AddRoot, Change, Exit, Goto
<1>7. ASSUME NEW p \in Shapers, AddChild(p) PROVE TypeOK'
  <2>1. tree' \in [Ifaces -> Trees]
    BY <1>7, StepFacts DEF AddChild, Change, Trees, After, Bare, LabelInv, Accepts, Shapes
  <2>2. QED
    BY <1>7, <2>1 DEF AddChild, Change, Exit, Goto
<1>8. ASSUME NEW p \in Shapers, AddFails(p) PROVE TypeOK'
  <2>1. Iface(p) \in Ifaces
    BY <1>8, StepFacts DEF AddFails
  <2>2. torn' \subseteq Ifaces /\ code' \in [Shapers -> Codes] /\ pc' \in [Shapers -> Labels]
    BY <1>8, <2>1 DEF AddFails, Exit, Goto
  <2>3. alone' \in [Shapers -> BOOLEAN]
    BY <1>8 DEF AddFails
  <2>4. QED
    BY <1>8, <2>2, <2>3 DEF AddFails
<1>9. ASSUME NEW p \in Shapers, DelRoot(p) PROVE TypeOK'
  <2>1. tree' \in [Ifaces -> Trees]
    BY <1>9, StepFacts DEF DelRoot, Change, Trees, After, Bare, LabelInv, Accepts, Shapes
  <2>2. QED
    BY <1>9, <2>1 DEF DelRoot, Change, Exit, Goto
<1>10. ASSUME NEW p \in Shapers, DelFails(p) PROVE TypeOK'
  BY <1>10 DEF DelFails, Exit, Goto
<1>11. ASSUME NEW p \in Shapers, Leave(p) PROVE TypeOK'
  <2>1. pc[p] # "idle"
    BY <1>11 DEF Leave
  <2>2. QED
    BY <1>11, <2>1, ProceedTypes, ProceedFacts DEF Leave
<1>12. ASSUME NEW p \in Shapers, Kill(p) PROVE TypeOK'
  <2>1. pc[p] # "idle"
    BY <1>12 DEF Kill
  <2>2. late' \subseteq LateCmds /\ torn' \subseteq Ifaces
    <3>1. Iface(p) \in Ifaces
      BY <2>1, StepFacts
    <3>2. pc[p] \in {"root", "child", "del"} => Shape(p) \in Shapes \cup {NoShape}
      BY <2>1, StepFacts DEF LabelInv
    <3>3. QED
      BY <1>12, <3>1, <3>2 DEF Kill, LateCmds
  <2>3. QED
    BY <1>12, <2>1, <2>2, ProceedTypes, ProceedFacts DEF Kill, Nobody
<1>13. ASSUME NEW p \in Shapers, Abandon(p) PROVE TypeOK'
  <2>1. Step(p) \in Steps
    BY <1>13, StepFacts DEF Abandon
  <2>2. job' \in [Shapers -> AnyJob]
    BY <1>13, <2>1 DEF Abandon, AnyJob
  <2>3. QED
    BY <1>13, <2>2 DEF Abandon, Nobody
<1>o. ASSUME NEW p \in Shapers, NEW q \in Shapers, Outlive(p, q) PROVE TypeOK'
  <2>0. GivenUp(p, q)
    BY <1>o, <1>b
  <2>1. Step(p) \in Steps
    BY <2>0, StepFacts DEF GivenUp
  <2>2. job' \in [Shapers -> AnyJob]
    BY <1>o, <2>1 DEF Outlive, AnyJob
  <2>3. at' \in [Shapers -> 1..4] /\ failed' \in [Shapers -> BOOLEAN] /\ pc' \in [Shapers -> Labels]
    <3>1. at[p] + 1 \in 1..4 /\ 1 \in 1..4
      BY <2>0 DEF GivenUp
    <3>2. /\ pc' = [pc EXCEPT ![q] = "call"]
          /\ at' = [at EXCEPT ![p] = 1, ![q] = at[p] + 1]
          /\ failed' = [failed EXCEPT ![p] = FALSE, ![q] = TRUE]
      BY <1>o DEF Outlive
    <3>3. at' \in [Shapers -> 1..4] /\ pc' \in [Shapers -> Labels]
      BY <3>1, <3>2
    <3>4. failed' \in [Shapers -> BOOLEAN]
      BY <3>2
    <3>5. QED
      BY <3>3, <3>4
  <2>4. QED
    BY <1>o, <2>2, <2>3 DEF Outlive, Nobody
<1>14. ASSUME NEW c \in late, LateRuns(c) PROVE TypeOK'
  <2>1. c \in LateCmds /\ (c.op = "root" => c.shape \in Shapes) /\ (c.op = "child" => c.shape \in ChildShapes)
    BY <1>14 DEF LateInv
  <2>2. tree' \in [Ifaces -> Trees] /\ torn' \subseteq Ifaces /\ meddled' \subseteq Ifaces
    BY <1>14, <2>1 DEF LateRuns, Trees, LateCmds, After, Bare
  <2>3. QED
    BY <1>14, <2>2 DEF LateRuns, work
<1>15. CASE LabGoes
  <2>1. tree' \in [Ifaces -> Trees]
    BY <1>15 DEF LabGoes, Trees, Bare
  <2>2. QED
    BY <1>15, <2>1 DEF LabGoes, Nobody, work
<1>16. CASE LabComes
  BY <1>16 DEF LabComes, Nobody, work
<1>17. CASE UNCHANGED vars
  BY <1>17 DEF vars, work, hist
<1>18. QED
  BY <1>1, <1>2, <1>3, <1>4, <1>5, <1>6, <1>7, <1>8, <1>9, <1>10,
     <1>11, <1>12, <1>13, <1>o, <1>14, <1>15, <1>16, <1>17
     DEF Next, Compose, NetemApply, NetemClear

\* Every step keeps LockInv.
LEMMA LockStep ==
  ASSUME TypeOK, StepsInv, LockInv, [Next]_vars
  PROVE  LockInv'
<1>b. ASSUME NEW p \in Shapers, NEW q \in Shapers, Outlive(p, q) PROVE GivenUp(p, q)
  BY <1>b, Outlived
<1> USE ShapesAssumption, ProfilesAssumption, NullAssumption DEF TypeOK, LockInv, Labels, Locked
<1>1. ASSUME NEW p \in Shapers, Begin(p) PROVE LockInv'
  BY <1>1 DEF Begin, Goto
<1>2. ASSUME NEW p \in Shapers, Finish(p) PROVE LockInv'
  BY <1>2 DEF Finish, Goto
<1>3. ASSUME NEW p \in Shapers, Reject(p) PROVE LockInv'
  <2>1. pc[p] # "idle"
    BY <1>3 DEF Reject
  <2>2. QED
    BY <1>3, <2>1, ProceedFacts DEF Reject
<1>4. ASSUME NEW p \in Shapers, Lock(p) PROVE LockInv'
  BY <1>4 DEF Lock, Goto, hist
<1>5. ASSUME NEW p \in Shapers, Check(p) PROVE LockInv'
  BY <1>5 DEF Check, Exit, Goto, hist
<1>6. ASSUME NEW p \in Shapers, AddRoot(p) PROVE LockInv'
  BY <1>6 DEF AddRoot, Exit, Goto, Change
<1>7. ASSUME NEW p \in Shapers, AddChild(p) PROVE LockInv'
  BY <1>7 DEF AddChild, Exit, Goto, Change
<1>8. ASSUME NEW p \in Shapers, AddFails(p) PROVE LockInv'
  BY <1>8 DEF AddFails, Exit, Goto
<1>9. ASSUME NEW p \in Shapers, DelRoot(p) PROVE LockInv'
  BY <1>9 DEF DelRoot, Exit, Goto, Change
<1>10. ASSUME NEW p \in Shapers, DelFails(p) PROVE LockInv'
  BY <1>10 DEF DelFails, Exit, Goto
<1>11. ASSUME NEW p \in Shapers, Leave(p) PROVE LockInv'
  <2>1. pc[p] # "idle"
    BY <1>11 DEF Leave
  <2>2. QED
    BY <1>11, <2>1, ProceedFacts DEF Leave
<1>12. ASSUME NEW p \in Shapers, Kill(p) PROVE LockInv'
  <2>1. pc[p] # "idle"
    BY <1>12 DEF Kill
  <2>2. QED
    BY <1>12, <2>1, ProceedFacts DEF Kill, Nobody
<1>13. ASSUME NEW p \in Shapers, Abandon(p) PROVE LockInv'
  BY <1>13 DEF Abandon, Nobody
<1>o. ASSUME NEW p \in Shapers, NEW q \in Shapers, Outlive(p, q) PROVE LockInv'
  <2>0. GivenUp(p, q)
    BY <1>o, <1>b
  <2>1. pc[q] = "idle" /\ pc' = [pc EXCEPT ![q] = "call"] /\ lock' = lock
    BY <2>0 DEF GivenUp
  <2>2. QED
    BY <2>1
<1>14. ASSUME NEW c \in late, LateRuns(c) PROVE LockInv'
  BY <1>14 DEF LateRuns, work
<1>15. CASE LabGoes
  BY <1>15 DEF LabGoes, Nobody, work
<1>16. CASE LabComes
  BY <1>16 DEF LabComes, Nobody, work
<1>17. CASE UNCHANGED vars
  BY <1>17 DEF vars, work, hist
<1>18. QED
  BY <1>1, <1>2, <1>3, <1>4, <1>5, <1>6, <1>7, <1>8, <1>9, <1>10,
     <1>11, <1>12, <1>13, <1>o, <1>14, <1>15, <1>16, <1>17
     DEF Next, Compose, NetemApply, NetemClear

\* Every step keeps LabelInv.
LEMMA LabelStep ==
  ASSUME TypeOK, StepsInv, LabelInv, [Next]_vars
  PROVE  LabelInv'
<1>b. ASSUME NEW p \in Shapers, NEW q \in Shapers, Outlive(p, q) PROVE GivenUp(p, q)
  BY <1>b, Outlived
<1> USE ShapesAssumption, ProfilesAssumption, NullAssumption DEF TypeOK, LabelInv, Labels, Locked,
    Step, Shape
<1>1. ASSUME NEW p \in Shapers, Begin(p) PROVE LabelInv'
  BY <1>1 DEF Begin, Goto
<1>2. ASSUME NEW p \in Shapers, Finish(p) PROVE LabelInv'
  BY <1>2 DEF Finish, Goto
<1>3. ASSUME NEW p \in Shapers, Reject(p) PROVE LabelInv'
  <2>1. pc[p] # "idle"
    BY <1>3 DEF Reject
  <2>2. QED
    BY <1>3, <2>1, ProceedFacts DEF Reject
<1>4. ASSUME NEW p \in Shapers, Lock(p) PROVE LabelInv'
  BY <1>4 DEF Lock, Goto, hist
<1>5. ASSUME NEW p \in Shapers, Check(p) PROVE LabelInv'
  <2>1. Step(p).op \in {"clear", "apply"} /\ (Step(p).op = "apply" => Shape(p) \in Inputs)
    BY <1>5, StepFacts DEF Check
  <2>2. Step(p).op = "apply" /\ Shape(p) # BadChild => Shape(p) \in Shapes
    BY <1>5, <2>1 DEF Check, Inputs
  <2>3. QED
    BY <1>5, <2>1, <2>2 DEF Check, Exit, Goto, hist
<1>6. ASSUME NEW p \in Shapers, AddRoot(p) PROVE LabelInv'
  BY <1>6 DEF AddRoot, Exit, Goto, Change
<1>7. ASSUME NEW p \in Shapers, AddChild(p) PROVE LabelInv'
  BY <1>7 DEF AddChild, Exit, Goto, Change
<1>8. ASSUME NEW p \in Shapers, AddFails(p) PROVE LabelInv'
  BY <1>8 DEF AddFails, Exit, Goto
<1>9. ASSUME NEW p \in Shapers, DelRoot(p) PROVE LabelInv'
  BY <1>9 DEF DelRoot, Exit, Goto, Change
<1>10. ASSUME NEW p \in Shapers, DelFails(p) PROVE LabelInv'
  BY <1>10 DEF DelFails, Exit, Goto
<1>11. ASSUME NEW p \in Shapers, Leave(p) PROVE LabelInv'
  <2>1. pc[p] # "idle"
    BY <1>11 DEF Leave
  <2>2. QED
    BY <1>11, <2>1, ProceedFacts DEF Leave
<1>12. ASSUME NEW p \in Shapers, Kill(p) PROVE LabelInv'
  <2>1. pc[p] # "idle"
    BY <1>12 DEF Kill
  <2>2. QED
    BY <1>12, <2>1, ProceedFacts DEF Kill, Nobody
<1>13. ASSUME NEW p \in Shapers, Abandon(p) PROVE LabelInv'
  <2>1. /\ job'[p].steps[1] = Step(p) /\ at'[p] = 1
        /\ \A q \in Shapers : q # p => job'[q] = job[q] /\ at'[q] = at[q]
    BY <1>13 DEF Abandon, Lone, Job
  <2>2. \A q \in Shapers : Step(q)' = Step(q)
    BY <2>1
  <2>3. pc[p] # "idle" /\ UNCHANGED <<pc, code, changed>> /\ failed' = [failed EXCEPT ![p] = FALSE]
    BY <1>13 DEF Abandon
  <2>4. QED
    BY <2>1, <2>2, <2>3
<1>o. ASSUME NEW p \in Shapers, NEW q \in Shapers, Outlive(p, q) PROVE LabelInv'
  <2>0. GivenUp(p, q)
    BY <1>o, <1>b
  <2>1. /\ pc' = [pc EXCEPT ![q] = "call"] /\ pc[q] = "idle" /\ pc[p] # "idle"
        /\ \A r \in Shapers \ {q} : Step(r)' = Step(r)
        /\ \A r \in Shapers \ {p, q} : at'[r] = at[r] /\ failed'[r] = failed[r]
        /\ UNCHANGED <<code, changed>>
    BY <2>0 DEF GivenUp
  <2>2. QED
    BY <2>1
<1>14. ASSUME NEW c \in late, LateRuns(c) PROVE LabelInv'
  BY <1>14 DEF LateRuns, work
<1>15. CASE LabGoes
  BY <1>15 DEF LabGoes, Nobody, work
<1>16. CASE LabComes
  BY <1>16 DEF LabComes, Nobody, work
<1>17. CASE UNCHANGED vars
  BY <1>17 DEF vars, work, hist
<1>18. QED
  BY <1>1, <1>2, <1>3, <1>4, <1>5, <1>6, <1>7, <1>8, <1>9, <1>10,
     <1>11, <1>12, <1>13, <1>o, <1>14, <1>15, <1>16, <1>17
     DEF Next, Compose, NetemApply, NetemClear

\* Every step keeps LateInv.
LEMMA LateStep ==
  ASSUME TypeOK, StepsInv, LabelInv, LateInv, [Next]_vars
  PROVE  LateInv'
<1> USE DEF LateInv, LabelInv
<1>1. ASSUME NEW p \in Shapers, Begin(p) PROVE LateInv'
  BY <1>1 DEF Begin, Goto
<1>2. ASSUME NEW p \in Shapers, Finish(p) PROVE LateInv'
  BY <1>2 DEF Finish, Goto
<1>3. ASSUME NEW p \in Shapers, Reject(p) PROVE LateInv'
  <2>1. pc[p] # "idle"
    BY <1>3 DEF Reject
  <2>2. QED
    BY <1>3, <2>1, ProceedFacts DEF Reject
<1>4. ASSUME NEW p \in Shapers, Lock(p) PROVE LateInv'
  BY <1>4 DEF Lock, Goto, hist
<1>5. ASSUME NEW p \in Shapers, Check(p) PROVE LateInv'
  BY <1>5 DEF Check, Exit, Goto, hist
<1>6. ASSUME NEW p \in Shapers, AddRoot(p) PROVE LateInv'
  BY <1>6 DEF AddRoot, Exit, Goto, Change
<1>7. ASSUME NEW p \in Shapers, AddChild(p) PROVE LateInv'
  BY <1>7 DEF AddChild, Exit, Goto, Change
<1>8. ASSUME NEW p \in Shapers, AddFails(p) PROVE LateInv'
  BY <1>8 DEF AddFails, Exit, Goto
<1>9. ASSUME NEW p \in Shapers, DelRoot(p) PROVE LateInv'
  BY <1>9 DEF DelRoot, Exit, Goto, Change
<1>10. ASSUME NEW p \in Shapers, DelFails(p) PROVE LateInv'
  BY <1>10 DEF DelFails, Exit, Goto
<1>11. ASSUME NEW p \in Shapers, Leave(p) PROVE LateInv'
  <2>1. pc[p] # "idle"
    BY <1>11 DEF Leave
  <2>2. QED
    BY <1>11, <2>1, ProceedFacts DEF Leave
<1>12. ASSUME NEW p \in Shapers, Kill(p) PROVE LateInv'
  <2>1. pc[p] # "idle"
    BY <1>12 DEF Kill
  <2>2. QED
    BY <1>12, <2>1, ProceedFacts DEF Kill, Nobody
<1>13. ASSUME NEW p \in Shapers, Abandon(p) PROVE LateInv'
  BY <1>13 DEF Abandon, Nobody
<1>o. ASSUME NEW p \in Shapers, NEW q \in Shapers, Outlive(p, q) PROVE LateInv'
  BY <1>o DEF Outlive
<1>14. ASSUME NEW c \in late, LateRuns(c) PROVE LateInv'
  BY <1>14 DEF LateRuns, work
<1>15. CASE LabGoes
  BY <1>15 DEF LabGoes, Nobody, work
<1>16. CASE LabComes
  BY <1>16 DEF LabComes, Nobody, work
<1>17. CASE UNCHANGED vars
  BY <1>17 DEF vars, work, hist
<1>18. QED
  BY <1>1, <1>2, <1>3, <1>4, <1>5, <1>6, <1>7, <1>8, <1>9, <1>10,
     <1>11, <1>12, <1>13, <1>o, <1>14, <1>15, <1>16, <1>17
     DEF Next, Compose, NetemApply, NetemClear

\* Every step keeps RejectedChangesNothing.
LEMMA RejectedStep ==
  ASSUME TypeOK, StepsInv, LabelInv, RejectedChangesNothing, [Next]_vars
  PROVE  RejectedChangesNothing'
<1> USE DEF TypeOK, LabelInv, RejectedChangesNothing
<1>1. ASSUME NEW p \in Shapers, Begin(p) PROVE RejectedChangesNothing'
  BY <1>1 DEF Begin, Goto
<1>2. ASSUME NEW p \in Shapers, Finish(p) PROVE RejectedChangesNothing'
  BY <1>2 DEF Finish, Goto
<1>3. ASSUME NEW p \in Shapers, Reject(p) PROVE RejectedChangesNothing'
  <2>1. pc[p] # "idle"
    BY <1>3 DEF Reject
  <2>2. QED
    BY <1>3, <2>1, ProceedFacts DEF Reject
<1>4. ASSUME NEW p \in Shapers, Lock(p) PROVE RejectedChangesNothing'
  BY <1>4 DEF Lock, Goto, hist
<1>5. ASSUME NEW p \in Shapers, Check(p) PROVE RejectedChangesNothing'
  BY <1>5 DEF Check, Exit, Goto, hist
<1>6. ASSUME NEW p \in Shapers, AddRoot(p) PROVE RejectedChangesNothing'
  BY <1>6 DEF AddRoot, Exit, Goto, Change
<1>7. ASSUME NEW p \in Shapers, AddChild(p) PROVE RejectedChangesNothing'
  BY <1>7 DEF AddChild, Exit, Goto, Change
<1>8. ASSUME NEW p \in Shapers, AddFails(p) PROVE RejectedChangesNothing'
  BY <1>8 DEF AddFails, Exit, Goto
<1>9. ASSUME NEW p \in Shapers, DelRoot(p) PROVE RejectedChangesNothing'
  BY <1>9 DEF DelRoot, Exit, Goto, Change
<1>10. ASSUME NEW p \in Shapers, DelFails(p) PROVE RejectedChangesNothing'
  BY <1>10 DEF DelFails, Exit, Goto
<1>11. ASSUME NEW p \in Shapers, Leave(p) PROVE RejectedChangesNothing'
  <2>1. pc[p] # "idle"
    BY <1>11 DEF Leave
  <2>2. QED
    BY <1>11, <2>1, ProceedFacts DEF Leave
<1>12. ASSUME NEW p \in Shapers, Kill(p) PROVE RejectedChangesNothing'
  <2>1. pc[p] # "idle"
    BY <1>12 DEF Kill
  <2>2. QED
    BY <1>12, <2>1, ProceedFacts DEF Kill, Nobody
<1>13. ASSUME NEW p \in Shapers, Abandon(p) PROVE RejectedChangesNothing'
  BY <1>13 DEF Abandon, Nobody
<1>o. ASSUME NEW p \in Shapers, NEW q \in Shapers, Outlive(p, q) PROVE RejectedChangesNothing'
  BY <1>o DEF Outlive
<1>14. ASSUME NEW c \in late, LateRuns(c) PROVE RejectedChangesNothing'
  BY <1>14 DEF LateRuns, work
<1>15. CASE LabGoes
  BY <1>15 DEF LabGoes, Nobody, work
<1>16. CASE LabComes
  BY <1>16 DEF LabComes, Nobody, work
<1>17. CASE UNCHANGED vars
  BY <1>17 DEF vars, work, hist
<1>18. QED
  BY <1>1, <1>2, <1>3, <1>4, <1>5, <1>6, <1>7, <1>8, <1>9, <1>10,
     <1>11, <1>12, <1>13, <1>o, <1>14, <1>15, <1>16, <1>17
     DEF Next, Compose, NetemApply, NetemClear

\* What each command makes of the qdiscs of its interface.
LEMMA RootAdded ==
  ASSUME TypeOK, StepsInv, LabelInv, TreeInv, NEW p \in Shapers, AddRoot(p)
  PROVE  /\ pc[p] = "root" /\ Iface(p) \in Ifaces /\ Shape(p) \in Shapes
         /\ tree[Iface(p)] = Bare
         /\ tree' = [tree EXCEPT ![Iface(p)] = HalfOf(Shape(p))]
<1>1. pc[p] = "root" /\ Iface(p) \in Ifaces /\ Shape(p) \in Shapes /\ tree[Iface(p)].root = NoShape
  BY StepFacts DEF AddRoot, Change, Accepts, LabelInv
<1>2. tree[Iface(p)].child = NoShape /\ tree[Iface(p)] \in Trees
  BY <1>1 DEF TreeInv, TypeOK
<1>3. tree[Iface(p)] = Bare
  BY <1>1, <1>2 DEF Trees, Bare
<1>4. tree' = [tree EXCEPT ![Iface(p)] = [Bare EXCEPT !.root = Shape(p)]]
  BY <1>1, <1>3 DEF AddRoot, Change, After
<1>5. [Bare EXCEPT !.root = Shape(p)] = HalfOf(Shape(p))
  BY DEF Bare, HalfOf
<1>6. QED
  BY <1>1, <1>3, <1>4, <1>5

\* Likewise for the child.
LEMMA ChildAdded ==
  ASSUME TypeOK, StepsInv, LabelInv, TreeInv, NEW p \in Shapers, AddChild(p)
  PROVE  /\ pc[p] = "child" /\ Iface(p) \in Ifaces /\ Shape(p) \in Shapes
         /\ tree[Iface(p)].root # NoShape
         /\ tree' = [tree EXCEPT ![Iface(p)] = [@ EXCEPT !.child = Shape(p)]]
         /\ tree[Iface(p)] = HalfOf(Shape(p)) => tree'[Iface(p)] = Whole(Shape(p))
         /\ Iface(p) \notin torn \cap meddled => tree[Iface(p)] = HalfOf(Shape(p))
<1>1. /\ pc[p] = "child" /\ Iface(p) \in Ifaces /\ Shape(p) \in Shapes /\ Shape(p) \in ChildShapes
      /\ tree[Iface(p)].root # NoShape
  BY StepFacts DEF AddChild, Change, Accepts, LabelInv
<1>2. tree' = [tree EXCEPT ![Iface(p)] = [tree[Iface(p)] EXCEPT !.child = Shape(p)]]
  BY <1>1 DEF AddChild, Change, After
<1>3. tree[Iface(p)] = HalfOf(Shape(p)) => tree'[Iface(p)] = Whole(Shape(p))
  BY <1>1, <1>2 DEF HalfOf, Whole, TypeOK
<1>4. QED
  BY <1>1, <1>2, <1>3 DEF TreeInv

\* Deleting the root leaves a bare interface.
LEMMA RootDeleted ==
  ASSUME StepsInv, NEW p \in Shapers, DelRoot(p)
  PROVE  /\ pc[p] = "del" /\ Iface(p) \in Ifaces
         /\ tree' = [tree EXCEPT ![Iface(p)] = Bare]
<1>1. pc[p] = "del" /\ Iface(p) \in Ifaces
  BY StepFacts DEF DelRoot
<1>2. QED
  BY <1>1 DEF DelRoot, Change, After

\* A late command changes nothing, or tears its interface and leaves no child alone there.
LEMMA LateChanges ==
  ASSUME TypeOK, LateInv, TreeInv, NEW c \in late, LateRuns(c)
  PROVE  \/ UNCHANGED <<tree, torn, meddled>>
         \/ /\ c.iface \in Ifaces /\ torn' = torn \cup {c.iface} /\ meddled' = meddled \cup {c.iface}
            /\ \A j \in Ifaces : j # c.iface => tree'[j] = tree[j]
            /\ tree'[c.iface].root = NoShape => tree'[c.iface].child = NoShape
<1>1. /\ c.iface \in Ifaces /\ c.op \in {"root", "child", "del"}
      /\ c.op \in {"root", "child"} => c.shape \in Inputs
      /\ tree \in [Ifaces -> Trees] /\ tree[c.iface] \in Trees
  BY DEF TypeOK, LateCmds, LateInv, Inputs, Shapes
<1>2. CASE UNCHANGED <<tree, torn, meddled>>
  BY <1>2
<1>3. CASE /\ Accepts(c.op, c.iface) /\ torn' = torn \cup {c.iface}
           /\ meddled' = meddled \cup {c.iface}
           /\ tree' = [tree EXCEPT ![c.iface] = After(c.op, c.shape, @)]
  <2>1. CASE c.op = "root"
    <3>1. tree'[c.iface].root = c.shape
      BY <1>1, <1>3, <2>1 DEF After, Trees
    <3>2. QED
      BY <1>1, <1>3, <2>1, <3>1, NullAssumption
  <2>2. CASE c.op = "child"
    <3>1. tree'[c.iface].root = tree[c.iface].root /\ tree[c.iface].root # NoShape
      BY <1>1, <1>3, <2>2 DEF After, Accepts, Trees
    <3>2. QED
      BY <1>1, <1>3, <3>1
  <2>3. CASE c.op = "del"
    <3>1. tree'[c.iface] = Bare
      BY <1>1, <1>3, <2>3 DEF After
    <3>2. QED
      BY <1>1, <1>3, <3>1 DEF Bare
  <2>4. QED
    BY <1>1, <2>1, <2>2, <2>3
<1>4. QED
  BY <1>2, <1>3 DEF LateRuns

\* A shaper whose job and place in it stay the same is at the same step.
LEMMA SameStep ==
  \A q \in Shapers : job'[q] = job[q] /\ at'[q] = at[q] =>
                     Step(q)' = Step(q) /\ Iface(q)' = Iface(q) /\ Shape(q)' = Shape(q)
BY DEF Step, Iface, Shape

\* Nor does it change when the npte of the step is left to itself.
LEMMA LoneStep ==
  ASSUME TypeOK, NEW p \in Shapers, Abandon(p), NEW q \in Shapers
  PROVE  Step(q)' = Step(q) /\ Iface(q)' = Iface(q) /\ Shape(q)' = Shape(q)
<1>1. /\ job'[p].steps[1] = Step(p) /\ at'[p] = 1
      /\ q # p => job'[q] = job[q] /\ at'[q] = at[q]
  BY DEF Abandon, Lone, Job, TypeOK
<1>2. CASE q = p
  BY <1>1, <1>2 DEF Step, Iface, Shape
<1>3. CASE q # p
  BY <1>1, <1>3, SameStep
<1>4. QED
  BY <1>2, <1>3

\* Every step keeps TreeInv.
LEMMA TreeStep ==
  ASSUME TypeOK, StepsInv, LockInv, LabelInv, LateInv, TreeInv, [Next]_vars
  PROVE  TreeInv'
<1>a. /\ \A p, q \in Shapers : pc[p] \in Locked /\ pc[q] \in Locked => p = q
      /\ \A p \in Shapers : pc[p] # "idle" => Iface(p) \in Ifaces
      /\ NoShape \notin Shapes /\ NoShape \notin ChildShapes /\ ChildShapes \subseteq Shapes
  BY StepFacts, NullAssumption DEF LockInv, Inputs, Shapes
<1>b. ASSUME NEW p \in Shapers, NEW q \in Shapers, Outlive(p, q) PROVE GivenUp(p, q)
  BY <1>b, Outlived
<1> USE <1>a, SameStep DEF TypeOK, TreeInv, Locked, Labels
<1>1. ASSUME NEW p \in Shapers, Begin(p) PROVE TreeInv'
  <2>1. /\ pc' = [pc EXCEPT ![p] = pc'[p]] /\ pc'[p] \in {"idle", "call"} /\ pc[p] \notin Locked
        /\ \A q \in Shapers : q # p => job'[q] = job[q] /\ at'[q] = at[q]
        /\ UNCHANGED <<lock, tree, torn, meddled, code>>
    BY <1>1 DEF Begin, Goto
  <2>2. QED
    BY <2>1, SameStep
<1>2. ASSUME NEW p \in Shapers, Finish(p) PROVE TreeInv'
  <2>1. /\ pc' = [pc EXCEPT ![p] = pc'[p]] /\ pc'[p] \in {"idle", "call"} /\ pc[p] \notin Locked
        /\ \A q \in Shapers : q # p => job'[q] = job[q] /\ at'[q] = at[q]
        /\ UNCHANGED <<lock, tree, torn, meddled, code>>
    BY <1>2 DEF Finish, Goto
  <2>2. QED
    BY <2>1, SameStep
<1>3. ASSUME NEW p \in Shapers, Reject(p) PROVE TreeInv'
  <2>1. pc[p] # "idle"
    BY <1>3 DEF Reject
  <2>2. /\ pc' = [pc EXCEPT ![p] = pc'[p]] /\ pc'[p] \in {"call", "done"}
        /\ code' = [code EXCEPT ![p] = "none"] /\ job' = job
        /\ \A q \in Shapers : q # p => at'[q] = at[q]
    BY <1>3, <2>1, ProceedFacts DEF Reject
  <2>3. QED
    BY <1>3, <2>1, <2>2, SameStep DEF Reject
<1>4. ASSUME NEW p \in Shapers, Lock(p) PROVE TreeInv'
  <2>1. /\ pc' = [pc EXCEPT ![p] = "check"] /\ meddled' = {}
        /\ UNCHANGED <<tree, torn, job, at, code>>
    BY <1>4 DEF Lock, Goto
  <2>2. \A q \in Shapers : pc[q] \notin Locked
    BY <1>4, NullAssumption DEF Lock, LockInv
  <2>3. QED
    BY <2>1, <2>2, SameStep
<1>5. ASSUME NEW p \in Shapers, Check(p) PROVE TreeInv'
  BY <1>5 DEF Check, Exit, Goto, hist
<1>6. ASSUME NEW p \in Shapers, AddRoot(p) PROVE TreeInv'
  <2>1. /\ pc[p] = "root" /\ Iface(p) \in Ifaces /\ Shape(p) \in Shapes /\ tree[Iface(p)] = Bare
        /\ tree' = [tree EXCEPT ![Iface(p)] = HalfOf(Shape(p))]
    BY <1>6, RootAdded
  <2>2. /\ pc' = [pc EXCEPT ![p] = IF Shape(p) \in ChildShapes THEN "child" ELSE "leave"]
        /\ UNCHANGED <<lock, job, at, torn, meddled>>
    BY <1>6 DEF AddRoot, Change, Exit, Goto
  <2>3. Shape(p) \notin ChildShapes => HalfOf(Shape(p)) = Whole(Shape(p))
    BY DEF HalfOf, Whole
  <2>4. HalfOf(Shape(p)).root # NoShape
    BY <2>1 DEF HalfOf
  <2>5. QED
    BY <2>1, <2>2, <2>3, <2>4, SameStep
<1>7. ASSUME NEW p \in Shapers, AddChild(p) PROVE TreeInv'
  <2>1. /\ pc[p] = "child" /\ Iface(p) \in Ifaces /\ Shape(p) \in Shapes
        /\ tree[Iface(p)].root # NoShape
        /\ tree' = [tree EXCEPT ![Iface(p)] = [@ EXCEPT !.child = Shape(p)]]
        /\ Iface(p) \notin torn => tree'[Iface(p)] = Whole(Shape(p))
    BY <1>7, ChildAdded
  <2>2. pc' = [pc EXCEPT ![p] = "leave"] /\ UNCHANGED <<lock, job, at, torn, meddled>>
    BY <1>7 DEF AddChild, Change, Exit, Goto
  <2>3. tree'[Iface(p)].root # NoShape /\ \A i \in Ifaces : i # Iface(p) => tree'[i] = tree[i]
    BY <2>1 DEF Trees
  <2>4. QED
    BY <2>1, <2>2, <2>3, SameStep
<1>8. ASSUME NEW p \in Shapers, AddFails(p) PROVE TreeInv'
  BY <1>8 DEF AddFails, Exit, Goto
<1>9. ASSUME NEW p \in Shapers, DelRoot(p) PROVE TreeInv'
  <2>1. pc[p] = "del" /\ Iface(p) \in Ifaces /\ tree' = [tree EXCEPT ![Iface(p)] = Bare]
    BY <1>9, RootDeleted
  <2>2. /\ pc' = [pc EXCEPT ![p] = "leave"] /\ torn' = torn \ {Iface(p)}
        /\ UNCHANGED <<lock, job, at, meddled>>
    BY <1>9 DEF DelRoot, Change, Exit, Goto
  <2>3. Bare.child = NoShape /\ Step(p).op = "clear"
    BY <2>1 DEF Bare, LabelInv
  <2>4. QED
    BY <2>1, <2>2, <2>3, SameStep
<1>10. ASSUME NEW p \in Shapers, DelFails(p) PROVE TreeInv'
  BY <1>10 DEF DelFails, Exit, Goto
<1>11. ASSUME NEW p \in Shapers, Leave(p) PROVE TreeInv'
  <2>1. pc[p] # "idle"
    BY <1>11 DEF Leave
  <2>2. /\ pc' = [pc EXCEPT ![p] = pc'[p]] /\ pc'[p] \in {"call", "done"}
        /\ code' = [code EXCEPT ![p] = "none"] /\ job' = job
        /\ \A q \in Shapers : q # p => at'[q] = at[q]
    BY <1>11, <2>1, ProceedFacts DEF Leave
  <2>3. QED
    BY <1>11, <2>1, <2>2, SameStep DEF Leave
<1>12. ASSUME NEW p \in Shapers, Kill(p) PROVE TreeInv'
  <2>1. pc[p] # "idle"
    BY <1>12 DEF Kill
  <2>2. /\ pc' = [pc EXCEPT ![p] = pc'[p]] /\ pc'[p] \in {"call", "done"}
        /\ code' = [code EXCEPT ![p] = "none"] /\ job' = job
        /\ \A q \in Shapers : q # p => at'[q] = at[q]
    BY <1>12, <2>1, ProceedFacts DEF Kill
  <2>3. QED
    BY <1>12, <2>1, <2>2, SameStep DEF Kill
<1>13. ASSUME NEW p \in Shapers, Abandon(p) PROVE TreeInv'
  <2>1. \A q \in Shapers : Step(q)' = Step(q) /\ Iface(q)' = Iface(q) /\ Shape(q)' = Shape(q)
    BY <1>13, LoneStep
  <2>2. QED
    BY <1>13, <2>1 DEF Abandon
<1>o. ASSUME NEW p \in Shapers, NEW q \in Shapers, Outlive(p, q) PROVE TreeInv'
  <2>0. GivenUp(p, q)
    BY <1>o, <1>b
  <2>1. /\ pc' = [pc EXCEPT ![q] = "call"] /\ pc[q] = "idle"
        /\ \A r \in Shapers \ {q} : Iface(r)' = Iface(r) /\ Shape(r)' = Shape(r)
        /\ UNCHANGED <<tree, torn, meddled>>
    BY <2>0 DEF GivenUp
  <2>2. QED
    BY <2>1
<1>14. ASSUME NEW c \in late, LateRuns(c) PROVE TreeInv'
  <2>1. \/ UNCHANGED <<tree, torn, meddled>>
        \/ /\ c.iface \in Ifaces /\ torn' = torn \cup {c.iface} /\ meddled' = meddled \cup {c.iface}
           /\ \A j \in Ifaces : j # c.iface => tree'[j] = tree[j]
           /\ tree'[c.iface].root = NoShape => tree'[c.iface].child = NoShape
    BY <1>14, LateChanges, NullAssumption
  <2>2. UNCHANGED <<pc, job, at, code, lock>>
    BY <1>14 DEF LateRuns, work
  <2>3. QED
    BY <2>1, <2>2, SameStep
<1>15. CASE LabGoes
  <2>1. \A i \in Ifaces : tree'[i] = Bare
    BY <1>15 DEF LabGoes
  <2>2. Bare.child = NoShape
    BY DEF Bare
  <2>3. \A q \in Shapers : pc[q] \notin Locked
    BY <1>15, NullAssumption DEF LabGoes, LockInv
  <2>4. QED
    BY <1>15, <2>1, <2>2, <2>3 DEF LabGoes, work
<1>16. CASE LabComes
  BY <1>16 DEF LabComes, Nobody, work
<1>17. CASE UNCHANGED vars
  BY <1>17 DEF vars, work, hist
<1>18. QED
  BY <1>1, <1>2, <1>3, <1>4, <1>5, <1>6, <1>7, <1>8, <1>9, <1>10,
     <1>11, <1>12, <1>13, <1>o, <1>14, <1>15, <1>16, <1>17
     DEF Next, Compose, NetemApply, NetemClear

\* Every step keeps ExitZeroIsWhole.
LEMMA ExitZeroStep ==
  ASSUME TypeOK, StepsInv, LockInv, LabelInv, LateInv, TreeInv, ExitZeroIsWhole, [Next]_vars
  PROVE  ExitZeroIsWhole'
<1>a. /\ \A p, q \in Shapers : pc[p] \in Locked /\ pc[q] \in Locked => p = q
      /\ \A p \in Shapers : pc[p] # "idle" => Iface(p) \in Ifaces
      /\ NoShape \notin Shapes /\ NoShape \notin ChildShapes /\ ChildShapes \subseteq Shapes
  BY StepFacts, NullAssumption DEF LockInv, Inputs, Shapes
<1>b. ASSUME NEW p \in Shapers, NEW q \in Shapers, Outlive(p, q) PROVE GivenUp(p, q)
  BY <1>b, Outlived
<1> USE <1>a, SameStep DEF TypeOK, ExitZeroIsWhole, Locked, Labels
<1>1. ASSUME NEW p \in Shapers, Begin(p) PROVE ExitZeroIsWhole'
  <2>1. /\ pc' = [pc EXCEPT ![p] = pc'[p]] /\ pc'[p] \in {"idle", "call"} /\ pc[p] \notin Locked
        /\ \A q \in Shapers : q # p => job'[q] = job[q] /\ at'[q] = at[q]
        /\ UNCHANGED <<lock, tree, torn, meddled, code>>
    BY <1>1 DEF Begin, Goto
  <2>2. QED
    BY <2>1, SameStep
<1>2. ASSUME NEW p \in Shapers, Finish(p) PROVE ExitZeroIsWhole'
  <2>1. /\ pc' = [pc EXCEPT ![p] = pc'[p]] /\ pc'[p] \in {"idle", "call"} /\ pc[p] \notin Locked
        /\ \A q \in Shapers : q # p => job'[q] = job[q] /\ at'[q] = at[q]
        /\ UNCHANGED <<lock, tree, torn, meddled, code>>
    BY <1>2 DEF Finish, Goto
  <2>2. QED
    BY <2>1, SameStep
<1>3. ASSUME NEW p \in Shapers, Reject(p) PROVE ExitZeroIsWhole'
  <2>1. pc[p] # "idle"
    BY <1>3 DEF Reject
  <2>2. /\ pc' = [pc EXCEPT ![p] = pc'[p]] /\ pc'[p] \in {"call", "done"}
        /\ code' = [code EXCEPT ![p] = "none"] /\ job' = job
        /\ \A q \in Shapers : q # p => at'[q] = at[q]
    BY <1>3, <2>1, ProceedFacts DEF Reject
  <2>3. QED
    BY <1>3, <2>1, <2>2, SameStep DEF Reject
<1>4. ASSUME NEW p \in Shapers, Lock(p) PROVE ExitZeroIsWhole'
  <2>1. /\ pc' = [pc EXCEPT ![p] = "check"] /\ meddled' = {}
        /\ UNCHANGED <<tree, torn, job, at, code>>
    BY <1>4 DEF Lock, Goto
  <2>2. \A q \in Shapers : pc[q] \notin Locked
    BY <1>4, NullAssumption DEF Lock, LockInv
  <2>3. QED
    BY <2>1, <2>2, SameStep
<1>5. ASSUME NEW p \in Shapers, Check(p) PROVE ExitZeroIsWhole'
  BY <1>5 DEF Check, Exit, Goto, hist
<1>6. ASSUME NEW p \in Shapers, AddRoot(p) PROVE ExitZeroIsWhole'
  <2>1. /\ pc[p] = "root" /\ Iface(p) \in Ifaces /\ Shape(p) \in Shapes /\ tree[Iface(p)] = Bare
        /\ tree' = [tree EXCEPT ![Iface(p)] = HalfOf(Shape(p))]
    BY <1>6, RootAdded
  <2>2. /\ pc' = [pc EXCEPT ![p] = IF Shape(p) \in ChildShapes THEN "child" ELSE "leave"]
        /\ UNCHANGED <<lock, job, at, torn, meddled>>
    BY <1>6 DEF AddRoot, Change, Exit, Goto
  <2>3. Shape(p) \notin ChildShapes => HalfOf(Shape(p)) = Whole(Shape(p))
    BY DEF HalfOf, Whole
  <2>4. HalfOf(Shape(p)).root # NoShape
    BY <2>1 DEF HalfOf
  <2>5. QED
    BY <2>1, <2>2, <2>3, <2>4, SameStep
<1>7. ASSUME NEW p \in Shapers, AddChild(p) PROVE ExitZeroIsWhole'
  <2>1. /\ pc[p] = "child" /\ Iface(p) \in Ifaces /\ Shape(p) \in Shapes
        /\ tree[Iface(p)].root # NoShape
        /\ tree' = [tree EXCEPT ![Iface(p)] = [@ EXCEPT !.child = Shape(p)]]
        /\ Iface(p) \notin meddled => tree'[Iface(p)] = Whole(Shape(p))
    BY <1>7, ChildAdded
  <2>2. pc' = [pc EXCEPT ![p] = "leave"] /\ UNCHANGED <<lock, job, at, torn, meddled>>
    BY <1>7 DEF AddChild, Change, Exit, Goto
  <2>3. tree'[Iface(p)].root # NoShape /\ \A i \in Ifaces : i # Iface(p) => tree'[i] = tree[i]
    BY <2>1 DEF Trees
  <2>4. QED
    BY <2>1, <2>2, <2>3, SameStep
<1>8. ASSUME NEW p \in Shapers, AddFails(p) PROVE ExitZeroIsWhole'
  BY <1>8 DEF AddFails, Exit, Goto
<1>9. ASSUME NEW p \in Shapers, DelRoot(p) PROVE ExitZeroIsWhole'
  <2>1. pc[p] = "del" /\ Iface(p) \in Ifaces /\ tree' = [tree EXCEPT ![Iface(p)] = Bare]
    BY <1>9, RootDeleted
  <2>2. /\ pc' = [pc EXCEPT ![p] = "leave"] /\ torn' = torn \ {Iface(p)}
        /\ UNCHANGED <<lock, job, at, meddled>>
    BY <1>9 DEF DelRoot, Change, Exit, Goto
  <2>3. Bare.child = NoShape /\ Step(p).op = "clear"
    BY <2>1 DEF Bare, LabelInv
  <2>4. QED
    BY <2>1, <2>2, <2>3, SameStep
<1>10. ASSUME NEW p \in Shapers, DelFails(p) PROVE ExitZeroIsWhole'
  <2>1. Step(p).op = "clear"
    BY <1>10 DEF DelFails, LabelInv
  <2>2. QED
    BY <1>10, <2>1 DEF DelFails, Exit, Goto
<1>11. ASSUME NEW p \in Shapers, Leave(p) PROVE ExitZeroIsWhole'
  <2>1. pc[p] # "idle"
    BY <1>11 DEF Leave
  <2>2. /\ pc' = [pc EXCEPT ![p] = pc'[p]] /\ pc'[p] \in {"call", "done"}
        /\ code' = [code EXCEPT ![p] = "none"] /\ job' = job
        /\ \A q \in Shapers : q # p => at'[q] = at[q]
    BY <1>11, <2>1, ProceedFacts DEF Leave
  <2>3. QED
    BY <1>11, <2>1, <2>2, SameStep DEF Leave
<1>12. ASSUME NEW p \in Shapers, Kill(p) PROVE ExitZeroIsWhole'
  <2>1. pc[p] # "idle"
    BY <1>12 DEF Kill
  <2>2. /\ pc' = [pc EXCEPT ![p] = pc'[p]] /\ pc'[p] \in {"call", "done"}
        /\ code' = [code EXCEPT ![p] = "none"] /\ job' = job
        /\ \A q \in Shapers : q # p => at'[q] = at[q]
    BY <1>12, <2>1, ProceedFacts DEF Kill
  <2>3. QED
    BY <1>12, <2>1, <2>2, SameStep DEF Kill
<1>13. ASSUME NEW p \in Shapers, Abandon(p) PROVE ExitZeroIsWhole'
  <2>1. \A q \in Shapers : Step(q)' = Step(q) /\ Iface(q)' = Iface(q) /\ Shape(q)' = Shape(q)
    BY <1>13, LoneStep
  <2>2. QED
    BY <1>13, <2>1 DEF Abandon
<1>o. ASSUME NEW p \in Shapers, NEW q \in Shapers, Outlive(p, q) PROVE ExitZeroIsWhole'
  <2>0. GivenUp(p, q)
    BY <1>o, <1>b
  <2>1. /\ pc' = [pc EXCEPT ![q] = "call"] /\ pc[q] = "idle"
        /\ \A r \in Shapers \ {q} : Step(r)' = Step(r) /\ Iface(r)' = Iface(r) /\ Shape(r)' = Shape(r)
        /\ UNCHANGED <<tree, code, meddled>>
    BY <2>0 DEF GivenUp
  <2>2. QED
    BY <2>1
<1>14. ASSUME NEW c \in late, LateRuns(c) PROVE ExitZeroIsWhole'
  <2>1. \/ UNCHANGED <<tree, torn, meddled>>
        \/ /\ c.iface \in Ifaces /\ torn' = torn \cup {c.iface} /\ meddled' = meddled \cup {c.iface}
           /\ \A j \in Ifaces : j # c.iface => tree'[j] = tree[j]
           /\ tree'[c.iface].root = NoShape => tree'[c.iface].child = NoShape
    BY <1>14, LateChanges, NullAssumption
  <2>2. UNCHANGED <<pc, job, at, code, lock>>
    BY <1>14 DEF LateRuns, work
  <2>3. QED
    BY <2>1, <2>2, SameStep
<1>15. CASE LabGoes
  <2>1. \A i \in Ifaces : tree'[i] = Bare
    BY <1>15 DEF LabGoes
  <2>2. Bare.child = NoShape
    BY DEF Bare
  <2>3. \A q \in Shapers : pc[q] \notin Locked
    BY <1>15, NullAssumption DEF LabGoes, LockInv
  <2>4. QED
    BY <1>15, <2>1, <2>2, <2>3 DEF LabGoes, work
<1>16. CASE LabComes
  BY <1>16 DEF LabComes, Nobody, work
<1>17. CASE UNCHANGED vars
  BY <1>17 DEF vars, work, hist
<1>18. QED
  BY <1>1, <1>2, <1>3, <1>4, <1>5, <1>6, <1>7, <1>8, <1>9, <1>10,
     <1>11, <1>12, <1>13, <1>o, <1>14, <1>15, <1>16, <1>17
     DEF Next, Compose, NetemApply, NetemClear

\* Every step keeps AloneInv.
LEMMA AloneStep ==
  ASSUME TypeOK, StepsInv, LabelInv, AloneInv, [Next]_vars
  PROVE  AloneInv'
<1>b. ASSUME NEW p \in Shapers, NEW q \in Shapers, Outlive(p, q) PROVE GivenUp(p, q)
  BY <1>b, Outlived
<1> USE DEF TypeOK, AloneInv
<1>1. ASSUME NEW p \in Shapers, Begin(p) PROVE AloneInv'
  BY <1>1 DEF Begin, Goto
<1>2. ASSUME NEW p \in Shapers, Finish(p) PROVE AloneInv'
  BY <1>2 DEF Finish, Goto
<1>3. ASSUME NEW p \in Shapers, Reject(p) PROVE AloneInv'
  <2>1. pc[p] # "idle"
    BY <1>3 DEF Reject
  <2>2. QED
    BY <1>3, <2>1, ProceedFacts DEF Reject
<1>4. ASSUME NEW p \in Shapers, Lock(p) PROVE AloneInv'
  BY <1>4 DEF Lock, Goto, hist
<1>5. ASSUME NEW p \in Shapers, Check(p) PROVE AloneInv'
  BY <1>5 DEF Check, Exit, Goto, hist
<1>6. ASSUME NEW p \in Shapers, AddRoot(p) PROVE AloneInv'
  BY <1>6 DEF AddRoot, Exit, Goto, Change
<1>7. ASSUME NEW p \in Shapers, AddChild(p) PROVE AloneInv'
  BY <1>7 DEF AddChild, Exit, Goto, Change
<1>8. ASSUME NEW p \in Shapers, AddFails(p) PROVE AloneInv'
  BY <1>8 DEF AddFails, Exit, Goto
<1>9. ASSUME NEW p \in Shapers, DelRoot(p) PROVE AloneInv'
  BY <1>9 DEF DelRoot, Exit, Goto, Change
<1>10. ASSUME NEW p \in Shapers, DelFails(p) PROVE AloneInv'
  BY <1>10 DEF DelFails, Exit, Goto
<1>11. ASSUME NEW p \in Shapers, Leave(p) PROVE AloneInv'
  <2>1. pc[p] # "idle"
    BY <1>11 DEF Leave
  <2>2. QED
    BY <1>11, <2>1, ProceedFacts DEF Leave
<1>12. ASSUME NEW p \in Shapers, Kill(p) PROVE AloneInv'
  <2>1. pc[p] # "idle"
    BY <1>12 DEF Kill
  <2>2. QED
    BY <1>12, <2>1, ProceedFacts DEF Kill, Nobody
<1>13. ASSUME NEW p \in Shapers, Abandon(p) PROVE AloneInv'
  BY <1>13 DEF Abandon, Nobody
<1>o. ASSUME NEW p \in Shapers, NEW q \in Shapers, Outlive(p, q) PROVE AloneInv'
  BY <1>o, <1>b DEF GivenUp, Nobody
<1>14. ASSUME NEW c \in late, LateRuns(c) PROVE AloneInv'
  BY <1>14 DEF LateRuns, work
<1>15. CASE LabGoes
  BY <1>15 DEF LabGoes, Nobody, work
<1>16. CASE LabComes
  BY <1>16 DEF LabComes, Nobody, work
<1>17. CASE UNCHANGED vars
  BY <1>17 DEF vars, work, hist
<1>18. QED
  BY <1>1, <1>2, <1>3, <1>4, <1>5, <1>6, <1>7, <1>8, <1>9, <1>10,
     <1>11, <1>12, <1>13, <1>o, <1>14, <1>15, <1>16, <1>17
     DEF Next, Compose, NetemApply, NetemClear

\* The step at which a careful shaper is: a clear of an interface that it has not
\* touched yet, or an apply after a clear with nothing else before, between or after.
LEMMA CarefulStep ==
  ASSUME StepsInv, AloneInv, NEW p \in Shapers, alone[p], Careful(p)
  PROVE  /\ pc[p] # "idle" /\ at[p] \in Nat /\ at[p] >= 1 /\ at[p] <= Len(job[p].steps)
         /\ Len(job[p].steps) \in Nat
         /\ \A k \in 1..Len(job[p].steps) : job[p].steps[k] \in GoodSteps
         /\ Composed(job[p].steps)
         /\ Shape(p) \in Shapes \cup {NoShape}
<1>1. pc[p] # "idle" /\ job[p] \in Jobs
  BY DEF AloneInv
<1>2. at[p] \in 1..Len(job[p].steps) /\ Len(job[p].steps) \in Nat /\ job[p].steps \in Seq(GoodSteps)
  BY <1>1 DEF StepsInv
<1>3. Composed(job[p].steps)
  BY <1>1, JobsAreGood DEF Careful
<1>4. Shape(p) \in Shapes \cup {NoShape}
  BY <1>2 DEF Careful, Shape, Step
<1>5. QED
  BY <1>1, <1>2, <1>3, <1>4

\* An apply of a careful shaper finds its interface bare.
LEMMA CarefulFindsBare ==
  ASSUME StepsInv, LabelInv, AloneInv, NEW p \in Shapers, alone[p], Careful(p), Achieved(p),
         pc[p] = "root"
  PROVE  tree[Iface(p)] = Bare
<1>1. /\ at[p] \in Nat /\ at[p] >= 1 /\ at[p] <= Len(job[p].steps) /\ Len(job[p].steps) \in Nat
      /\ Composed(job[p].steps)
  BY CarefulStep
<1>2. Step(p).op = "apply" /\ Step(p) = job[p].steps[at[p]] /\ Iface(p) = Step(p).iface
  BY DEF LabelInv, Step, Iface
<1>3. PICK m \in 1..(at[p] - 1) :
             /\ job[p].steps[m] = Clear(Iface(p))
             /\ \A l \in 1..Len(job[p].steps) : l \in {m, at[p]} \/ job[p].steps[l].iface # Iface(p)
  BY <1>1, <1>2 DEF Composed
<1>4. Completed(p) = at[p] - 1
  BY DEF Completed
<1>5. InEffect(p, m)
  BY <1>1, <1>3, <1>4 DEF Achieved
<1>6. \A l \in (m + 1)..Completed(p) : job[p].steps[l].iface # Iface(p)
  BY <1>1, <1>3, <1>4
<1>7. QED
  BY <1>3, <1>5, <1>6 DEF InEffect, Clear

\* What the steps of a careful shaper leave of its earlier ones.
LEMMA EffectsStay ==
  ASSUME StepsInv, AloneInv, NEW p \in Shapers, alone[p], Careful(p), Achieved(p),
         pc[p] \in {"root", "child", "del"}, pc'[p] \in {"child", "leave"},
         UNCHANGED <<job, at>>, NEW k \in 1..(at[p] - 1),
         \A i \in Ifaces : i # Iface(p) => tree'[i] = tree[i]
  PROVE  InEffect(p, k)'
<1>1. /\ at[p] \in Nat /\ at[p] >= 1 /\ at[p] <= Len(job[p].steps) /\ Len(job[p].steps) \in Nat
      /\ Composed(job[p].steps)
      /\ k \in 1..Len(job[p].steps) /\ at[p] \in 1..Len(job[p].steps)
      /\ job[p].steps[k] \in GoodSteps
  BY CarefulStep
<1>2. /\ Iface(p)' = Iface(p) /\ Iface(p) = job[p].steps[at[p]].iface
      /\ job[p].steps[at[p]].op \in {"clear", "apply"}
      /\ job[p].steps[k].op \in {"clear", "apply"} /\ job[p].steps[k].iface \in Ifaces
  BY <1>1, CarefulStep, GoodStep DEF Iface, Step
<1>3. /\ Completed(p) = at[p] - 1 /\ InEffect(p, k)
      /\ Completed(p)' = IF pc'[p] = "leave" THEN at[p] ELSE at[p] - 1
  BY DEF Completed, Achieved
<1>4. CASE job[p].steps[k].iface # Iface(p)
  <2>1. pc[p] = "child" /\ Iface(p) = job[p].steps[k].iface => FALSE
    BY <1>4
  <2>2. \A m \in (k + 1)..Completed(p) : m \in (k + 1)..Completed(p)'
    BY <1>1, <1>3
  <2>3. QED
    BY <1>2, <1>3, <1>4, <2>1, <2>2 DEF InEffect
<1>5. CASE job[p].steps[k].iface = Iface(p)
  <2>1. job[p].steps[k].op = "clear"
    <3>1. SUFFICES ASSUME job[p].steps[k].op = "apply" PROVE FALSE
      BY <1>2
    <3>2. PICK m \in 1..(k - 1) :
                \A l \in 1..Len(job[p].steps) : l \in {m, k} \/ job[p].steps[l].iface # Iface(p)
      <4>1. \E m \in 1..(k - 1) :
              \A l \in 1..Len(job[p].steps) :
                 l \in {m, k} \/ job[p].steps[l].iface # job[p].steps[k].iface
        BY <1>1, <3>1 DEF Composed
      <4>2. QED
        BY <1>5, <4>1
    <3>3. at[p] \notin {m, k}
      BY <1>1, <3>2
    <3>4. QED
      BY <1>1, <1>2, <3>2, <3>3
  <2>2. Completed(p)' = at[p] \/ (pc'[p] = "child" /\ Iface(p)' = job[p].steps[k].iface)
    BY <1>2, <1>3, <1>5
  <2>3. at[p] \in (k + 1)..at[p]
    BY <1>1
  <2>4. QED
    BY <1>2, <1>5, <2>1, <2>2, <2>3 DEF InEffect
<1>6. QED
  BY <1>4, <1>5

\* Every step keeps AchievedInv.
LEMMA AchievedStep ==
  ASSUME TypeOK, StepsInv, LockInv, LabelInv, TreeInv, AloneInv, AchievedInv, [Next]_vars
  PROVE  AchievedInv'
<1> SUFFICES ASSUME NEW p \in Shapers, alone'[p], lab', Careful(p)' PROVE Achieved(p)'
  BY DEF AchievedInv
<1> USE DEF TypeOK
<1>1. CASE Begin(p)
  <2>1. pc'[p] = "call" /\ at'[p] = 1 /\ ~failed'[p]
    BY <1>1 DEF Begin, Goto, LabelInv
  <2>2. Completed(p)' = 0
    BY <2>1 DEF Completed
  <2>3. QED
    BY <2>1, <2>2 DEF Achieved
<1>2. CASE ~Begin(p)
  <2>1. /\ alone[p] /\ UNCHANGED <<lab, job>>
        /\ \/ Lock(p) \/ Check(p) \/ Reject(p) \/ AddRoot(p) \/ AddChild(p) \/ AddFails(p)
           \/ DelRoot(p) \/ DelFails(p) \/ Leave(p) \/ UNCHANGED vars
    <3> USE DEF AloneInv
    <3>1. ASSUME NEW q \in Shapers, Begin(q) PROVE FALSE
      BY <1>2, <3>1 DEF Begin
    <3>2. ASSUME NEW q \in Shapers, Finish(q) PROVE FALSE
      BY <3>2 DEF Finish
    <3>3. ASSUME NEW q \in Shapers, Kill(q) \/ Abandon(q) PROVE FALSE
      BY <3>3 DEF Kill, Abandon, Nobody
    <3>o. ASSUME NEW q \in Shapers, NEW r \in Shapers, Outlive(q, r) PROVE FALSE
      BY <3>o DEF Outlive, Nobody
    <3>4. ASSUME NEW c \in late, LateRuns(c) PROVE FALSE
      BY <3>4 DEF LateRuns
    <3>5. ASSUME LabGoes \/ LabComes PROVE FALSE
      BY <3>5 DEF LabGoes, LabComes, Nobody
    <3>6. ASSUME NEW q \in Shapers, Lock(q) \/ Check(q) \/ Reject(q) \/ Leave(q)
          PROVE  q = p /\ alone[p] /\ UNCHANGED <<lab, job>>
      BY <3>6 DEF Lock, Check, Reject, Leave, Proceed, hist
    <3>7. ASSUME NEW q \in Shapers, AddRoot(q) \/ AddChild(q) \/ DelRoot(q)
          PROVE  q = p /\ alone[p] /\ UNCHANGED <<lab, job>>
      BY <3>7 DEF AddRoot, AddChild, DelRoot, Change
    <3>8. ASSUME NEW q \in Shapers, AddFails(q) \/ DelFails(q)
          PROVE  q = p /\ alone[p] /\ UNCHANGED <<lab, job>>
      BY <3>8 DEF AddFails, DelFails
    <3>9. CASE UNCHANGED vars
      BY <3>9 DEF vars, work, hist
    <3>10. QED
      BY <3>1, <3>2, <3>3, <3>o, <3>4, <3>5, <3>6, <3>7, <3>8, <3>9
         DEF Next, Compose, NetemApply, NetemClear
  <2>2. lab /\ Careful(p) /\ Achieved(p)
    BY <2>1 DEF Careful, AchievedInv
  <2>3. /\ pc[p] # "idle" /\ at[p] \in Nat /\ at[p] >= 1 /\ at[p] <= Len(job[p].steps)
        /\ Len(job[p].steps) \in Nat
        /\ \A k \in 1..Len(job[p].steps) : job[p].steps[k] \in GoodSteps
        /\ Composed(job[p].steps) /\ Shape(p) \in Shapes \cup {NoShape}
        /\ Step(p) = job[p].steps[at[p]] /\ Iface(p) = Step(p).iface /\ Shape(p) = Step(p).shape
        /\ Iface(p) \in Ifaces
    BY <2>1, <2>2, CarefulStep, StepFacts DEF Step, Iface, Shape
  <2> HIDE DEF TypeOK
  <2>4. CASE Reject(p)
    BY <2>3, <2>4, ShapesAssumption, NullAssumption DEF Reject, Inputs
  <2>5. CASE Lock(p) \/ Check(p)
    <3>1. /\ pc[p] \in {"call", "check"} /\ pc'[p] \in {"check", "root", "del"}
          /\ UNCHANGED <<at, job, tree, failed>>
      <4>1. CASE Lock(p)
        BY <4>1 DEF Lock, Goto, TypeOK
      <4>2. CASE Check(p)
        <5>1. Shape(p) # BadChild
          BY <2>3, ShapesAssumption, NullAssumption DEF Inputs
        <5>2. QED
          BY <2>2, <4>2, <5>1 DEF Check, Goto, TypeOK
      <4>3. QED
        BY <2>5, <4>1, <4>2
    <3>2. Completed(p) = at[p] - 1 /\ Completed(p)' = at[p] - 1
      BY <3>1 DEF Completed
    <3>3. \A k \in 1..Completed(p) : InEffect(p, k)'
      BY <2>2, <3>1, <3>2 DEF Achieved, InEffect
    <3>4. QED
      BY <2>2, <3>1, <3>2, <3>3 DEF Achieved
  <2>6. CASE AddRoot(p)
    <3>1. /\ pc[p] = "root" /\ Shape(p) \in Shapes
          /\ tree' = [tree EXCEPT ![Iface(p)] = HalfOf(Shape(p))]
      BY <2>6, RootAdded
    <3>2. /\ pc' = [pc EXCEPT ![p] = IF Shape(p) \in ChildShapes THEN "child" ELSE "leave"]
          /\ Shape(p) \notin ChildShapes => code'[p] = "ok"
          /\ UNCHANGED <<job, at, failed>>
      BY <2>6 DEF AddRoot, Change, Exit, Goto, TypeOK
    <3>3. /\ Completed(p)' = IF Shape(p) \in ChildShapes THEN at[p] - 1 ELSE at[p]
          /\ pc'[p] = IF Shape(p) \in ChildShapes THEN "child" ELSE "leave"
      BY <3>2 DEF Completed, TypeOK
    <3>4. tree'[Iface(p)] = HalfOf(Shape(p)) /\ \A i \in Ifaces : i # Iface(p) => tree'[i] = tree[i]
      BY <2>3, <3>1 DEF TypeOK
    <3>5. \A k \in 1..(at[p] - 1) : InEffect(p, k)'
      <4>1. pc'[p] \in {"child", "leave"}
        BY <3>3
      <4>2. QED
        BY <2>1, <2>2, <3>1, <3>2, <3>4, <4>1, EffectsStay
    <3>6. Shape(p) \notin ChildShapes => InEffect(p, at[p])'
      <4>1. Step(p).op = "apply"
        BY <3>1 DEF LabelInv
      <4>2. Shape(p) \notin ChildShapes => tree'[Iface(p)] = Whole(Shape(p))
        BY <3>4 DEF HalfOf, Whole
      <4>3. QED
        BY <2>3, <3>2, <4>1, <4>2 DEF InEffect
    <3>7. Iface(p)' = Iface(p) /\ Shape(p)' = Shape(p)
      BY <3>2, SameStep
    <3>8. QED
      BY <2>2, <2>3, <3>2, <3>3, <3>4, <3>5, <3>6, <3>7 DEF Achieved
  <2>7. CASE AddChild(p) \/ DelRoot(p) \/ DelFails(p)
    <3>1. /\ pc[p] \in {"child", "del"} /\ pc'[p] = "leave" /\ code'[p] = "ok"
          /\ UNCHANGED <<job, at, failed>>
      BY <2>7 DEF AddChild, DelRoot, DelFails, Change, Exit, Goto, TypeOK
    <3>2. Completed(p)' = at[p]
      BY <3>1 DEF Completed
    <3>3. /\ \A i \in Ifaces : i # Iface(p) => tree'[i] = tree[i]
          /\ Step(p).op = "apply" => tree'[Iface(p)] = Whole(Shape(p))
          /\ Step(p).op = "clear" => tree'[Iface(p)] = Bare
      <4>1. CASE AddChild(p)
        <5>1. pc[p] = "child" /\ Step(p).op = "apply"
          BY <4>1 DEF AddChild, LabelInv
        <5>2. tree[Iface(p)] = HalfOf(Shape(p))
          BY <2>2, <5>1 DEF Achieved
        <5>3. QED
          BY <2>3, <4>1, <5>1, <5>2, ChildAdded DEF TypeOK
      <4>2. CASE DelRoot(p)
        <5>1. Step(p).op = "clear"
          BY <4>2 DEF DelRoot, LabelInv
        <5>2. QED
          BY <2>3, <4>2, <5>1, RootDeleted DEF TypeOK
      <4>3. CASE DelFails(p)
        <5>1. Step(p).op = "clear" /\ tree' = tree
          BY <4>3 DEF DelFails, LabelInv
        <5>2. tree[Iface(p)].root = NoShape
          BY <2>2, <4>3 DEF DelFails, Accepts, TypeOK
        <5>3. tree[Iface(p)] = Bare
          BY <2>3, <5>2 DEF TreeInv, TypeOK, Trees, Bare
        <5>4. QED
          BY <5>1, <5>3
      <4>4. QED
        BY <2>7, <4>1, <4>2, <4>3
    <3>4. \A k \in 1..(at[p] - 1) : InEffect(p, k)'
      <4>1. pc[p] \in {"root", "child", "del"} /\ pc'[p] \in {"child", "leave"}
        BY <3>1
      <4>2. QED
        BY <2>1, <2>2, <3>1, <3>3, <4>1, EffectsStay
    <3>5. InEffect(p, at[p])'
      BY <2>3, <3>1, <3>3 DEF InEffect
    <3>6. QED
      BY <2>2, <2>3, <3>1, <3>2, <3>4, <3>5 DEF Achieved
  <2>8. CASE AddFails(p)
    <3>1. ~Accepts(pc[p], Iface(p))
      BY <2>8 DEF AddFails, TypeOK
    <3>2. CASE pc[p] = "root"
      <4>1. tree[Iface(p)] = Bare
        BY <2>1, <2>2, <3>2, CarefulFindsBare
      <4>2. QED
        BY <2>2, <3>1, <3>2, <4>1 DEF Accepts, Bare
    <3>3. CASE pc[p] = "child"
      <4>1. tree[Iface(p)] = HalfOf(Shape(p)) /\ Shape(p) \in Shapes
        BY <2>2, <3>3 DEF Achieved, LabelInv
      <4>2. Shape(p) # NoShape
        BY <4>1, NullAssumption DEF Inputs
      <4>3. QED
        BY <2>2, <3>1, <3>3, <4>1, <4>2 DEF Accepts, HalfOf
    <3>4. QED
      BY <2>8, <3>2, <3>3 DEF AddFails
  <2>9. CASE Leave(p)
    <3>1. pc[p] = "leave" /\ code[p] = "ok" /\ Proceed(p, "ok") /\ UNCHANGED tree
      BY <2>2, <2>9 DEF Leave, Achieved
    <3>2. /\ pc'[p] \in {"call", "done"} /\ failed'[p] = failed[p]
          /\ pc'[p] = "call" => at'[p] = at[p] + 1
          /\ pc'[p] = "done" => at'[p] = at[p] /\ at[p] = Len(job[p].steps)
      BY <3>1, ProceedFacts DEF TypeOK
    <3>3. Completed(p) = at[p] /\ Completed(p)' = at[p]
      BY <2>3, <3>1, <3>2 DEF Completed
    <3>4. \A k \in 1..Completed(p) : InEffect(p, k)'
      BY <2>1, <2>2, <3>1, <3>3 DEF Achieved, InEffect
    <3>5. QED
      BY <2>1, <2>2, <3>2, <3>3, <3>4 DEF Achieved
  <2>10. CASE UNCHANGED vars
    BY <2>2, <2>10 DEF vars, work, hist, Achieved, InEffect, Completed, Iface, Shape, Step
  <2>11. QED
    BY <2>1, <2>4, <2>5, <2>6, <2>7, <2>8, <2>9, <2>10
<1>3. QED
  BY <1>1, <1>2

-----------------------------------------------------------------------------
(* The theorems.                                                           *)

\* IInv is an inductive invariant.
THEOREM Invariance == Spec => []IInv
<1>1. Init => IInv
  <2> SUFFICES ASSUME Init PROVE IInv
    OBVIOUS
  <2>1. \A i \in Ifaces : tree[i] = Bare
    BY DEF Init
  <2>2. TypeOK
    BY <2>1 DEF Init, TypeOK, AnyJob, InsideJob, Labels, Codes, Trees, Bare
  <2>3. StepsInv /\ LockInv /\ LabelInv /\ LateInv
    BY NullAssumption DEF Init, StepsInv, LockInv, LabelInv, LateInv, Locked
  <2>4. TreeInv /\ ExitZeroIsWhole /\ RejectedChangesNothing
    BY <2>1 DEF Init, TreeInv, ExitZeroIsWhole, RejectedChangesNothing, Bare
  <2>5. AloneInv /\ AchievedInv
    BY DEF Init, AloneInv, AchievedInv
  <2>6. QED
    BY <2>2, <2>3, <2>4, <2>5 DEF IInv
<1>2. IInv /\ [Next]_vars => IInv'
  <2> SUFFICES ASSUME IInv, [Next]_vars PROVE IInv'
    OBVIOUS
  <2>1. /\ TypeOK /\ StepsInv /\ LockInv /\ LabelInv /\ LateInv /\ TreeInv /\ ExitZeroIsWhole
        /\ RejectedChangesNothing /\ AloneInv /\ AchievedInv
    BY DEF IInv
  <2>2. StepsInv' /\ LockInv' /\ LabelInv' /\ LateInv'
    BY <2>1, StepsStep, LockStep, LabelStep, LateStep
  <2>3. TypeOK' /\ TreeInv' /\ ExitZeroIsWhole' /\ RejectedChangesNothing'
    BY <2>1, <2>2, TypeStep, TreeStep, ExitZeroStep, RejectedStep
  <2>4. AloneInv' /\ AchievedInv'
    BY <2>1, AloneStep, AchievedStep
  <2>5. QED
    BY <2>2, <2>3, <2>4 DEF IInv
<1>3. QED
  BY <1>1, <1>2, PTL DEF Spec

\* The variables have their types, and no shaper is past the end of its job.
THEOREM TypeCorrect == Spec => []TypeOK
<1>1. IInv => TypeOK
  BY DEF IInv
<1>2. QED
  BY <1>1, Invariance, PTL

\* The lock of `netem apply` covers both of its commands: whoever takes it finds an
\* interface bare or with the whole tree of one shape (TreesAreWhole), unless an apply
\* was interrupted there.
THEOREM WholeTrees == Spec => []TreesAreWhole
<1>1. IInv => TreesAreWhole
  <2> SUFFICES ASSUME IInv, lock = NoShaper PROVE TreesAreWhole
    BY DEF TreesAreWhole
  <2>1. \A p \in Shapers : pc[p] # "child"
    BY NullAssumption DEF IInv, LockInv, Locked
  <2>2. QED
    BY <2>1 DEF IInv, TreeInv, TreesAreWhole
<1>2. QED
  BY <1>1, Invariance, PTL

\* An exit code of 0 means that all that was asked for is there, also on an interface
\* that was half shaped, if no late command meddled (ExitZeroIsWhole).
THEOREM WholeApplies == Spec => []ExitZeroIsWhole
<1>1. IInv => ExitZeroIsWhole
  BY DEF IInv
<1>2. QED
  BY <1>1, Invariance, PTL

\* An npte that rejects its input has changed nothing (RejectedChangesNothing).
THEOREM RejectsInTime == Spec => []RejectedChangesNothing
<1>1. IInv => RejectedChangesNothing
  BY DEF IInv
<1>2. QED
  BY <1>1, Invariance, PTL

\* A shaper that nobody interferes with gets what it asked for, whatever was on the
\* links (SoleShaperSucceeds).
THEOREM SoleShaper == Spec => []SoleShaperSucceeds
<1>1. IInv => SoleShaperSucceeds
  <2> SUFFICES ASSUME IInv, NEW p \in Shapers, pc[p] = "done", alone[p], lab, Careful(p)
               PROVE  ~failed[p] /\ \A i \in Targets(p) : tree[i] = Whole(Wanted(p, i))
    BY DEF SoleShaperSucceeds
  <2> DEFINE steps == job[p].steps
  <2>1. StepsInv /\ LabelInv /\ AloneInv /\ Achieved(p)
    BY DEF IInv, AchievedInv
  <2>2. /\ Len(steps) \in Nat /\ Composed(steps)
        /\ \A k \in 1..Len(steps) : steps[k] \in GoodSteps
    BY <2>1, CarefulStep
  <2>3. ~failed[p] /\ at[p] = Len(steps) /\ Completed(p) = Len(steps)
    BY <2>1 DEF Achieved, Completed
  <2>4. \A k \in 1..Len(steps) : InEffect(p, k)
    BY <2>1, <2>3 DEF Achieved
  <2> DEFINE A(i) == {k \in 1..Len(steps) : steps[k] \in {Apply(i, s) : s \in Inputs}}
  <2>5. \A i \in Targets(p) :
           Wanted(p, i) = IF A(i) = {} THEN NoShape ELSE steps[CHOOSE k \in A(i) : TRUE].shape
    BY DEF Wanted
  <2>6. ASSUME NEW i \in Targets(p) PROVE tree[i] = Whole(Wanted(p, i))
    <3>1. PICK k \in 1..Len(steps) : steps[k].iface = i
      BY <2>6 DEF Targets
    <3>2. CASE A(i) = {}
      <4>1. ASSUME NEW m \in 1..Len(steps), steps[m].iface = i PROVE steps[m].op = "clear"
        <5>1. steps[m].op = "apply" => steps[m] = Apply(i, steps[m].shape) /\ steps[m].shape \in Inputs
          BY <2>2, <4>1, GoodStep
        <5>2. steps[m].op \in {"clear", "apply"}
          BY <2>2, GoodStep
        <5>3. QED
          BY <3>2, <5>1, <5>2
      <4>2. ~\E m \in (k + 1)..Len(steps) : steps[m].iface = i
        <5>1. SUFFICES ASSUME NEW m \in (k + 1)..Len(steps), steps[m].iface = i PROVE FALSE
          OBVIOUS
        <5>2. m \in 1..Len(steps) /\ k \in 1..(m - 1)
          BY <2>2
        <5>3. steps[m].op = "clear"
          BY <4>1, <5>1, <5>2
        <5>4. steps[k].iface # steps[m].iface
          BY <2>2, <5>2, <5>3 DEF Composed
        <5>5. QED
          BY <3>1, <5>1, <5>4
      <4>3. tree[i] = Bare
        BY <2>3, <2>4, <3>1, <4>1, <4>2 DEF InEffect
      <4>4. Whole(NoShape) = Bare
        BY NullAssumption DEF Whole, Bare, Inputs, Shapes
      <4>5. QED
        BY <2>5, <3>2, <4>3, <4>4
    <3>3. CASE A(i) # {}
      <4>1. PICK a \in A(i) : a = CHOOSE m \in A(i) : TRUE
        BY <3>3
      <4>2. PICK s \in Inputs : steps[a] = Apply(i, s)
        OBVIOUS
      <4>3. tree[i] = Whole(steps[a].shape)
        BY <2>4, <4>2 DEF InEffect, Apply
      <4>4. QED
        BY <2>5, <3>3, <4>1, <4>3
    <3>4. QED
      BY <3>2, <3>3
  <2>7. QED
    BY <2>3, <2>6
<1>2. QED
  BY <1>1, Invariance, PTL

-----------------------------------------------------------------------------
(* The refinement of AbstractLink.                                         *)

\* The holder of the lock is between the two commands of an apply on i.
Half(i) == \E p \in Shapers : pc[p] = "child" /\ Iface(p) = i

\* What Shaped means where LockInv holds, before and after a step.
LEMMA ShapedIs ==
  ASSUME LockInv, LockInv', NEW i
  PROVE  /\ Shaped(i)  = IF i \in torn  \/ Half(i)  THEN NoShape ELSE tree[i].root
         /\ Shaped(i)' = IF i \in torn' \/ Half(i)' THEN NoShape ELSE tree'[i].root
<1>1. \A p \in Shapers : pc[p] = "child" => lock = p
  BY DEF LockInv, Locked
<1>2. \A p \in Shapers : pc'[p] = "child" => lock' = p
  BY DEF LockInv, Locked
<1>3. QED
  BY <1>1, <1>2 DEF Shaped, Half

\* A step that leaves the qdiscs alone, and with them who is half way, is a stutter.
LEMMA Stutters ==
  ASSUME LockInv, LockInv', UNCHANGED <<tree, torn>>, \A i \in Ifaces : Half(i)' <=> Half(i)
  PROVE  UNCHANGED Link!vars
<1>1. \A i \in Ifaces : Shaped(i)' = Shaped(i)
  BY ShapedIs
<1>2. QED
  BY <1>1 DEF Link!vars

\* So is one of a shaper that is half way neither before nor after it.
LEMMA FarFromHalf ==
  ASSUME TypeOK, LockInv, LockInv', UNCHANGED <<tree, torn>>, NEW p \in Shapers,
         pc[p] # "child", pc'[p] # "child",
         \A q \in Shapers \ {p} : pc'[q] = pc[q] /\ job'[q] = job[q] /\ at'[q] = at[q]
  PROVE  UNCHANGED Link!vars
<1>1. \A q \in Shapers : pc'[q] = "child" <=> pc[q] = "child"
  OBVIOUS
<1>2. \A q \in Shapers : pc[q] = "child" => Iface(q)' = Iface(q)
  BY SameStep
<1>3. \A i \in Ifaces : Half(i)' <=> Half(i)
  BY <1>1, <1>2 DEF Half
<1>4. QED
  BY <1>3, Stutters

\* What a step does to the interface that it is about shows nowhere else.
LEMMA OneShape ==
  ASSUME LockInv, LockInv', NEW i \in Ifaces, NEW s,
         \A j \in Ifaces \ {i} : /\ tree'[j] = tree[j] /\ (j \in torn' <=> j \in torn)
                                 /\ Half(j)' <=> Half(j),
         s = IF i \in torn' \/ Half(i)' THEN NoShape ELSE tree'[i].root
  PROVE  [j \in Ifaces |-> Shaped(j)]' = [[j \in Ifaces |-> Shaped(j)] EXCEPT ![i] = s]
<1>1. \A j \in Ifaces \ {i} : Shaped(j)' = Shaped(j)
  BY ShapedIs
<1>2. Shaped(i)' = s
  BY ShapedIs
<1>3. QED
  BY <1>1, <1>2

\* Every step of a shaper, of a late command or of the lab is one of AbstractLink.
LEMMA StepRefines ==
  ASSUME IInv, IInv', [Next]_vars
  PROVE  [Link!Next]_(Link!vars)
<1> DEFINE Goal == [Link!Next]_(Link!vars)
<1>i. /\ TypeOK /\ StepsInv /\ LockInv /\ LabelInv /\ LateInv /\ TreeInv /\ LockInv'
      /\ pc \in [Shapers -> Labels] /\ torn \subseteq Ifaces
  BY DEF IInv, TypeOK
<1>l. \A q, r \in Shapers : pc[q] \in Locked /\ pc[r] \in Locked => q = r
  BY <1>i DEF LockInv
<1>p. ASSUME NEW p \in Shapers, pc[p] # "idle", NEW c, Proceed(p, c)
      PROVE  /\ pc'[p] \in {"call", "done"}
             /\ \A q \in Shapers \ {p} : pc'[q] = pc[q] /\ job'[q] = job[q] /\ at'[q] = at[q]
  BY <1>i, <1>p, ProceedFacts DEF TypeOK
\* A shaper under the lock does something to its interface: no other is half way.
<1>h. ASSUME NEW p \in Shapers, pc[p] \in Locked, NEW i \in Ifaces, i = Iface(p),
             \A q \in Shapers \ {p} : pc'[q] = pc[q] /\ job'[q] = job[q] /\ at'[q] = at[q],
             pc'[p] = "child" => Iface(p)' = i
      PROVE  /\ \A j \in Ifaces \ {i} : ~Half(j) /\ ~Half(j)'
             /\ Half(i) <=> pc[p] = "child"
             /\ Half(i)' <=> pc'[p] = "child"
  <2>1. \A q \in Shapers \ {p} : pc[q] # "child" /\ pc'[q] # "child"
    BY <1>l, <1>h DEF Locked
  <2>2. QED
    BY <1>h, <2>1 DEF Half
<1>1. ASSUME NEW p \in Shapers, Compose(p) \/ Lock(p) \/ Check(p) PROVE Goal
  <2>1. /\ pc[p] # "child" /\ pc'[p] # "child" /\ UNCHANGED <<tree, torn>>
        /\ \A q \in Shapers \ {p} : pc'[q] = pc[q] /\ job'[q] = job[q] /\ at'[q] = at[q]
    <3>1. CASE Compose(p)
      BY <1>i, <3>1 DEF Compose, Begin, Finish, Goto, TypeOK
    <3>2. CASE Lock(p)
      BY <1>i, <3>2 DEF Lock, Goto, hist
    <3>3. CASE Check(p)
      BY <1>i, <3>3 DEF Check, Exit, Goto, hist
    <3>4. QED
      BY <1>1, <3>1, <3>2, <3>3
  <2>2. QED
    BY <1>i, <2>1, FarFromHalf
<1>2. ASSUME NEW p \in Shapers, Reject(p) \/ Leave(p) PROVE Goal
  <2>1. pc[p] \in {"call", "leave"} /\ UNCHANGED <<tree, torn>> /\ \E c : Proceed(p, c)
    BY <1>2 DEF Reject, Leave
  <2>2. QED
    BY <1>i, <2>1, <1>p, FarFromHalf
<1>3. ASSUME NEW p \in Shapers, AddRoot(p) PROVE Goal
  <2>i. PICK i \in Ifaces : i = Iface(p)
    BY <1>i, <1>3, RootAdded
  <2>1. /\ pc[p] = "root" /\ Shape(p) \in Shapes
        /\ tree[i] = Bare /\ tree' = [tree EXCEPT ![i] = HalfOf(Shape(p))]
    BY <1>i, <1>3, <2>i, RootAdded
  <2>2. /\ pc' = [pc EXCEPT ![p] = IF Shape(p) \in ChildShapes THEN "child" ELSE "leave"]
        /\ UNCHANGED <<job, at, torn>>
    BY <1>3 DEF AddRoot, Change, Exit, Goto
  <2>3. /\ \A j \in Ifaces \ {i} : ~Half(j) /\ ~Half(j)'
        /\ ~Half(i) /\ (Half(i)' <=> Shape(p) \in ChildShapes)
    BY <1>i, <1>h, <2>i, <2>1, <2>2, SameStep DEF Locked
  <2>4. \A j \in Ifaces \ {i} : /\ tree'[j] = tree[j] /\ (j \in torn' <=> j \in torn)
                                /\ Half(j)' <=> Half(j)
    BY <1>i, <2>1, <2>2, <2>3 DEF TypeOK
  <2>5. tree'[i].root = Shape(p) /\ Shaped(i) = NoShape
    BY <1>i, <2>1, <2>3, ShapedIs DEF TypeOK, HalfOf, Bare
  <2>6. CASE i \in torn \/ Shape(p) \in ChildShapes
    <3>1. [j \in Ifaces |-> Shaped(j)]' = [[j \in Ifaces |-> Shaped(j)] EXCEPT ![i] = NoShape]
      <4>1. NoShape = IF i \in torn' \/ Half(i)' THEN NoShape ELSE tree'[i].root
        BY <2>2, <2>3, <2>6
      <4>2. QED
        BY <1>i, <2>1, <2>4, <4>1, OneShape
    <3>2. [j \in Ifaces |-> Shaped(j)]' = [j \in Ifaces |-> Shaped(j)]
      BY <2>1, <2>5, <3>1
    <3>3. QED
      BY <2>2, <3>2 DEF Link!vars
  <2>7. CASE i \notin torn /\ Shape(p) \notin ChildShapes
    <3>1. [j \in Ifaces |-> Shaped(j)]' = [[j \in Ifaces |-> Shaped(j)] EXCEPT ![i] = Shape(p)]
      <4>1. Shape(p) = IF i \in torn' \/ Half(i)' THEN NoShape ELSE tree'[i].root
        BY <2>2, <2>3, <2>5, <2>7
      <4>2. QED
        BY <1>i, <2>1, <2>4, <4>1, OneShape
    <3>2. Link!Install(i, Shape(p))
      BY <2>1, <2>2, <2>5, <2>7, <3>1 DEF Link!Install
    <3>3. QED
      BY <2>1, <3>2 DEF Link!Next
  <2>8. QED
    BY <2>6, <2>7
<1>4. ASSUME NEW p \in Shapers, AddChild(p) PROVE Goal
  <2>i. PICK i \in Ifaces : i = Iface(p)
    BY <1>i, <1>4, ChildAdded
  <2>1. /\ pc[p] = "child" /\ Shape(p) \in Shapes
        /\ tree' = [tree EXCEPT ![i] = [@ EXCEPT !.child = Shape(p)]]
        /\ i \notin torn => tree[i] = HalfOf(Shape(p))
    BY <1>i, <1>4, <2>i, ChildAdded
  <2>2. pc' = [pc EXCEPT ![p] = "leave"] /\ UNCHANGED <<job, at, torn>>
    BY <1>4 DEF AddChild, Change, Exit, Goto
  <2>3. /\ \A j \in Ifaces \ {i} : ~Half(j) /\ ~Half(j)'
        /\ Half(i) /\ ~Half(i)'
    BY <1>i, <1>h, <2>i, <2>1, <2>2 DEF Locked
  <2>4. \A j \in Ifaces \ {i} : /\ tree'[j] = tree[j] /\ (j \in torn' <=> j \in torn)
                                /\ Half(j)' <=> Half(j)
    BY <1>i, <2>1, <2>2, <2>3 DEF TypeOK
  <2>5. Shaped(i) = NoShape
    BY <1>i, <2>3, ShapedIs
  <2>6. CASE i \in torn
    <3>1. [j \in Ifaces |-> Shaped(j)]' = [[j \in Ifaces |-> Shaped(j)] EXCEPT ![i] = NoShape]
      BY <1>i, <2>1, <2>2, <2>4, <2>6, OneShape
    <3>2. [j \in Ifaces |-> Shaped(j)]' = [j \in Ifaces |-> Shaped(j)]
      BY <2>1, <2>5, <3>1
    <3>3. QED
      BY <2>2, <3>2 DEF Link!vars
  <2>7. CASE i \notin torn
    <3>1. tree'[i].root = Shape(p)
      BY <1>i, <2>1, <2>7 DEF TypeOK, HalfOf
    <3>2. [j \in Ifaces |-> Shaped(j)]' = [[j \in Ifaces |-> Shaped(j)] EXCEPT ![i] = Shape(p)]
      <4>1. Shape(p) = IF i \in torn' \/ Half(i)' THEN NoShape ELSE tree'[i].root
        BY <2>2, <2>3, <2>7, <3>1
      <4>2. QED
        BY <1>i, <2>1, <2>4, <4>1, OneShape
    <3>3. Link!Install(i, Shape(p))
      BY <2>1, <2>2, <2>5, <2>7, <3>2 DEF Link!Install
    <3>4. QED
      BY <2>1, <3>3 DEF Link!Next
  <2>8. QED
    BY <2>6, <2>7
\* An apply that ends between its two commands tears the interface, and one that ends
\* before or after changes nothing.
<1>5. ASSUME NEW p \in Shapers, AddFails(p) \/ DelFails(p) \/ Kill(p) PROVE Goal
  <2>1. /\ pc[p] # "idle" /\ tree' = tree
        /\ torn' = IF pc[p] = "child" THEN torn \cup {Iface(p)} ELSE torn
    BY <1>5 DEF AddFails, DelFails, Kill
  <2>2. /\ pc'[p] # "child"
        /\ \A q \in Shapers \ {p} : pc'[q] = pc[q] /\ job'[q] = job[q] /\ at'[q] = at[q]
    <3>1. CASE AddFails(p) \/ DelFails(p)
      BY <1>i, <3>1 DEF AddFails, DelFails, Exit, Goto
    <3>2. CASE Kill(p)
      BY <2>1, <3>2, <1>p DEF Kill
    <3>3. QED
      BY <1>5, <3>1, <3>2
  <2>3. CASE pc[p] # "child"
    BY <1>i, <2>1, <2>2, <2>3, FarFromHalf
  <2>4. CASE pc[p] = "child"
    <3>1. PICK i \in Ifaces : i = Iface(p)
      BY <1>i, <2>1, StepFacts
    <3>2. \A j \in Ifaces \ {i} : ~Half(j) /\ ~Half(j)'
      BY <1>h, <2>2, <2>4, <3>1 DEF Locked
    <3>3. \A j \in Ifaces \ {i} : /\ tree'[j] = tree[j] /\ (j \in torn' <=> j \in torn)
                                  /\ Half(j)' <=> Half(j)
      BY <2>1, <2>4, <3>1, <3>2
    <3>4. [j \in Ifaces |-> Shaped(j)]' = [[j \in Ifaces |-> Shaped(j)] EXCEPT ![i] = NoShape]
      BY <1>i, <2>1, <2>4, <3>1, <3>3, OneShape
    <3>5. Link!Tear(i)
      BY <2>1, <2>4, <3>1, <3>4 DEF Link!Tear
    <3>6. QED
      BY <3>1, <3>5 DEF Link!Next
  <2>5. QED
    BY <2>3, <2>4
<1>6. ASSUME NEW p \in Shapers, DelRoot(p) PROVE Goal
  <2>i. PICK i \in Ifaces : i = Iface(p)
    BY <1>i, <1>6, RootDeleted
  <2>1. pc[p] = "del" /\ tree' = [tree EXCEPT ![i] = Bare]
    BY <1>i, <1>6, <2>i, RootDeleted
  <2>2. pc' = [pc EXCEPT ![p] = "leave"] /\ UNCHANGED <<job, at>> /\ torn' = torn \ {i}
    BY <1>6, <2>i DEF DelRoot, Change, Exit, Goto
  <2>3. /\ \A j \in Ifaces \ {i} : ~Half(j) /\ ~Half(j)'
        /\ ~Half(i)'
    BY <1>i, <1>h, <2>i, <2>1, <2>2 DEF Locked
  <2>4. \A j \in Ifaces \ {i} : /\ tree'[j] = tree[j] /\ (j \in torn' <=> j \in torn)
                                /\ Half(j)' <=> Half(j)
    BY <1>i, <2>1, <2>2, <2>3 DEF TypeOK
  <2>5. tree'[i].root = NoShape
    BY <1>i, <2>1 DEF TypeOK, Bare
  <2>6. [j \in Ifaces |-> Shaped(j)]' = [[j \in Ifaces |-> Shaped(j)] EXCEPT ![i] = NoShape]
    BY <1>i, <2>1, <2>4, <2>5, OneShape
  <2>7. Link!Clear(i)
    BY <2>2, <2>6 DEF Link!Clear
  <2>8. QED
    BY <2>1, <2>7 DEF Link!Next
<1>7. ASSUME NEW p \in Shapers, Abandon(p) PROVE Goal
  <2>1. pc' = pc /\ UNCHANGED <<tree, torn>>
    BY <1>7 DEF Abandon
  <2>2. \A i \in Ifaces : Half(i)' <=> Half(i)
    BY <1>i, <1>7, <2>1, LoneStep DEF Half
  <2>3. QED
    BY <1>i, <2>1, <2>2, Stutters
<1>o. ASSUME NEW p \in Shapers, NEW q \in Shapers, Outlive(p, q) PROVE Goal
  <2>0. GivenUp(p, q)
    BY <1>i, <1>o, Outlived
  <2>1. /\ pc' = [pc EXCEPT ![q] = "call"] /\ pc[q] = "idle" /\ UNCHANGED <<tree, torn>>
        /\ \A r \in Shapers \ {q} : Iface(r)' = Iface(r)
    BY <2>0 DEF GivenUp
  <2>2. \A i \in Ifaces : Half(i)' <=> Half(i)
    BY <1>i, <2>1 DEF Half
  <2>3. QED
    BY <1>i, <2>1, <2>2, Stutters
<1>8. ASSUME NEW c \in late, LateRuns(c) PROVE Goal
  <2>1. \A i \in Ifaces : Half(i)' <=> Half(i)
    BY <1>8, SameStep DEF LateRuns, work, Half
  <2>2. CASE UNCHANGED <<tree, torn>>
    BY <1>i, <2>1, <2>2, Stutters
  <2>3. CASE /\ c.iface \in Ifaces /\ torn' = torn \cup {c.iface}
             /\ \A j \in Ifaces : j # c.iface => tree'[j] = tree[j]
    <3>1. \A j \in Ifaces \ {c.iface} : /\ tree'[j] = tree[j] /\ (j \in torn' <=> j \in torn)
                                 /\ Half(j)' <=> Half(j)
      BY <2>1, <2>3
    <3>2. [j \in Ifaces |-> Shaped(j)]' = [[j \in Ifaces |-> Shaped(j)] EXCEPT ![c.iface] = NoShape]
      BY <1>i, <2>3, <3>1, OneShape
    <3>3. Link!Tear(c.iface)
      BY <2>3, <3>2 DEF Link!Tear
    <3>4. QED
      BY <2>3, <3>3 DEF Link!Next
  <2>4. QED
    BY <1>i, <1>8, <2>2, <2>3, LateChanges
<1>9. ASSUME LabGoes PROVE Goal
  <2>1. lock' = NoShaper /\ torn' = {} /\ \A i \in Ifaces : tree'[i] = Bare
    BY <1>9 DEF LabGoes
  <2>2. \A i \in Ifaces : ~Half(i)'
    BY <1>i, <2>1, NullAssumption DEF Half, LockInv, Locked
  <2>3. \A i \in Ifaces : Shaped(i)' = NoShape
    BY <1>i, <2>1, <2>2, ShapedIs DEF Bare
  <2>4. Link!Vanish
    BY <2>1, <2>3 DEF Link!Vanish
  <2>5. QED
    BY <2>4 DEF Link!Next
<1>10. ASSUME LabComes \/ UNCHANGED vars PROVE Goal
  <2>1. UNCHANGED <<tree, torn, pc, job, at>>
    BY <1>10 DEF LabComes, vars, work, hist
  <2>2. \A i \in Ifaces : Half(i)' <=> Half(i)
    BY <2>1, SameStep DEF Half
  <2>3. QED
    BY <1>i, <2>1, <2>2, Stutters
<1>11. QED
  BY <1>1, <1>2, <1>3, <1>4, <1>5, <1>6, <1>7, <1>o, <1>8, <1>9, <1>10
     DEF Next, NetemApply, NetemClear

\* NetemShaping implements AbstractLink (AbstractShaping): an interface has one shape or
\* none, is never reshaped without a clear, and a half never becomes a whole, whatever
\* shapers and late commands do to each other.
THEOREM LinksHaveOneShape == Spec => AbstractShaping
<1>1. Init => Link!Init
  <2> SUFFICES ASSUME Init PROVE Link!Init
    OBVIOUS
  <2>1. \A i \in Ifaces : Shaped(i) = NoShape
    BY DEF Init, Shaped, Bare
  <2>2. QED
    BY <2>1 DEF Init, Link!Init
<1>2. QED
  BY <1>1, StepRefines, Invariance, PTL DEF Spec, AbstractShaping, Link!Spec

=============================================================================
