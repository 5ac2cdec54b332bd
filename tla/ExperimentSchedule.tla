--------------------------- MODULE ExperimentSchedule ---------------------------
(***************************************************************************)
(* harness/schedule.py and ExperimentSpec.expand_runs: how a design of an  *)
(* experiment becomes a sequence of runs.  A design is a record:           *)
(*   policies   the number of turn policies, known by their index          *)
(*   order      "sequential" or "abba"                                     *)
(*   n          runs per policy                                            *)
(*   seed       base_seed                                                  *)
(*   seats      the number of players                                      *)
(*   cyclic     seat_permutation = "cyclic"                                *)
(*   layout, layoutSeed, layoutCount       the role-layout control         *)
(*   persona, personaSeed, profiles        the persona control             *)
(* where layoutSeed, layoutCount and personaSeed are 0 when not given and  *)
(* profiles is the number of persona profiles.  Players and profiles are   *)
(* known by their index; hashes, names and texts are left out.             *)
(***************************************************************************)
EXTENDS Integers, Sequences, FiniteSets

\* What the fields of a design are: what the parameters of build_policy_schedule
\* can be before it checks them against each other.
IsDesign(d) ==
    /\ d.policies \in Nat /\ d.n \in Nat /\ d.layoutCount \in Nat
    /\ d.seed \in Int /\ d.layoutSeed \in Int /\ d.personaSeed \in Int
    /\ d.seats \in Nat \ {0} /\ d.profiles \in Nat \ {0}
    /\ d.order \in {"sequential", "abba"} /\ d.cyclic \in BOOLEAN
    /\ d.layout \in {"legacy", "fixed", "counterbalanced"}
    /\ d.persona \in {"legacy", "fixed", "randomized", "counterbalanced"}

Divides(a, b) == b % a = 0

\* _control_seed
ControlSeed(explicit, base, offset) == IF explicit # 0 THEN explicit ELSE base + offset
RoleSeedBase(d)    == ControlSeed(d.layoutSeed, d.seed, 1)
PersonaSeedBase(d) == ControlSeed(d.personaSeed, d.seed, 300001)

SeatCycle(d)    == IF d.cyclic THEN d.seats ELSE 1
PersonaCycle(d) == IF d.persona = "counterbalanced" THEN d.profiles ELSE 1
ControlCycle(d) == SeatCycle(d) * PersonaCycle(d)

LayoutCount(d) ==
    CASE d.layout = "counterbalanced" ->
           IF d.layoutCount # 0 THEN d.layoutCount ELSE d.n \div ControlCycle(d)
      [] d.layout = "fixed" -> 1
      [] OTHER -> 0

\* What ExperimentSpec and build_policy_schedule do not raise a ValueError for.
Accepted(d) ==
    /\ d.n >= 1 /\ d.policies >= 1
    /\ d.order = "abba" => d.policies = 2 /\ Divides(2, d.n)
    /\ d.layout = "legacy" => d.layoutSeed = 0 /\ d.layoutCount = 0
    /\ d.layout = "fixed" => d.layoutCount \in {0, 1}
    /\ d.persona = "legacy" => d.personaSeed = 0
    /\ d.persona = "counterbalanced" => Divides(ControlCycle(d), d.n)
    /\ d.layout = "counterbalanced" =>
           /\ Divides(ControlCycle(d), d.n)
           /\ Divides(LayoutCount(d), d.n \div ControlCycle(d))

\* The order of the runs: policy by policy, or in blocks A B B A of two cases.
InBlocks(d) == d.order = "abba" /\ d.policies > 1
PolicyAt(d, k) ==
    IF InBlocks(d) THEN IF ((k - 1) % 4) \in {0, 3} THEN 1 ELSE 2
                   ELSE ((k - 1) \div d.n) + 1
CaseAt(d, k) ==
    IF InBlocks(d) THEN 2 * ((k - 1) \div 4) + ((k - 1) % 4) \div 2 + 1
                   ELSE ((k - 1) % d.n) + 1

\* external: random.Random(seed).randrange(n), some function of the seed.
Draw(seed, n) == seed % n
\* external: random.Random(seed).shuffle(s), some permutation given by the seed.
Shuffled(s, seed) == [i \in DOMAIN s |-> s[((i - 1 + seed) % Len(s)) + 1]]

\* Mutant: both controls advance in lockstep.
LockstepPosition(d, case) == IF d.persona = "counterbalanced" THEN case - 1 ELSE 0
\* The persona position of a case: the slow axis, the seats being the fast one.
PersonaPosition(d, case) ==
    IF d.persona = "counterbalanced" THEN (case - 1) \div SeatCycle(d) ELSE 0

\* _persona_schedule_fields: the profile of each source player.
SourceProfiles(d, case) ==
    IF d.persona = "randomized"
    THEN Shuffled([i \in 1..d.seats |-> ((i - 1) % d.profiles) + 1],
                  PersonaSeedBase(d) + case - 1)
    ELSE [i \in 1..d.seats |->
            ((i - 1 + Draw(PersonaSeedBase(d), d.profiles) + PersonaPosition(d, case))
                % d.profiles) + 1]

\* The source player on each physical seat.
Rotation(d, case) == IF d.cyclic THEN (case - 1) % d.seats ELSE 0
Permutation(d, case) ==
    [i \in 1..d.seats |-> ((i - 1 + Rotation(d, case)) % d.seats) + 1]

LayoutIndex(d, case) ==
    CASE d.layout = "counterbalanced" ->
           (((case - 1) \div ControlCycle(d)) % LayoutCount(d)) + 1
      [] d.layout = "fixed" -> 1
      [] OTHER -> 0
RoleSeed(d, case) ==
    IF d.layout = "legacy" THEN d.seed + case
    ELSE RoleSeedBase(d) + LayoutIndex(d, case) - 1

\* The k-th row of the schedule, as it is recorded in the metadata of its run.
Row(d, k) ==
    LET case == CaseAt(d, k)
    IN [policy    |-> PolicyAt(d, k),
        game      |-> Cardinality({j \in 1..k : PolicyAt(d, j) = PolicyAt(d, k)}),
        case      |-> case,
        base_seed |-> d.seed,
        case_seed |-> d.seed + case,
        role_seed |-> RoleSeed(d, case),
        actor_seed        |-> d.seed + case + 100000,
        orchestrator_seed |-> d.seed + case + 200000,
        layout_mode      |-> d.layout,
        layout_seed_base |-> RoleSeedBase(d),
        layout_index |-> LayoutIndex(d, case),
        layout_count |-> LayoutCount(d),
        permutation  |-> Permutation(d, case),
        seat_mode    |-> IF d.cyclic THEN "cyclic" ELSE "fixed",
        persona_mode |-> d.persona,
        persona_seed_base |-> PersonaSeedBase(d),
        persona_case_seed |-> PersonaSeedBase(d) +
                                (IF d.persona = "randomized" THEN case - 1 ELSE 0),
        persona_position  |-> IF d.persona = "randomized" THEN 0
                              ELSE (PersonaPosition(d, case) % d.profiles) + 1,
        source_profiles   |-> SourceProfiles(d, case)]

Runs(d) == d.policies * d.n
Schedule(d) == [k \in 1..Runs(d) |-> Row(d, k)]

\* persona_assignment_metadata: the profile on each physical seat.
ProfileOn(row, seat) == row.source_profiles[row.permutation[seat]]

\* _expected_source_persona_profiles: what the runner recomputes from the
\* metadata of a run, or <<>> where it raises.
ExpectedProfiles(row, seats, profiles) ==
    LET case == row.case_seed - row.base_seed
        cycle == IF row.seat_mode = "cyclic" THEN seats ELSE 1
        position == IF row.persona_mode = "counterbalanced" THEN (case - 1) \div cycle ELSE 0
    IN IF row.persona_mode = "randomized"
       THEN IF row.persona_case_seed # row.persona_seed_base + case - 1 THEN <<>>
            ELSE Shuffled([i \in 1..seats |-> ((i - 1) % profiles) + 1], row.persona_case_seed)
       ELSE IF \/ row.persona_case_seed # row.persona_seed_base
               \/ row.persona_position # (position % profiles) + 1
            THEN <<>>
            ELSE [i \in 1..seats |->
                    ((i - 1 + Draw(row.persona_seed_base, profiles) + position) % profiles) + 1]

\* resolved_role_layout_metadata: whether it derives a layout or raises.
LayoutVerifies(row) ==
    row.layout_mode # "legacy" =>
        /\ row.layout_index \in 1..row.layout_count
        /\ row.role_seed = row.layout_seed_base +
                (IF row.layout_mode = "fixed" THEN 0 ELSE row.layout_index - 1)
        /\ row.layout_mode = "fixed" => row.layout_count = 1
-----------------------------------------------------------------------------
\* What makes a schedule a fair comparison.

\* Every policy plays every case once, with the same seeds, seats and personas.
PoliciesArePaired(d, s) ==
    \A p \in 1..d.policies :
        LET mine == {k \in DOMAIN s : s[k].policy = p}
        IN /\ {s[k].case : k \in mine} = 1..d.n
           /\ {s[k].game : k \in mine} = 1..d.n
           /\ Cardinality(mine) = d.n
           /\ \A k \in mine : \E j \in DOMAIN s :
                 s[j].policy = 1 /\ s[k] = [s[j] EXCEPT !.policy = p, !.game = s[k].game]

\* The positions of a block add up to the same for both policies, and its
\* pairs are played next to each other.
OrderIsCounterbalanced(d, s) ==
    InBlocks(d) =>
        \A k \in DOMAIN s :
            /\ k % 2 = 1 => s[k].case = s[k + 1].case
            /\ k % 4 = 1 => s[k].policy = s[k + 3].policy /\ s[k + 1].policy = s[k + 2].policy

\* A counterbalanced control meets every combination of seat rotation, persona
\* position and role layout equally often, and so each player sits on each seat
\* with each profile equally often.
ControlsAreCrossed(d, s) ==
    "counterbalanced" \in {d.persona, d.layout} =>
        LET mine == {k \in DOMAIN s : s[k].policy = 1}
            times(rotation, position, layout) ==
                Cardinality({k \in mine :
                    /\ s[k].permutation[1] = rotation
                    /\ d.persona = "counterbalanced" => s[k].persona_position = position
                    /\ d.layout = "counterbalanced" => s[k].layout_index = layout})
            layouts == IF d.layout = "counterbalanced" THEN LayoutCount(d) ELSE 1
        IN /\ \A r \in 1..SeatCycle(d), p \in 1..PersonaCycle(d), l \in 1..layouts :
                 times(r, p, l) * ControlCycle(d) * layouts = d.n
           /\ d.cyclic /\ d.persona = "counterbalanced" =>
                 \A seat \in {1, d.seats}, player \in 1..d.seats, profile \in 1..d.profiles :
                     d.n = ControlCycle(d) *
                         Cardinality({k \in mine : s[k].permutation[seat] = player
                                                   /\ ProfileOn(s[k], seat) = profile})

\* The runner accepts the provenance of every run it is given.
ProvenanceVerifies(d, s) ==
    \A k \in DOMAIN s :
        /\ LayoutVerifies(s[k])
        /\ d.persona # "legacy" =>
               ExpectedProfiles(s[k], d.seats, d.profiles) = s[k].source_profiles

Balanced(d) ==
    LET s == Schedule(d)
    IN /\ PoliciesArePaired(d, s) /\ OrderIsCounterbalanced(d, s)
       /\ ControlsAreCrossed(d, s) /\ ProvenanceVerifies(d, s)

=============================================================================
