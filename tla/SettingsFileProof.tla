--------------------------- MODULE SettingsFileProof ---------------------------
(***************************************************************************)
(* What the settings mean, proved for every limit, step and fraction and    *)
(* for every document, catalogue and number of edits: what is shown is what *)
(* is sent and what the next start shows, documents of every schema keep    *)
(* their meaning, and a click changes one slot.                             *)
(***************************************************************************)
EXTENDS SettingsFile, TLAPS

--------------------------------------------------------------------------------
(* The invariant: what the pages may show. *)

\* A profile whose values the sliders can show, each maximum no less than its minimum.
InLimits(profile) ==
  /\ profile \in Profile
  /\ \A f \in Field : profile.value[f] \in Low(f) .. High(f)
  /\ \A f \in DOMAIN MinimumOf : profile.value[MinimumOf[f]] <= profile.value[f]

\* A filter as the pages make one: All is one filter, and no slot is 0.
Plain(filter) ==
  /\ filter \in Filter
  /\ 0 \notin filter.slots
  /\ filter.mode = "all" => filter = All

\* Settings that normalized leaves as they are, unless it refuses their target.
Settled(state) ==
  /\ state \in State
  /\ \A k \in Kind : InLimits(state.trigger[k].profile) /\ Plain(state.trigger[k].filter)
  /\ state.target # None =>
       /\ state.target.provider = state.provider
       /\ ToTargetId(state.target) \in {state.target, Refused}

AnyDocument == DocumentV1 \cup DocumentV2 \cup DocumentV3

IInv ==
  /\ file \in AnyDocument \cup {Missing, Malformed}
  /\ running \in BOOLEAN
  /\ Settled(app)
  /\ catalog \subseteq Slot

--------------------------------------------------------------------------------
(* Whole numbers of fractions and of steps. *)

\* Division rounds down.
LEMMA Division ==
  ASSUME NEW a \in Int, NEW b \in Nat \ {0}
  PROVE  /\ a \div b \in Int /\ a % b \in 0 .. b - 1
         /\ a = b * (a \div b) + (a % b)
BY SMT

\* Multiplication keeps the order.
LEMMA TimesOrder ==
  ASSUME NEW x \in Int, NEW y \in Int, NEW b \in Nat, x <= y
  PROVE  b * x <= b * y /\ b * x \in Int
<1> DEFINE d == y - x
<1>1. d \in Nat /\ y = x + d
  OBVIOUS
<1> HIDE DEF d
<1>2. b * y = b * x + b * d /\ b * d \in Nat /\ b * x \in Int
  BY <1>1, SMT
<1>3. QED
  BY <1>2, SMT

\* A bound on a quotient.
LEMMA QuotientBelow ==
  ASSUME NEW a \in Int, NEW b \in Nat \ {0}, NEW q \in Int, a < b * (q + 1)
  PROVE  a \div b <= q
<1> DEFINE c == a \div b
           r == a % b
<1>1. c \in Int /\ r \in 0 .. b - 1 /\ a = b * c + r
  BY Division
<1> HIDE DEF c, r
<1>2. SUFFICES ASSUME q + 1 <= c PROVE FALSE
  BY <1>1 DEF c
<1>3. b * (q + 1) <= b * c /\ b * (q + 1) \in Int
  BY <1>1, <1>2, TimesOrder
<1>4. b * c \in Int
  BY <1>1, SMT
<1> DEFINE u == b * (q + 1)
           w == b * c
<1> HIDE DEF u, w
<1>5. u \in Int /\ w \in Int /\ u <= w /\ a = w + r /\ a < u
  BY <1>1, <1>3, <1>4 DEF u, w
<1>6. QED
  BY <1>1, <1>5

\* Division keeps the order.
LEMMA DivisionOrder ==
  ASSUME NEW a \in Int, NEW c \in Int, NEW b \in Nat \ {0}, a <= c
  PROVE  a \div b <= c \div b
<1>1. c < b * ((c \div b) + 1) /\ c \div b \in Int
  BY Division, SMT
<1>2. QED
  BY <1>1, QuotientBelow

\* The limits of every slider, and how many steps lie between them.
LEMMA Limits ==
  ASSUME NEW f \in Field
  PROVE  /\ Low(f) \in Int /\ High(f) \in Int /\ Low(f) <= High(f)
         /\ Step(f) \in Nat \ {0}
         /\ (High(f) - Low(f)) \div Step(f) \in Nat
         /\ High(f) = Low(f) + Step(f) * ((High(f) - Low(f)) \div Step(f))
<1>1. /\ Low(f) \in Int /\ High(f) \in Int /\ Low(f) <= High(f)
      /\ Step(f) \in Nat \ {0} /\ (High(f) - Low(f)) % Step(f) = 0
  BY LimitsAssumption DEF Low, High, Step
<1>2. High(f) - Low(f) \in Nat
  BY <1>1
<1>3. High(f) - Low(f) = Step(f) * ((High(f) - Low(f)) \div Step(f))
  <2> DEFINE a == High(f) - Low(f)
             b == Step(f)
  <2>1. a \in Int /\ b \in Nat \ {0} /\ a % b = 0
    BY <1>1, <1>2
  <2> HIDE DEF a, b
  <2>2. a = b * (a \div b) + (a % b) /\ a \div b \in Int
    BY <2>1, Division, Zenon
  <2>3. a = b * (a \div b)
    <3> DEFINE q == b * (a \div b)
    <3>1. q \in Int
      BY <2>1, <2>2, SMT
    <3> HIDE DEF q
    <3>2. a = q + 0
      BY <2>1, <2>2 DEF q
    <3>3. QED
      BY <3>1, <3>2 DEF q
  <2>4. QED
    BY <2>3 DEF a, b
<1>4. (High(f) - Low(f)) \div Step(f) \in Nat
  BY <1>1, <1>2, SMT
<1>5. QED
  BY <1>1, <1>3, <1>4, SMT

\* A whole number of steps above the lower limit is within the limits.
LEMMA StepsWithin ==
  ASSUME NEW f \in Field, NEW n \in 0 .. (High(f) - Low(f)) \div Step(f)
  PROVE  Low(f) + n * Step(f) \in Low(f) .. High(f)
<1> DEFINE N == (High(f) - Low(f)) \div Step(f)
<1>1. N \in Nat /\ n \in Nat /\ n <= N /\ Step(f) \in Nat /\ Low(f) \in Int /\ High(f) \in Int
      /\ High(f) = Low(f) + Step(f) * N
  BY Limits, SMT
<1> HIDE DEF N
<1>2. Step(f) * n <= Step(f) * N /\ Step(f) * n \in Nat /\ n * Step(f) = Step(f) * n
  BY <1>1, TimesOrder, SMT
<1>3. QED
  BY <1>1, <1>2, SMT

LEMMA NormalizeValueIn ==
  ASSUME NEW f \in Field, NEW v \in Int \cup {NonFinite}
  PROVE  /\ NormalizeValue(v, Low(f), High(f), Low(f)) \in Low(f) .. High(f)
         /\ v \in Low(f) .. High(f) => NormalizeValue(v, Low(f), High(f), Low(f)) = v
BY Limits, ValueAssumption DEF NormalizeValue

\* A slider that is drawn shows a value within its limits.
LEMMA OnStepIn ==
  ASSUME NEW f \in Field, NEW v \in Int \cup {NonFinite}
  PROVE  OnStep(f, v) \in Low(f) .. High(f)
<1> DEFINE N == (High(f) - Low(f)) \div Step(f)
           c == NormalizeValue(v, Low(f), High(f), Low(f))
           a == 2 * (c - Low(f)) + Step(f)
           b == 2 * Step(f)
<1>1. N \in Nat /\ Step(f) \in Nat \ {0} /\ Low(f) \in Int /\ High(f) \in Int
      /\ High(f) = Low(f) + Step(f) * N
  BY Limits
<1>2. c \in Low(f) .. High(f)
  BY NormalizeValueIn
<1> HIDE DEF N, c
<1>3. a \in Nat /\ b \in Nat \ {0}
  BY <1>1, <1>2, SMT
<1>4. a < b * (N + 1)
  <2>1. c - Low(f) <= Step(f) * N
    BY <1>1, <1>2, SMT
  <2>2. b * (N + 1) = 2 * (Step(f) * N) + 2 * Step(f)
    BY <1>1, SMT
  <2>3. Step(f) * N \in Int
    BY <1>1, SMT
  <2>4. QED
    BY <1>1, <1>2, <2>1, <2>2, <2>3, SMT
<1>5. a \div b \in Nat
  BY <1>3, SMT
<1> HIDE DEF a, b
<1>6. a \div b <= N
  <2>1. a \in Int /\ b \in Nat \ {0} /\ N \in Int
    BY <1>1, <1>3
  <2>2. QED
    BY <1>4, <2>1, QuotientBelow, Zenon
<1>7. a \div b \in 0 .. N
  BY <1>1, <1>5, <1>6
<1>8. OnStep(f, v) = Low(f) + (a \div b) * Step(f)
  BY DEF OnStep, a, b, c
<1>9. Low(f) + (a \div b) * Step(f) \in Low(f) .. High(f)
  <2> DEFINE n == a \div b
  <2>1. n \in 0 .. N
    BY <1>7
  <2> HIDE DEF n
  <2>2. Low(f) + n * Step(f) \in Low(f) .. High(f)
    BY <2>1, StepsWithin DEF N
  <2>3. QED
    BY <2>2 DEF n
<1>10. QED
  BY <1>8, <1>9
--------------------------------------------------------------------------------
(* Profiles. *)

LEMMA Fields ==
  /\ Field = {"minimum_intensity", "maximum_intensity", "intensity",
              "minimum_duration", "maximum_duration", "duration"}
  /\ DOMAIN MinimumOf = {"maximum_intensity", "maximum_duration"}
  /\ MinimumOf["maximum_intensity"] = "minimum_intensity"
  /\ MinimumOf["maximum_duration"] = "minimum_duration"
BY DEF Field, Intensity, Duration, MinimumOf

\* A minimum and its maximum have the same limits.
LEMMA SameLimits ==
  ASSUME NEW f \in DOMAIN MinimumOf
  PROVE  f \in Field /\ MinimumOf[f] \in Field /\ MinimumOf[f] \notin DOMAIN MinimumOf
         /\ Low(MinimumOf[f]) = Low(f) /\ High(MinimumOf[f]) = High(f)
BY Fields DEF Low, High, Intensity

\* Raising the maxima of values within the limits orders them, and changes only those
\* that are below their minimum.
LEMMA RaisedIn ==
  ASSUME NEW v \in [Field -> Int], \A f \in Field : v[f] \in Low(f) .. High(f)
  PROVE  /\ Raised(v) \in [Field -> Int]
         /\ \A f \in Field : Raised(v)[f] \in Low(f) .. High(f)
         /\ \A f \in DOMAIN MinimumOf : Raised(v)[MinimumOf[f]] <= Raised(v)[f]
         /\ \A f \in Field \ DOMAIN MinimumOf : Raised(v)[f] = v[f]
         /\ \A f \in DOMAIN MinimumOf :
              Raised(v)[f] = IF v[MinimumOf[f]] > v[f] THEN v[MinimumOf[f]] ELSE v[f]
<1>1. \A f \in Field : Raised(v)[f] = IF f \in DOMAIN MinimumOf /\ v[MinimumOf[f]] > v[f]
                                      THEN v[MinimumOf[f]] ELSE v[f]
  BY DEF Raised
<1>2. \A f \in Field : v[f] \in Int
  OBVIOUS
<1>3. \A f \in Field \ DOMAIN MinimumOf : Raised(v)[f] = v[f]
  BY <1>1
<1>4. \A f \in DOMAIN MinimumOf :
         Raised(v)[f] = IF v[MinimumOf[f]] > v[f] THEN v[MinimumOf[f]] ELSE v[f]
  BY <1>1, SameLimits
<1>5. \A f \in Field : Raised(v)[f] \in Int /\ Raised(v)[f] \in Low(f) .. High(f)
  <2>1. \A f \in DOMAIN MinimumOf : Raised(v)[f] \in Int /\ Raised(v)[f] \in Low(f) .. High(f)
    BY <1>4, <1>2, SameLimits
  <2>2. QED
    BY <1>2, <1>3, <2>1
<1>6. \A f \in DOMAIN MinimumOf : Raised(v)[MinimumOf[f]] <= Raised(v)[f]
  BY <1>2, <1>3, <1>4, SameLimits
<1>7. Raised(v) \in [Field -> Int]
  BY <1>5 DEF Raised
<1>8. QED
  BY <1>3, <1>4, <1>5, <1>6, <1>7

\* Raising changes nothing where every maximum is above its minimum.
LEMMA RaisedSame ==
  ASSUME NEW v \in [Field -> Int], \A f \in DOMAIN MinimumOf : v[MinimumOf[f]] <= v[f]
  PROVE  Raised(v) = v
<1>1. \A f \in Field : Raised(v)[f] = v[f]
  <2> TAKE f \in Field
  <2>1. f \in DOMAIN MinimumOf => ~(v[MinimumOf[f]] > v[f])
    BY SameLimits
  <2>2. QED
    BY <2>1 DEF Raised
<1>2. QED
  BY <1>1 DEF Raised

\* The values of a profile after each is brought within its limits.
Clamped(profile) ==
  [f \in Field |-> NormalizeValue(profile.value[f], Low(f), High(f), Low(f))]

LEMMA ClampedIn ==
  ASSUME NEW profile \in Profile
  PROVE  /\ Clamped(profile) \in [Field -> Int]
         /\ \A f \in Field : Clamped(profile)[f] \in Low(f) .. High(f)
         /\ \A f \in Field : profile.value[f] \in Low(f) .. High(f)
                               => Clamped(profile)[f] = profile.value[f]
<1>1. \A f \in Field : profile.value[f] \in Int \cup {NonFinite}
  BY DEF Profile
<1>2. \A f \in Field : Clamped(profile)[f] \in Low(f) .. High(f)
  BY <1>1, NormalizeValueIn DEF Clamped
<1>3. \A f \in Field : Clamped(profile)[f] \in Int
  BY <1>2, Limits
<1>4. Clamped(profile) \in [Field -> Int]
  BY <1>3 DEF Clamped
<1>5. QED
  BY <1>1, <1>2, <1>4, NormalizeValueIn DEF Clamped

LEMMA NormalizedProfile ==
  ASSUME NEW profile \in Profile
  PROVE  /\ NormalizeProfile(profile) = [mode |-> profile.mode, value |-> Raised(Clamped(profile))]
         /\ InLimits(NormalizeProfile(profile))
<1>1. NormalizeProfile(profile) = [mode |-> profile.mode, value |-> Raised(Clamped(profile))]
  BY DEF NormalizeProfile, Clamped, Profile
<1>2. profile.mode \in Mode
  BY DEF Profile
<1>3. [Field -> Int] \subseteq [Field -> Int \cup {NonFinite}]
  OBVIOUS
<1>4. Raised(Clamped(profile)) \in [Field -> Int]
      /\ (\A f \in Field : Raised(Clamped(profile))[f] \in Low(f) .. High(f))
      /\ (\A f \in DOMAIN MinimumOf :
            Raised(Clamped(profile))[MinimumOf[f]] <= Raised(Clamped(profile))[f])
  BY ClampedIn, RaisedIn
<1>5. QED
  BY <1>1, <1>2, <1>3, <1>4 DEF InLimits, Profile

\* A profile the pages can show is normalized already.
LEMMA NormalizedSame ==
  ASSUME NEW profile, InLimits(profile)
  PROVE  NormalizeProfile(profile) = profile
<1>1. profile \in Profile /\ \A f \in Field : profile.value[f] \in Low(f) .. High(f)
  BY DEF InLimits
<1>2. Clamped(profile) = profile.value
  BY <1>1, ClampedIn DEF Profile
<1>3. Raised(profile.value) = profile.value
  BY <1>1, <1>2, ClampedIn, RaisedSame DEF InLimits
<1>4. profile = [mode |-> profile.mode, value |-> profile.value]
  BY <1>1 DEF Profile
<1>5. QED
  BY <1>1, <1>2, <1>3, <1>4, NormalizedProfile

\* What the editor leaves is a profile the pages can show.
LEMMA EditedIn ==
  ASSUME NEW profile, InLimits(profile), NEW mode \in Mode, NEW f \in Sliders(mode),
         NEW n \in 0 .. (High(f) - Low(f)) \div Step(f),
         NEW drawn, drawn = [g \in Field |-> IF g \in Sliders(mode) THEN OnStep(g, profile.value[g])
                                             ELSE profile.value[g]]
  PROVE  InLimits([mode |-> mode, value |-> Raised([drawn EXCEPT ![f] = Low(f) + n * Step(f)])])
<1> DEFINE v == [drawn EXCEPT ![f] = Low(f) + n * Step(f)]
<1>1. f \in Field
  BY DEF Sliders, Field, Intensity, Duration
<1>2. Low(f) + n * Step(f) \in Low(f) .. High(f)
  BY <1>1, StepsWithin
<1>3. \A g \in Field : profile.value[g] \in Low(g) .. High(g)
                       /\ profile.value[g] \in Int \cup {NonFinite}
  BY DEF InLimits, Profile
<1>4. \A g \in Field : drawn[g] \in Low(g) .. High(g)
  BY <1>3, OnStepIn
<1>5. \A g \in Field : v[g] \in Low(g) .. High(g)
  BY <1>2, <1>4
<1>6. \A g \in Field : v[g] \in Int
  BY <1>5, Limits
<1>7. v \in [Field -> Int]
  BY <1>6
<1> HIDE DEF v
<1>8. Raised(v) \in [Field -> Int]
      /\ (\A g \in Field : Raised(v)[g] \in Low(g) .. High(g))
      /\ (\A g \in DOMAIN MinimumOf : Raised(v)[MinimumOf[g]] <= Raised(v)[g])
  BY <1>5, <1>7, RaisedIn
<1>9. Raised(v) \in [Field -> Int \cup {NonFinite}]
  BY <1>8
<1>10. InLimits([mode |-> mode, value |-> Raised(v)])
  BY <1>8, <1>9 DEF InLimits, Profile
<1>11. QED
  BY <1>10 DEF v
--------------------------------------------------------------------------------
(* What profiles resolve to. *)

\* The whole percents or milliseconds of a value.
LEMMA WholeType ==
  ASSUME NEW f \in Field, NEW v \in Int
  PROVE  Whole(f, v) \in Int
<1>1. Percent \in Nat \ {0} /\ Millisecond \in Nat \ {0}
  BY LimitsAssumption
<1>2. 2 * v + Millisecond \in Int /\ 2 * Millisecond \in Nat \ {0}
  BY <1>1
<1>3. v \div Percent \in Int /\ (2 * v + Millisecond) \div (2 * Millisecond) \in Int
  BY <1>1, <1>2, Division, Zenon
<1>4. QED
  BY <1>3 DEF Whole

LEMMA WholeOrder ==
  ASSUME NEW f \in Field, NEW v \in Int, NEW w \in Int, v <= w
  PROVE  Whole(f, v) <= Whole(f, w)
<1>1. Percent \in Nat \ {0} /\ Millisecond \in Nat \ {0}
  BY LimitsAssumption
<1>2. v \div Percent <= w \div Percent
  BY <1>1, DivisionOrder, Zenon
<1>3. /\ 2 * v + Millisecond \in Int /\ 2 * w + Millisecond \in Int
      /\ 2 * Millisecond \in Nat \ {0} /\ 2 * v + Millisecond <= 2 * w + Millisecond
  BY <1>1
<1>4. (2 * v + Millisecond) \div (2 * Millisecond) <= (2 * w + Millisecond) \div (2 * Millisecond)
  BY <1>3, DivisionOrder, Zenon
<1>5. QED
  BY <1>2, <1>4 DEF Whole

\* A whole number of percents has no fraction.
LEMMA WholePercent ==
  ASSUME NEW f \in Intensity, NEW v \in Int, v % Percent = 0
  PROVE  Percent * Whole(f, v) = v
<1>1. Percent \in Nat \ {0}
  BY LimitsAssumption
<1> DEFINE q == v \div Percent
<1>2. q \in Int /\ v = Percent * q + (v % Percent)
  BY <1>1, Division, Zenon
<1> HIDE DEF q
<1>3. Percent * q \in Int
  BY <1>1, <1>2, SMT
<1>4. v = Percent * q
  BY <1>2, <1>3
<1>5. QED
  BY <1>4 DEF Whole, q

\* The actions between two values of two sliders.
Between(f, low, high, g, least, most) ==
  (Whole(f, low) .. Whole(f, high)) \X (Whole(g, least) .. Whole(g, most))

LEMMA ResolveFixed ==
  ASSUME NEW profile, profile.mode = "fixed"
  PROVE  LET v == profile.value
         IN  Resolve(profile) =
               IF Portable("intensity", v["intensity"]) /\ Portable("duration", v["duration"])
               THEN Between("intensity", v["intensity"], v["intensity"],
                            "duration", v["duration"], v["duration"])
               ELSE {}
BY DEF Resolve, Sliders, Lowest, Highest, Between

LEMMA ResolveInterval ==
  ASSUME NEW profile, profile.mode # "fixed"
  PROVE  LET v == profile.value
         IN  Resolve(profile) =
               IF /\ Portable("minimum_intensity", v["minimum_intensity"])
                  /\ Portable("maximum_intensity", v["maximum_intensity"])
                  /\ Portable("minimum_duration", v["minimum_duration"])
                  /\ Portable("maximum_duration", v["maximum_duration"])
               THEN Between("minimum_intensity", v["minimum_intensity"], v["maximum_intensity"],
                            "minimum_duration", v["minimum_duration"], v["maximum_duration"])
               ELSE {}
<1>1. Sliders(profile.mode) = {"minimum_intensity", "maximum_intensity",
                               "minimum_duration", "maximum_duration"}
  BY Fields DEF Sliders
<1>2. Lowest(profile.mode) = <<"minimum_intensity", "minimum_duration">>
      /\ Highest(profile.mode) = <<"maximum_intensity", "maximum_duration">>
  BY DEF Lowest, Highest
<1>3. \A x : Whole("maximum_intensity", x) = Whole("minimum_intensity", x)
             /\ Whole("maximum_duration", x) = Whole("minimum_duration", x)
  BY DEF Whole, Intensity
<1>4. QED
  BY <1>1, <1>2, <1>3 DEF Resolve, Between

\* A value a slider shows can be sent, if it is a whole number of percents.
LEMMA ShownPortable ==
  ASSUME NEW profile, InLimits(profile), NEW f \in Field
  PROVE  /\ profile.value[f] \in Int
         /\ profile.value[f] >= Low(f) /\ profile.value[f] <= High(f)
         /\ Portable(f, profile.value[f])
              <=> (f \in Intensity => profile.value[f] % Percent = 0)
<1>1. profile.value[f] \in Low(f) .. High(f) /\ Low(f) \in Int /\ High(f) \in Int
  BY Limits DEF InLimits
<1>2. profile.value[f] \in Int /\ profile.value[f] # NonFinite
  BY <1>1, ValueAssumption
<1>3. QED
  BY <1>1, <1>2 DEF Portable, InRange

\* A value that can be sent is one its slider could show.
LEMMA PortableShown ==
  ASSUME NEW profile \in Profile, NEW f \in Field, Portable(f, profile.value[f])
  PROVE  profile.value[f] \in Int /\ profile.value[f] \in Low(f) .. High(f)
BY Limits DEF Portable, InRange, Profile

\* Normalizing a profile keeps what it resolves to, if it resolves to anything.
LEMMA NormalizedResolves ==
  ASSUME NEW profile \in Profile, Resolve(profile) # {}
  PROVE  Resolve(NormalizeProfile(profile)) = Resolve(profile)
<1> DEFINE v == profile.value
           w == Raised(Clamped(profile))
           n == NormalizeProfile(profile)
<1>1. n = [mode |-> profile.mode, value |-> w]
  BY NormalizedProfile
<1>2. n.mode = profile.mode /\ n.value = w
  BY <1>1
<1>3. /\ \A f \in Field \ DOMAIN MinimumOf : w[f] = Clamped(profile)[f]
      /\ \A f \in DOMAIN MinimumOf :
           w[f] = IF Clamped(profile)[MinimumOf[f]] > Clamped(profile)[f]
                  THEN Clamped(profile)[MinimumOf[f]] ELSE Clamped(profile)[f]
  BY ClampedIn, RaisedIn
<1>4. \A f \in Field : Portable(f, v[f]) => v[f] \in Int /\ Clamped(profile)[f] = v[f]
  BY PortableShown, ClampedIn
<1> HIDE DEF w, n
<1>5. CASE profile.mode = "fixed"
  <2>1. Portable("intensity", v["intensity"]) /\ Portable("duration", v["duration"])
    BY <1>5, ResolveFixed
  <2>2. w["intensity"] = v["intensity"] /\ w["duration"] = v["duration"]
    BY <1>3, <1>4, <2>1, Fields
  <2>3. QED
    BY <1>2, <1>5, <2>1, <2>2, ResolveFixed DEF n
<1>6. CASE profile.mode # "fixed"
  <2>1. /\ Portable("minimum_intensity", v["minimum_intensity"])
        /\ Portable("maximum_intensity", v["maximum_intensity"])
        /\ Portable("minimum_duration", v["minimum_duration"])
        /\ Portable("maximum_duration", v["maximum_duration"])
        /\ Resolve(profile) =
             Between("minimum_intensity", v["minimum_intensity"], v["maximum_intensity"],
                     "minimum_duration", v["minimum_duration"], v["maximum_duration"])
    BY <1>6, ResolveInterval
  <2>2. /\ v["minimum_intensity"] \in Int /\ v["maximum_intensity"] \in Int
        /\ v["minimum_duration"] \in Int /\ v["maximum_duration"] \in Int
    BY <1>4, <2>1, Fields
  <2>3. /\ w["minimum_intensity"] = v["minimum_intensity"]
        /\ w["minimum_duration"] = v["minimum_duration"]
        /\ w["maximum_intensity"] = IF v["minimum_intensity"] > v["maximum_intensity"]
                                    THEN v["minimum_intensity"] ELSE v["maximum_intensity"]
        /\ w["maximum_duration"] = IF v["minimum_duration"] > v["maximum_duration"]
                                   THEN v["minimum_duration"] ELSE v["maximum_duration"]
    BY <1>3, <1>4, <2>1, Fields
  <2>4. /\ Whole("minimum_intensity", v["minimum_intensity"])
             <= Whole("minimum_intensity", v["maximum_intensity"])
        /\ Whole("minimum_duration", v["minimum_duration"])
             <= Whole("minimum_duration", v["maximum_duration"])
    <3>1. /\ Whole("minimum_intensity", v["minimum_intensity"])
               .. Whole("minimum_intensity", v["maximum_intensity"]) # {}
          /\ Whole("minimum_duration", v["minimum_duration"])
               .. Whole("minimum_duration", v["maximum_duration"]) # {}
      BY <2>1 DEF Between
    <3>2. /\ Whole("minimum_intensity", v["minimum_intensity"]) \in Int
          /\ Whole("minimum_intensity", v["maximum_intensity"]) \in Int
          /\ Whole("minimum_duration", v["minimum_duration"]) \in Int
          /\ Whole("minimum_duration", v["maximum_duration"]) \in Int
      BY <2>2, WholeType, Fields
    <3>3. QED
      BY <3>1, <3>2
  <2>5. v["minimum_intensity"] <= v["maximum_intensity"]
    <3>1. /\ v["minimum_intensity"] = Percent * Whole("minimum_intensity", v["minimum_intensity"])
          /\ v["maximum_intensity"] = Percent * Whole("minimum_intensity", v["maximum_intensity"])
      BY <2>1, <2>2, WholePercent DEF Portable, Intensity
    <3>2. /\ Percent \in Nat
          /\ Whole("minimum_intensity", v["minimum_intensity"]) \in Int
          /\ Whole("minimum_intensity", v["maximum_intensity"]) \in Int
      BY <2>2, WholeType, LimitsAssumption, Fields
    <3>3. Percent * Whole("minimum_intensity", v["minimum_intensity"])
            <= Percent * Whole("minimum_intensity", v["maximum_intensity"])
      BY <2>4, <3>2, TimesOrder, Zenon
    <3>4. QED
      BY <3>1, <3>3, Zenon
  <2>6. w["maximum_intensity"] = v["maximum_intensity"]
    BY <2>2, <2>3, <2>5
  <2>7. /\ Whole("minimum_duration", w["maximum_duration"])
             = Whole("minimum_duration", v["maximum_duration"])
        /\ Portable("maximum_duration", w["maximum_duration"])
    <3>1. CASE v["minimum_duration"] > v["maximum_duration"]
      <4>1. w["maximum_duration"] = v["minimum_duration"]
        BY <2>3, <3>1
      <4>2. Whole("minimum_duration", v["maximum_duration"])
              <= Whole("minimum_duration", v["minimum_duration"])
        <5>1. v["maximum_duration"] <= v["minimum_duration"]
          BY <2>2, <3>1
        <5>2. QED
          BY <2>2, <5>1, WholeOrder, Fields
      <4>3. Whole("minimum_duration", v["maximum_duration"]) \in Int
            /\ Whole("minimum_duration", v["minimum_duration"]) \in Int
        BY <2>2, WholeType, Fields
      <4>4. Portable("maximum_duration", v["minimum_duration"])
        BY <2>1 DEF Portable, InRange, Low, High, Intensity
      <4>5. QED
        BY <2>4, <4>1, <4>2, <4>3, <4>4
    <3>2. CASE ~(v["minimum_duration"] > v["maximum_duration"])
      BY <2>1, <2>3, <3>2
    <3>3. QED
      BY <3>1, <3>2
  <2>8. Resolve(n) =
          Between("minimum_intensity", v["minimum_intensity"], v["maximum_intensity"],
                  "minimum_duration", v["minimum_duration"], w["maximum_duration"])
    BY <1>2, <1>6, <2>1, <2>3, <2>6, <2>7, ResolveInterval
  <2>9. QED
    BY <2>1, <2>7, <2>8 DEF Between, n
<1>7. QED
  BY <1>5, <1>6
--------------------------------------------------------------------------------
(* Settings. *)

\* A target that is one stays it.
LEMMA TargetIds ==
  ASSUME NEW target \in Target, ToTargetId(target) # Refused
  PROVE  /\ ToTargetId(target) \in Target
         /\ ToTargetId(target).provider = target.provider
         /\ ToTargetId(ToTargetId(target)) = ToTargetId(target)
<1>1. target = [provider |-> target.provider, id |-> target.id]
      /\ target.provider \in Provider /\ target.id \in Id
  BY DEF Target
<1>2. CASE target.provider = "PiShock"
  <2>1. target.id \in DOMAIN Number
        /\ ToTargetId(target) = [provider |-> "PiShock", id |-> Number[target.id]]
    BY <1>1, <1>2 DEF ToTargetId, Target
  <2>2. Number[target.id] \in DOMAIN Number /\ Number[target.id] \in Id
        /\ Number[Number[target.id]] = Number[target.id]
    BY <2>1, IdAssumption
  <2>3. ToTargetId([provider |-> "PiShock", id |-> Number[target.id]])
          = [provider |-> "PiShock", id |-> Number[target.id]]
    BY <2>2 DEF ToTargetId
  <2>4. QED
    BY <1>2, <2>1, <2>2, <2>3 DEF Target, Provider
<1>3. CASE target.provider # "PiShock"
  BY <1>3 DEF ToTargetId
<1>4. QED
  BY <1>2, <1>3

LEMMA NoTarget == /\ None \notin Target /\ Refused \notin Target /\ None # Refused
                  /\ Refused \notin State
BY ValueAssumption

\* Settings are known by their parts.
LEMMA StateParts ==
  ASSUME NEW state \in State
  PROVE  state = [provider |-> state.provider, keys |-> state.keys, target |-> state.target,
                  trigger |-> state.trigger, log_path |-> state.log_path]
BY DEF State

LEMMA StateTypes ==
  ASSUME NEW state \in State
  PROVE  /\ state.provider \in Provider /\ state.keys \in [Provider -> Key]
         /\ state.target \in Target \cup {None} /\ state.log_path \in LogPath
         /\ state.trigger \in [Kind -> Trigger]
BY DEF State

LEMMA TriggerParts ==
  ASSUME NEW trigger \in Trigger
  PROVE  /\ trigger = [enabled |-> trigger.enabled, profile |-> trigger.profile,
                       filter |-> trigger.filter]
         /\ trigger.enabled \in BOOLEAN /\ trigger.profile \in Profile /\ trigger.filter \in Filter
BY DEF Trigger

LEMMA PlainFilter ==
  ASSUME NEW filter \in Filter
  PROVE  /\ Plain(NormalizeFilter(filter))
         /\ Plain(filter) => NormalizeFilter(filter) = filter
         /\ \A slot \in Slot : Accepts(NormalizeFilter(filter), slot) <=> Accepts(filter, slot)
<1>1. filter = [mode |-> filter.mode, slots |-> filter.slots] /\ filter.mode \in {"all", "selected"}
      /\ filter.slots \subseteq Slot \cup {0}
  BY DEF Filter
<1>2. 0 \notin Slot
  BY ValueAssumption
<1>3. CASE filter.mode = "all"
  BY <1>3 DEF Plain, NormalizeFilter, Accepts, All, Filter
<1>4. CASE filter.mode # "all"
  <2>1. NormalizeFilter(filter) = [mode |-> "selected", slots |-> filter.slots \ {0}]
    BY <1>1, <1>4 DEF NormalizeFilter
  <2>2. Plain(filter) => filter.slots \ {0} = filter.slots
    BY DEF Plain
  <2>3. QED
    BY <1>1, <1>2, <1>4, <2>1, <2>2 DEF Plain, Accepts, Filter
<1>5. QED
  BY <1>3, <1>4

\* What normalized makes of the triggers and the target.
MendedTriggers(state) ==
  [k \in Kind |-> [enabled |-> state.trigger[k].enabled,
                   profile |-> NormalizeProfile(state.trigger[k].profile),
                   filter |-> NormalizeFilter(state.trigger[k].filter)]]
MendedTarget(state) ==
  IF state.target # None /\ state.target.provider = state.provider
  THEN ToTargetId(state.target) ELSE None

LEMMA Mended ==
  ASSUME NEW state \in State
  PROVE  /\ MendedTriggers(state) \in [Kind -> Trigger]
         /\ MendedTriggers(state)
              = [k \in Kind |-> [state.trigger[k] EXCEPT !.profile = NormalizeProfile(@),
                                                         !.filter = NormalizeFilter(@)]]
<1>1. \A k \in Kind : /\ state.trigger[k] \in Trigger
                      /\ state.trigger[k].enabled \in BOOLEAN
                      /\ NormalizeProfile(state.trigger[k].profile) \in Profile
                      /\ NormalizeFilter(state.trigger[k].filter) \in Filter
  BY StateTypes, TriggerParts, NormalizedProfile, PlainFilter DEF InLimits, Plain
<1>2. MendedTriggers(state) \in [Kind -> Trigger]
  BY <1>1 DEF MendedTriggers, Trigger
<1>3. ASSUME NEW trigger \in Trigger, NEW p \in Profile, NEW f \in Filter
      PROVE  [trigger EXCEPT !.profile = p, !.filter = f]
               = [enabled |-> trigger.enabled, profile |-> p, filter |-> f]
  <2> DEFINE t == [trigger EXCEPT !.profile = p, !.filter = f]
  <2>1. t \in Trigger /\ t.enabled = trigger.enabled /\ t.profile = p /\ t.filter = f
    BY <1>3 DEF Trigger
  <2> HIDE DEF t
  <2>2. t = [enabled |-> trigger.enabled, profile |-> p, filter |-> f]
    BY <2>1, TriggerParts, Zenon
  <2>3. QED
    BY <2>2 DEF t
<1>4. \A k \in Kind :
        [state.trigger[k] EXCEPT !.profile = NormalizeProfile(@), !.filter = NormalizeFilter(@)]
          = [enabled |-> state.trigger[k].enabled,
             profile |-> NormalizeProfile(state.trigger[k].profile),
             filter |-> NormalizeFilter(state.trigger[k].filter)]
  BY <1>1, <1>3, Zenon
<1>5. QED
  BY <1>2, <1>4 DEF MendedTriggers

\* normalized refuses settings for their target, and mends their parts otherwise.
LEMMA NormalizedState ==
  ASSUME NEW state \in State
  PROVE  /\ Normalized(state) = Refused
              <=> state.target # None /\ ToTargetId(state.target) = Refused
         /\ Normalized(state) # Refused =>
              Normalized(state) =
                [provider |-> state.provider, keys |-> state.keys, target |-> MendedTarget(state),
                 trigger |-> MendedTriggers(state), log_path |-> state.log_path]
<1> DEFINE target == IF state.target = None THEN None ELSE ToTargetId(state.target)
           triggers == [k \in Kind |-> [state.trigger[k] EXCEPT !.profile = NormalizeProfile(@),
                                                                !.filter = NormalizeFilter(@)]]
           kept == IF target # None /\ target.provider = state.provider THEN target ELSE None
           n == [state EXCEPT !.trigger = triggers, !.target = kept]
<1>1. Normalized(state) = IF target = Refused THEN Refused ELSE n
  BY DEF Normalized
<1>2. target = Refused <=> state.target # None /\ ToTargetId(state.target) = Refused
  BY NoTarget
<1>3. ASSUME target # Refused
      PROVE  /\ n = [provider |-> state.provider, keys |-> state.keys, target |-> MendedTarget(state),
                     trigger |-> MendedTriggers(state), log_path |-> state.log_path]
             /\ n \in State
  <2>1. target \in Target \cup {None}
        /\ (target # None => target = ToTargetId(state.target) /\ state.target # None
                             /\ target.provider = state.target.provider)
        /\ (state.target # None => target # None)
    BY <1>3, StateTypes, TargetIds, NoTarget
  <2>2. kept = MendedTarget(state) /\ kept \in Target \cup {None}
    BY <2>1 DEF MendedTarget
  <2>3. triggers = MendedTriggers(state) /\ triggers \in [Kind -> Trigger]
    BY Mended
  <2> HIDE DEF triggers, kept
  <2>4. n \in State /\ n.provider = state.provider /\ n.keys = state.keys /\ n.target = kept
        /\ n.trigger = triggers /\ n.log_path = state.log_path
    BY <2>2, <2>3 DEF State
  <2> HIDE DEF n
  <2>5. n = [provider |-> state.provider, keys |-> state.keys, target |-> kept,
             trigger |-> triggers, log_path |-> state.log_path]
    BY <2>4, StateParts
  <2>6. QED
    BY <2>2, <2>3, <2>4, <2>5
<1> HIDE DEF n, target
<1>4. CASE target = Refused
  BY <1>1, <1>2, <1>4
<1>5. CASE target # Refused
  BY <1>1, <1>2, <1>3, <1>5, NoTarget
<1>6. QED
  BY <1>4, <1>5

\* What normalized does not refuse is settled.
LEMMA NormalizedSettled ==
  ASSUME NEW state \in State, Normalized(state) # Refused
  PROVE  Settled(Normalized(state))
<1> DEFINE n == Normalized(state)
<1>1. n = [provider |-> state.provider, keys |-> state.keys, target |-> MendedTarget(state),
           trigger |-> MendedTriggers(state), log_path |-> state.log_path]
      /\ (state.target # None => ToTargetId(state.target) # Refused)
  BY NormalizedState
<1> HIDE DEF n
<1>2. n.target = MendedTarget(state) /\ n.trigger = MendedTriggers(state)
      /\ n.provider = state.provider
  BY <1>1
<1>3. MendedTarget(state) \in Target \cup {None}
      /\ (MendedTarget(state) # None =>
            /\ MendedTarget(state).provider = state.provider
            /\ ToTargetId(MendedTarget(state)) = MendedTarget(state))
  BY <1>1, StateTypes, TargetIds DEF MendedTarget
<1>4. n \in State
  BY <1>1, <1>3, StateTypes, Mended DEF State
<1>5. \A k \in Kind : InLimits(n.trigger[k].profile) /\ Plain(n.trigger[k].filter)
  <2> TAKE k \in Kind
  <2>1. state.trigger[k].profile \in Profile /\ state.trigger[k].filter \in Filter
    BY StateTypes, TriggerParts
  <2>2. n.trigger[k].profile = NormalizeProfile(state.trigger[k].profile)
        /\ n.trigger[k].filter = NormalizeFilter(state.trigger[k].filter)
    BY <1>2 DEF MendedTriggers
  <2>3. QED
    BY <2>1, <2>2, NormalizedProfile, PlainFilter
<1>6. Settled(n)
  BY <1>2, <1>3, <1>4, <1>5 DEF Settled
<1>7. QED
  BY <1>6 DEF n

\* Settled settings are normalized already, if their target is not refused.
LEMMA SettledNormalized ==
  ASSUME NEW state, Settled(state), state.target = None \/ ToTargetId(state.target) # Refused
  PROVE  Normalized(state) = state /\ state \in State
<1>1. state \in State
  BY DEF Settled
<1>2. Normalized(state) # Refused
  BY <1>1, NormalizedState
<1>3. MendedTarget(state) = state.target
  BY DEF Settled, MendedTarget
<1>4. MendedTriggers(state) = state.trigger
  <2>1. \A k \in Kind : MendedTriggers(state)[k] = state.trigger[k]
    <3> TAKE k \in Kind
    <3>1. NormalizeProfile(state.trigger[k].profile) = state.trigger[k].profile
      BY NormalizedSame DEF Settled
    <3>2. NormalizeFilter(state.trigger[k].filter) = state.trigger[k].filter
      BY <1>1, StateTypes, TriggerParts, PlainFilter DEF Settled
    <3>3. state.trigger[k] \in Trigger
      BY <1>1, StateTypes
    <3>4. QED
      BY <3>1, <3>2, <3>3, TriggerParts DEF MendedTriggers
  <2>2. QED
    BY <1>1, <2>1, StateTypes DEF MendedTriggers
<1>5. QED
  BY <1>1, <1>2, <1>3, <1>4, NormalizedState, StateParts
LEMMA DefaultSettled == Settled(Default) /\ Default.target = None /\ Default \in State
<1> DEFINE triggers == FromShared(DefaultProfile, DefaultEnabled)
<1>1. InLimits(DefaultProfile)
  <2>1. \A f \in Field : Low(f) \in Low(f) .. High(f) /\ Low(f) \in Int
    BY Limits
  <2>2. DefaultProfile.value = [f \in Field |-> Low(f)] /\ DefaultProfile.mode = "interval"
    BY DEF DefaultProfile
  <2>3. \A f \in DOMAIN MinimumOf : DefaultProfile.value[MinimumOf[f]] <= DefaultProfile.value[f]
    BY <2>1, <2>2, SameLimits
  <2>4. DefaultProfile \in Profile
    BY <2>1 DEF DefaultProfile, Profile, Mode
  <2>5. QED
    BY <2>1, <2>2, <2>3, <2>4 DEF InLimits
<1>2. Plain(All)
  BY DEF Plain, All, Filter
<1>3. \A k \in Kind : DefaultEnabled[k] \in BOOLEAN
  BY DEF DefaultEnabled
<1>4. \A k \in Kind : /\ triggers[k] \in Trigger /\ triggers[k].profile = DefaultProfile
                      /\ triggers[k].filter = All
  BY <1>1, <1>2, <1>3 DEF FromShared, Trigger, InLimits, Plain
<1>5. triggers \in [Kind -> Trigger]
  BY <1>4 DEF FromShared
<1> HIDE DEF triggers
<1>6. Default = [provider |-> "PiShock", keys |-> [p \in Provider |-> NoKey], target |-> None,
                 trigger |-> triggers, log_path |-> NoPath]
  BY DEF Default, triggers
<1>7. Default \in State /\ Default.target = None /\ Default.trigger = triggers
  BY <1>5, <1>6, ValueAssumption DEF State, Provider
<1>8. QED
  BY <1>1, <1>2, <1>4, <1>7 DEF Settled

\* Settings whose target is one are shown as they are.
LEMMA RestoredSame ==
  ASSUME NEW state, Settled(state), state.target = None \/ ToTargetId(state.target) # Refused
  PROVE  RestoreApp(state) = state
<1>1. state \in State /\ (state.target # None => ToTargetId(state.target) = state.target)
  BY DEF Settled
<1> DEFINE target == IF state.target = None \/ ToTargetId(state.target) = Refused
                     THEN None ELSE ToTargetId(state.target)
           n == [state EXCEPT !.target = target]
<1>2. target = state.target
  BY <1>1
<1> HIDE DEF target
<1>3. n = state
  BY <1>1, <1>2 DEF State
<1>4. RestoreApp(state) = n
  BY DEF RestoreApp, target
<1>5. QED
  BY <1>3, <1>4

\* Documents of every schema are read as settings with the same provider, keys, target,
\* log and switches, and for each trigger the profile and filter they kept for it.
LEMMA DocumentState ==
  ASSUME NEW doc \in AnyDocument
  PROVE  /\ Migrated(doc) \in State
         /\ Migrated(doc).provider = doc.provider /\ Migrated(doc).keys = doc.keys
         /\ Migrated(doc).target = doc.target /\ Migrated(doc).log_path = doc.log_path
         /\ doc.log_path \in LogPath
         /\ \A k \in Kind :
              /\ Migrated(doc).trigger[k].enabled = OldEnabled(doc, k)
              /\ Migrated(doc).trigger[k].profile = OldProfile(doc, k)
              /\ \A slot : Accepts(Migrated(doc).trigger[k].filter, slot)
                             <=> OldAccepts(doc, k, slot)
<1>1. /\ doc.provider \in Provider /\ doc.keys \in [Provider -> Key]
      /\ doc.target \in Target \cup {None} /\ doc.log_path \in LogPath
  BY DEF AnyDocument, DocumentV1, DocumentV2, DocumentV3
<1> DEFINE triggers == Migrated(doc).trigger
<1>2. Migrated(doc) = [provider |-> doc.provider, keys |-> doc.keys, target |-> doc.target,
                       trigger |-> triggers, log_path |-> doc.log_path]
  BY DEF Migrated
<1>3. All \in Filter /\ All.mode = "all"
  BY DEF All, Filter
<1>4. ASSUME NEW profile \in Profile, NEW enabled, \A k \in Kind : enabled[k] \in BOOLEAN
      PROVE  /\ FromShared(profile, enabled) \in [Kind -> Trigger]
             /\ \A k \in Kind : /\ FromShared(profile, enabled)[k].enabled = enabled[k]
                                /\ FromShared(profile, enabled)[k].profile = profile
                                /\ FromShared(profile, enabled)[k].filter = All
  BY <1>3, <1>4 DEF FromShared, Trigger
<1> DEFINE Keeps == /\ triggers \in [Kind -> Trigger]
                    /\ \A k \in Kind :
                         /\ triggers[k].enabled = OldEnabled(doc, k)
                         /\ triggers[k].profile = OldProfile(doc, k)
                         /\ \A slot : Accepts(triggers[k].filter, slot) <=> OldAccepts(doc, k, slot)
<1>5. ASSUME doc \in DocumentV1 PROVE Keeps
  <2>1. doc.schema = 1 /\ doc.profile \in Profile
    BY <1>5 DEF DocumentV1
  <2>2. triggers = FromShared(doc.profile, DefaultEnabled)
    BY <2>1 DEF Migrated
  <2>3. \A k \in Kind : DefaultEnabled[k] \in BOOLEAN /\ DefaultEnabled[k] = (k = "death")
    BY DEF DefaultEnabled
  <2> HIDE DEF triggers
  <2>4. Keeps
    BY <1>3, <1>4, <2>1, <2>2, <2>3 DEF OldEnabled, OldProfile, OldAccepts, Accepts
  <2>5. QED
    BY <2>4
<1>6. ASSUME doc \in DocumentV2 PROVE Keeps
  <2>1. doc.schema = 2 /\ doc.profile \in Profile /\ \A k \in Kind : doc.enabled[k] \in BOOLEAN
    BY <1>6 DEF DocumentV2
  <2>2. triggers = FromShared(doc.profile, doc.enabled)
    BY <2>1 DEF Migrated
  <2> HIDE DEF triggers
  <2>4. Keeps
    BY <1>3, <1>4, <2>1, <2>2 DEF OldEnabled, OldProfile, OldAccepts, Accepts
  <2>5. QED
    BY <2>4
<1>7. ASSUME doc \in DocumentV3 PROVE Keeps
  <2>1. doc.schema \in 3 .. 5 /\ doc.trigger \in [Kind -> Trigger]
    BY <1>7 DEF DocumentV3
  <2>2. triggers = doc.trigger
    BY <2>1 DEF Migrated
  <2> HIDE DEF triggers
  <2>4. Keeps
    BY <2>1, <2>2 DEF OldEnabled, OldProfile, OldAccepts
  <2>5. QED
    BY <2>4
<1>8. Keeps
  BY <1>5, <1>6, <1>7 DEF AnyDocument
<1> HIDE DEF triggers
<1>9. Migrated(doc) \in State
  BY <1>1, <1>2, <1>8 DEF State
<1>10. QED
  BY <1>1, <1>2, <1>8, <1>9

\* What is read from a file is settled, and its target is one.
LEMMA LoadedSettled ==
  ASSUME NEW source \in AnyDocument \cup {Missing, Malformed}, Loaded(source) # Refused
  PROVE  /\ Settled(Loaded(source))
         /\ Loaded(source).target = None \/ ToTargetId(Loaded(source).target) # Refused
<1>1. CASE source = Missing
  BY <1>1, DefaultSettled DEF Loaded
<1>2. CASE source # Missing
  <2>1. source # Malformed /\ Loaded(source) = Normalized(Migrated(source))
        /\ source \in AnyDocument
    BY <1>2 DEF Loaded
  <2> DEFINE state == Migrated(source)
  <2>2. state \in State /\ Normalized(state) # Refused
    BY <2>1, DocumentState
  <2> HIDE DEF state
  <2>3. Settled(Normalized(state))
    BY <2>2, NormalizedSettled
  <2>4. Normalized(state).target = MendedTarget(state)
        /\ (state.target # None => ToTargetId(state.target) # Refused)
    BY <2>2, NormalizedState
  <2>5. MendedTarget(state) # None => ToTargetId(MendedTarget(state)) = MendedTarget(state)
                                      /\ MendedTarget(state) \in Target
    BY <2>2, <2>4, StateTypes, TargetIds DEF MendedTarget
  <2>6. QED
    BY <2>1, <2>3, <2>4, <2>5, NoTarget DEF state
<1>3. QED
  BY <1>1, <1>2

--------------------------------------------------------------------------------
(* The invariant. *)

LEMMA InitIInv == Init => IInv
<1>1. Document \subseteq AnyDocument
  BY ValueAssumption DEF AnyDocument
<1>2. QED
  BY <1>1, DefaultSettled DEF Init, IInv

\* The document that is written.
LEMMA SavedDocument ==
  ASSUME NEW state, Settled(state)
  PROVE  /\ Saved(state) \in DocumentV3
         /\ Migrated(Saved(state)) = IF Normalized(state) = Refused THEN Default ELSE state
<1> DEFINE s == IF Normalized(state) = Refused THEN Default ELSE Normalized(state)
<1>1. s = IF Normalized(state) = Refused THEN Default ELSE state
  BY SettledNormalized, NormalizedState DEF Settled
<1>2. s \in State
  BY <1>1, DefaultSettled DEF Settled
<1> HIDE DEF s
<1>3. Saved(state) = [schema |-> 5, provider |-> s.provider, keys |-> s.keys, target |-> s.target,
                      trigger |-> s.trigger, log_path |-> s.log_path]
  BY DEF Saved, s
<1>4. Saved(state) \in DocumentV3
  <2>1. 5 \in 3 .. 5
    OBVIOUS
  <2>2. QED
    BY <1>2, <1>3, <2>1, StateTypes DEF DocumentV3
<1>5. Migrated(Saved(state)) = s
  <2>1. Migrated(Saved(state)) = [provider |-> s.provider, keys |-> s.keys, target |-> s.target,
                                  trigger |-> s.trigger, log_path |-> s.log_path]
    BY <1>3 DEF Migrated
  <2>2. QED
    BY <1>2, <2>1, StateParts
<1>6. QED
  BY <1>1, <1>4, <1>5

\* The settings a start shows are settled, whatever path was found.
LEMMA LogPathSettled ==
  ASSUME NEW state, Settled(state), NEW path \in LogPath
  PROVE  /\ Settled([state EXCEPT !.log_path = path])
         /\ \A part \in {"provider", "keys", "target", "trigger"} :
              [state EXCEPT !.log_path = path][part] = state[part]
         /\ [state EXCEPT !.log_path = path].log_path = path
<1> DEFINE n == [state EXCEPT !.log_path = path]
<1>1. n \in State /\ n.provider = state.provider /\ n.keys = state.keys
      /\ n.target = state.target /\ n.trigger = state.trigger /\ n.log_path = path
  BY DEF Settled, State
<1> HIDE DEF n
<1>2. Settled(n)
  BY <1>1 DEF Settled
<1>3. QED
  BY <1>1, <1>2 DEF n

\* A change of one trigger that leaves it one the pages can show.
LEMMA TriggerSettled ==
  ASSUME NEW state, Settled(state), NEW k \in Kind, NEW n \in State,
         n.provider = state.provider, n.target = state.target,
         \A j \in Kind \ {k} : n.trigger[j] = state.trigger[j],
         InLimits(n.trigger[k].profile), Plain(n.trigger[k].filter)
  PROVE  Settled(n)
BY DEF Settled

\* An edit of the effects.
LEMMA EffectsSettled ==
  ASSUME Settled(app), catalog \subseteq Slot, EditEffects
  PROVE  Settled(app') /\ UNCHANGED <<file, running, catalog>>
<1> USE DEF Edit
<1>0. UNCHANGED <<file, running, catalog>>
  BY DEF EditEffects, Toggle, Copy, DrawEditor, PressAll, PressNone, Click
<1> SUFFICES Settled(app')
  BY <1>0
<1>1. PICK k \in Kind :
        \/ Toggle(k) \/ \E source \in Kind : Copy(k, source)
        \/ \E mode \in Mode : DrawEditor(k, mode)
        \/ PressAll(k) \/ PressNone(k) \/ \E slot \in ShownSlots : Click(k, slot)
  BY DEF EditEffects
<1>2. app \in State /\ app.trigger \in [Kind -> Trigger]
      /\ \A j \in Kind : app.trigger[j] \in Trigger /\ InLimits(app.trigger[j].profile)
                         /\ Plain(app.trigger[j].filter)
  BY DEF Settled, State
<1>3. ASSUME NEW p, InLimits(p), app' = [app EXCEPT !.trigger[k].profile = p]
      PROVE  Settled(app')
  <2>1. p \in Profile
    BY <1>3 DEF InLimits
  <2>2. app' \in State /\ app'.provider = app.provider /\ app'.target = app.target
        /\ (\A j \in Kind \ {k} : app'.trigger[j] = app.trigger[j])
        /\ app'.trigger[k].profile = p /\ app'.trigger[k].filter = app.trigger[k].filter
    BY <1>2, <1>3, <2>1 DEF State, Trigger
  <2>3. QED
    BY <1>2, <1>3, <2>2, TriggerSettled
<1>4. ASSUME NEW f, Plain(f), app' = [app EXCEPT !.trigger[k].filter = f]
      PROVE  Settled(app')
  <2>1. f \in Filter
    BY <1>4 DEF Plain
  <2>2. app' \in State /\ app'.provider = app.provider /\ app'.target = app.target
        /\ (\A j \in Kind \ {k} : app'.trigger[j] = app.trigger[j])
        /\ app'.trigger[k].filter = f /\ app'.trigger[k].profile = app.trigger[k].profile
    BY <1>2, <1>4, <2>1 DEF State, Trigger
  <2>3. QED
    BY <1>2, <1>4, <2>2, TriggerSettled
<1>5. CASE Toggle(k)
  <2>1. PICK e \in BOOLEAN : app' = [app EXCEPT !.trigger[k].enabled = e]
    BY <1>2, <1>5 DEF Toggle, Trigger
  <2>2. app' \in State /\ app'.provider = app.provider /\ app'.target = app.target
        /\ (\A j \in Kind \ {k} : app'.trigger[j] = app.trigger[j])
        /\ app'.trigger[k].filter = app.trigger[k].filter
        /\ app'.trigger[k].profile = app.trigger[k].profile
    BY <1>2, <2>1 DEF State, Trigger
  <2>3. QED
    BY <1>2, <2>2, TriggerSettled
<1>6. CASE \E source \in Kind : Copy(k, source)
  <2>1. PICK source \in Kind : app' = [app EXCEPT !.trigger[k].profile = app.trigger[source].profile]
    BY <1>6 DEF Copy
  <2>2. QED
    BY <1>2, <1>3, <2>1
<1>7. CASE \E mode \in Mode : DrawEditor(k, mode)
  <2>1. PICK mode \in Mode : DrawEditor(k, mode)
    BY <1>7
  <2> DEFINE v == app.trigger[k].profile.value
             drawn == [g \in Field |-> IF g \in Sliders(mode) THEN OnStep(g, v[g]) ELSE v[g]]
  <2>6. PICK f \in Sliders(mode) : \E n \in 0 .. (High(f) - Low(f)) \div Step(f) :
          app' = [app EXCEPT !.trigger[k].profile =
                    [mode |-> mode, value |-> Raised([drawn EXCEPT ![f] = Low(f) + n * Step(f)])]]
    BY <2>1 DEF DrawEditor
  <2>2. PICK n \in 0 .. (High(f) - Low(f)) \div Step(f) :
          app' = [app EXCEPT !.trigger[k].profile =
                    [mode |-> mode, value |-> Raised([drawn EXCEPT ![f] = Low(f) + n * Step(f)])]]
    BY <2>6
  <2> HIDE DEF drawn
  <2>3. drawn = [g \in Field |-> IF g \in Sliders(mode) THEN OnStep(g, app.trigger[k].profile.value[g])
                                 ELSE app.trigger[k].profile.value[g]]
    BY DEF drawn
  <2>4. InLimits([mode |-> mode, value |-> Raised([drawn EXCEPT ![f] = Low(f) + n * Step(f)])])
    BY <1>2, <2>2, <2>3, EditedIn
  <2>5. QED
    BY <1>3, <2>2, <2>4
<1>8. CASE PressAll(k) \/ PressNone(k)
  <2>1. Plain(All) /\ Plain([mode |-> "selected", slots |-> {}])
    BY DEF Plain, All, Filter
  <2>2. QED
    BY <1>4, <1>8, <2>1 DEF PressAll, PressNone
<1>9. CASE \E slot \in ShownSlots : Click(k, slot)
  <2>1. PICK slot \in ShownSlots : Click(k, slot)
    BY <1>9
  <2>2. ShownSlots \subseteq Slot /\ 0 \notin Slot
    BY ValueAssumption DEF ShownSlots
  <2> DEFINE filter == app.trigger[k].filter
             slots == IF filter.mode = "all" THEN ShownSlots \ {slot}
                      ELSE IF slot \in filter.slots THEN filter.slots \ {slot}
                      ELSE filter.slots \cup {slot}
  <2>3. app' = [app EXCEPT !.trigger[k].filter = [mode |-> "selected", slots |-> slots]]
    BY <2>1 DEF Click
  <2>4. filter.slots \subseteq Slot \cup {0} /\ 0 \notin filter.slots
    BY <1>2 DEF Plain, Filter
  <2>5. slots \subseteq Slot /\ 0 \notin slots
    BY <2>1, <2>2, <2>4
  <2> HIDE DEF slots
  <2>6. Plain([mode |-> "selected", slots |-> slots])
    BY <2>5 DEF Plain, Filter
  <2>7. QED
    BY <1>4, <2>3, <2>6
<1>10. QED
  BY <1>1, <1>5, <1>6, <1>7, <1>8, <1>9

\* An edit of the setup.
LEMMA SetupSettled ==
  ASSUME Settled(app), EditSetupPage
  PROVE  Settled(app') /\ UNCHANGED <<file, running, catalog>>
<1> USE DEF Edit
<1>0. UNCHANGED <<file, running, catalog>>
  BY DEF EditSetupPage, SetProvider, EditSetup, EditLogPath, Prefer
<1>1. app \in State /\ app.provider \in Provider
  BY DEF Settled, State
<1>2. CASE \E p \in Provider : SetProvider(p)
  <2>1. PICK p \in Provider : app' = [app EXCEPT !.provider = p, !.target = None]
    BY <1>2 DEF SetProvider
  <2>2. app' \in State /\ app'.target = None /\ app'.trigger = app.trigger
    BY <1>1, <2>1 DEF State
  <2>3. QED
    BY <1>0, <2>2 DEF Settled
<1>3. CASE \E key \in Key : EditSetup(key)
  <2>1. PICK key \in Key : app' = [app EXCEPT !.keys[app.provider] = key]
    BY <1>3 DEF EditSetup
  <2>2. app' \in State /\ app'.target = app.target /\ app'.trigger = app.trigger
        /\ app'.provider = app.provider
    BY <1>1, <2>1 DEF State
  <2>3. QED
    BY <1>0, <2>2 DEF Settled
<1>4. CASE \E id \in ListedId(app.provider) \cup {None} : Prefer(id)
  <2>1. PICK id \in ListedId(app.provider) \cup {None} : Prefer(id)
    BY <1>4
  <2> DEFINE target == IF id = None THEN None ELSE [provider |-> app.provider, id |-> id]
  <2>2. app' = [app EXCEPT !.target = target]
    BY <2>1 DEF Prefer
  <2>3. target # None =>
          /\ target \in Target /\ target.provider = app.provider
          /\ ToTargetId(target) \in {target, Refused}
    <3> SUFFICES ASSUME target # None
                 PROVE  /\ target \in Target /\ target.provider = app.provider
                        /\ ToTargetId(target) \in {target, Refused}
      OBVIOUS
    <3>1. id # None /\ id \in ListedId(app.provider) /\ target = [provider |-> app.provider, id |-> id]
      BY <2>1
    <3> HIDE DEF target
    <3>2. CASE app.provider = "PiShock"
      <4>1. PICK number \in DOMAIN Number : id = Number[number]
        BY <3>1, <3>2 DEF ListedId
      <4>2. id \in DOMAIN Number /\ Number[id] = id /\ id \in Id
        BY <4>1, IdAssumption
      <4>3. ToTargetId(target) = [provider |-> "PiShock", id |-> id]
        BY <3>1, <3>2, <4>2 DEF ToTargetId
      <4>4. QED
        BY <1>1, <3>1, <3>2, <4>2, <4>3 DEF Target
    <3>3. CASE app.provider # "PiShock"
      BY <1>1, <3>1, <3>3 DEF ListedId, ToTargetId, Target
    <3>4. QED
      BY <3>2, <3>3
  <2> HIDE DEF target
  <2>4. target \in Target \cup {None}
    BY <2>3
  <2>5. app' \in State /\ app'.target = target /\ app'.trigger = app.trigger
        /\ app'.provider = app.provider
    BY <1>1, <2>2, <2>4 DEF State
  <2>6. QED
    BY <1>0, <2>3, <2>5 DEF Settled
<1>5. CASE \E path \in LogPath : EditLogPath(path)
  BY <1>0, <1>5, LogPathSettled DEF EditLogPath
<1>6. QED
  BY <1>2, <1>3, <1>4, <1>5 DEF EditSetupPage
\* What a start restores.
Restored(source) == IF Loaded(source) = Refused THEN Default ELSE Loaded(source)

\* A start shows it, on the path of the file or one that was found.
LEMMA StartShows ==
  ASSUME IInv, Start
  PROVE  /\ Settled(Restored(file))
         /\ \E path \in LogPath :
              /\ app' = [Restored(file) EXCEPT !.log_path = path]
              /\ Trim[Restored(file).log_path] # NoPath => path = Trim[Restored(file).log_path]
<1> DEFINE state == Restored(file)
<1>1. Settled(state)
  BY LoadedSettled, DefaultSettled DEF IInv, Restored
<1>2. state = IF Loaded(file) = Refused THEN Default ELSE RestoreApp(Loaded(file))
  BY LoadedSettled, RestoredSame DEF IInv, Restored
<1> HIDE DEF state
<1>3. PICK path \in IF Trim[state.log_path] # NoPath THEN {Trim[state.log_path]}
                    ELSE DetectedPath \cup {NoPath} : app' = [state EXCEPT !.log_path = path]
  BY <1>2 DEF Start
<1>4. state.log_path \in LogPath
  BY <1>1, StateTypes DEF Settled
<1>5. path \in LogPath
  BY <1>3, <1>4, ValueAssumption
<1>6. Trim[state.log_path] # NoPath => path = Trim[state.log_path]
  BY <1>3
<1>7. QED
  BY <1>1, <1>3, <1>5, <1>6 DEF state

LEMMA NextIInv == IInv /\ [Next]_vars => IInv'
<1> SUFFICES ASSUME IInv, [Next]_vars PROVE IInv'
  OBVIOUS
<1>t. /\ file \in AnyDocument \cup {Missing, Malformed} /\ running \in BOOLEAN
      /\ Settled(app) /\ catalog \subseteq Slot
  BY DEF IInv
<1>1. CASE Start
  <2>1. Settled(app')
    BY <1>1, StartShows, LogPathSettled
  <2>2. file' \in {Missing, file} /\ running' = TRUE /\ catalog' = {}
    BY <1>1 DEF Start
  <2>3. QED
    BY <1>t, <2>1, <2>2 DEF IInv
<1>2. CASE Save
  <2>1. file' \in AnyDocument
    BY <1>2, <1>t, SavedDocument DEF Save, AnyDocument
  <2>2. UNCHANGED <<running, app, catalog>>
    BY <1>2 DEF Save
  <2>3. QED
    BY <1>t, <2>1, <2>2 DEF IInv
<1>3. CASE Stop \/ Reset
  <2>1. app' = Default /\ catalog' = {} /\ file' = file /\ running' \in BOOLEAN
    BY <1>3, <1>t DEF Stop, Reset
  <2>2. QED
    BY <1>t, <2>1, DefaultSettled DEF IInv
<1>4. CASE EditEffects
  BY <1>4, <1>t, EffectsSettled DEF IInv
<1>5. CASE EditSetupPage
  BY <1>5, <1>t, SetupSettled DEF IInv
<1>6. CASE HookReady
  BY <1>6, <1>t DEF HookReady, IInv
<1>7. CASE \E slots \in Catalogue : AbilityCatalog(slots)
  <2>1. PICK slots \in Catalogue : AbilityCatalog(slots)
    BY <1>7
  <2>2. catalog' \subseteq Slot /\ UNCHANGED <<file, running, app>>
    BY <2>1, ValueAssumption DEF AbilityCatalog
  <2>3. QED
    BY <1>t, <2>2 DEF IInv
<1>8. CASE UNCHANGED vars
  BY <1>8, <1>t DEF vars, IInv
<1>9. QED
  BY <1>1, <1>2, <1>3, <1>4, <1>5, <1>6, <1>7, <1>8 DEF Next

\* In every reachable state the pages show settings that are settled.
THEOREM Invariance == Spec => []IInv
BY InitIInv, NextIInv, PTL DEF Spec

--------------------------------------------------------------------------------
(* What the settings promise. *)

\* What the pages show is shown again after a save and a start; only a target that
\* normalized refuses has everything saved as the defaults.
THEOREM SavedCorrect == Spec => []SavedIsShown
<1>1. IInv => SavedIsShown
  <2> SUFFICES ASSUME IInv
               PROVE  LET again == RestoreApp(Loaded(Saved(app)))
                      IN  IF app.target # None /\ ToTargetId(app.target) = Refused
                          THEN again = Default ELSE again = app
    BY DEF SavedIsShown
  <2>1. Settled(app) /\ app \in State
    BY DEF IInv, Settled
  <2>2. Saved(app) \in DocumentV3
        /\ Migrated(Saved(app)) = IF Normalized(app) = Refused THEN Default ELSE app
    BY <2>1, SavedDocument
  <2>3. Loaded(Saved(app)) = Normalized(Migrated(Saved(app)))
    BY <2>2, ValueAssumption DEF Loaded
  <2>4. CASE app.target # None /\ ToTargetId(app.target) = Refused
    <3>1. Migrated(Saved(app)) = Default
      BY <2>1, <2>2, <2>4, NormalizedState
    <3>2. Normalized(Default) = Default /\ RestoreApp(Default) = Default
      BY DefaultSettled, SettledNormalized, RestoredSame
    <3>3. QED
      BY <2>3, <2>4, <3>1, <3>2
  <2>5. CASE ~(app.target # None /\ ToTargetId(app.target) = Refused)
    <3>1. Normalized(app) = app /\ Normalized(app) # Refused
      BY <2>1, <2>5, SettledNormalized, NormalizedState
    <3>2. RestoreApp(app) = app
      BY <2>1, <2>5, RestoredSame
    <3>3. QED
      BY <2>2, <2>3, <2>5, <3>1, <3>2
  <2>6. QED
    BY <2>4, <2>5
<1>2. QED
  BY <1>1, Invariance, PTL

\* The number of whole percents between those of two values, in fractions.
LEMMA PercentsWithin ==
  ASSUME NEW f \in Intensity, NEW least \in Int, NEW most \in Int,
         least % Percent = 0, most % Percent = 0,
         NEW n \in Whole(f, least) .. Whole(f, most)
  PROVE  n \in Int /\ n * Percent >= least /\ n * Percent <= most
<1>1. f \in Field /\ Percent \in Nat
  BY LimitsAssumption DEF Field
<1>2. Whole(f, least) \in Int /\ Whole(f, most) \in Int
  BY <1>1, WholeType
<1>3. Percent * Whole(f, least) = least /\ Percent * Whole(f, most) = most
  BY WholePercent
<1>4. n \in Int /\ Whole(f, least) <= n /\ n <= Whole(f, most)
  BY <1>2
<1>5. Percent * Whole(f, least) <= Percent * n /\ Percent * n <= Percent * Whole(f, most)
  BY <1>1, <1>2, <1>4, TimesOrder, Zenon
<1>6. n * Percent = Percent * n
  BY <1>1, <1>4, SMT
<1>7. QED
  BY <1>3, <1>4, <1>5, <1>6, Zenon

\* The whole milliseconds between those of two values within the limits.
LEMMA MillisecondsWithin ==
  ASSUME NEW f \in Duration, NEW least \in Int, NEW most \in Int,
         least >= MinDuration, most <= MaxDuration,
         NEW n \in Whole(f, least) .. Whole(f, most)
  PROVE  n >= Whole("duration", MinDuration) /\ n <= Whole("duration", MaxDuration)
<1>1. f \in Field /\ \A v : Whole(f, v) = Whole("duration", v)
  BY DEF Field, Duration, Intensity, Whole
<1>2. MinDuration \in Int /\ MaxDuration \in Int
  BY LimitsAssumption
<1>3. Whole(f, MinDuration) <= Whole(f, least) /\ Whole(f, most) <= Whole(f, MaxDuration)
  BY <1>1, <1>2, WholeOrder
<1>4. Whole(f, least) \in Int /\ Whole(f, most) \in Int
      /\ Whole(f, MinDuration) \in Int /\ Whole(f, MaxDuration) \in Int
  BY <1>1, <1>2, WholeType
<1>5. QED
  BY <1>1, <1>3, <1>4

\* The actions between the ends of sliders that can be sent.
LEMMA BetweenWithin ==
  ASSUME NEW f \in Intensity, NEW g \in Duration,
         NEW low \in Int, NEW high \in Int, NEW least \in Int, NEW most \in Int,
         low % Percent = 0, high % Percent = 0, low >= MinIntensity, high <= MaxIntensity,
         least >= MinDuration, most <= MaxDuration, low <= high, least <= most
  PROVE  /\ \A action \in Between(f, low, high, g, least, most) :
              /\ action[1] * Percent >= MinIntensity /\ action[1] * Percent <= MaxIntensity
              /\ action[2] >= Whole("duration", MinDuration)
              /\ action[2] <= Whole("duration", MaxDuration)
         /\ {<<Whole(f, low), Whole(g, least)>>, <<Whole(f, high), Whole(g, most)>>}
              \subseteq Between(f, low, high, g, least, most)
<1>1. f \in Field /\ g \in Field
  BY DEF Field
<1>2. /\ Whole(f, low) \in Int /\ Whole(f, high) \in Int
      /\ Whole(g, least) \in Int /\ Whole(g, most) \in Int
      /\ Whole(f, low) <= Whole(f, high) /\ Whole(g, least) <= Whole(g, most)
  BY <1>1, WholeType, WholeOrder
<1>3. MinIntensity \in Int /\ MaxIntensity \in Int /\ Percent \in Nat
  BY LimitsAssumption
<1>4. ASSUME NEW action \in Between(f, low, high, g, least, most)
      PROVE  /\ action[1] * Percent >= MinIntensity /\ action[1] * Percent <= MaxIntensity
             /\ action[2] >= Whole("duration", MinDuration)
             /\ action[2] <= Whole("duration", MaxDuration)
  <2>1. action[1] \in Whole(f, low) .. Whole(f, high)
        /\ action[2] \in Whole(g, least) .. Whole(g, most)
    BY DEF Between
  <2>2. action[1] \in Int /\ action[1] * Percent >= low /\ action[1] * Percent <= high
    BY <2>1, PercentsWithin
  <2>3. action[1] * Percent \in Int
    BY <1>3, <2>2, SMT
  <2>4. action[1] * Percent >= MinIntensity /\ action[1] * Percent <= MaxIntensity
    <3> DEFINE u == action[1] * Percent
    <3>1. u \in Int /\ u >= low /\ u <= high
      BY <2>2, <2>3
    <3> HIDE DEF u
    <3>2. u >= MinIntensity /\ u <= MaxIntensity
      BY <1>3, <3>1
    <3>3. QED
      BY <3>2 DEF u
  <2>5. QED
    BY <2>1, <2>4, MillisecondsWithin
<1>5. QED
  BY <1>2, <1>4 DEF Between

\* What the pages show is what is sent: both ends of the intervals may be drawn and
\* nothing outside the limits, whatever the limits, steps and fractions are; only a
\* fraction of a percent resolves to nothing.
THEOREM ResolveCorrect == Spec => []ProfilesResolve
<1>1. ASSUME NEW profile, InLimits(profile)
      PROVE  LET Ends(ends) == <<Whole(ends[1], profile.value[ends[1]]),
                                 Whole(ends[2], profile.value[ends[2]])>>
             IN  /\ \A action \in Resolve(profile) :
                      /\ action[1] * Percent >= MinIntensity /\ action[1] * Percent <= MaxIntensity
                      /\ action[2] >= Whole("duration", MinDuration)
                      /\ action[2] <= Whole("duration", MaxDuration)
                 /\ IF \E f \in Sliders(profile.mode) \cap Intensity : profile.value[f] % Percent # 0
                    THEN Resolve(profile) = {}
                    ELSE {Ends(Lowest(profile.mode)), Ends(Highest(profile.mode))}
                           \subseteq Resolve(profile)
  <2> DEFINE v == profile.value
             Ends(ends) == <<Whole(ends[1], v[ends[1]]), Whole(ends[2], v[ends[2]])>>
  <2>1. \A f \in Field : /\ v[f] \in Int /\ v[f] >= Low(f) /\ v[f] <= High(f)
                         /\ Portable(f, v[f]) <=> (f \in Intensity => v[f] % Percent = 0)
    BY <1>1, ShownPortable
  <2>2. CASE \E f \in Sliders(profile.mode) \cap Intensity : v[f] % Percent # 0
    <3>1. Resolve(profile) = {}
      BY <2>2 DEF Resolve, Portable
    <3>2. QED
      BY <2>2, <3>1
  <2>3. CASE ~\E f \in Sliders(profile.mode) \cap Intensity : v[f] % Percent # 0
    <3>1. CASE profile.mode = "fixed"
      <4>1. v["intensity"] % Percent = 0
        BY <2>3, <3>1 DEF Sliders, Intensity
      <4>2. Resolve(profile) = Between("intensity", v["intensity"], v["intensity"],
                                       "duration", v["duration"], v["duration"])
        BY <2>1, <3>1, <4>1, ResolveFixed, Fields DEF Intensity
      <4>3. /\ v["intensity"] \in Int /\ v["duration"] \in Int
            /\ v["intensity"] >= MinIntensity /\ v["intensity"] <= MaxIntensity
            /\ v["duration"] >= MinDuration /\ v["duration"] <= MaxDuration
        BY <2>1, Fields DEF Low, High, Intensity
      <4>4. "intensity" \in Intensity /\ "duration" \in Duration
            /\ v["intensity"] <= v["intensity"] /\ v["duration"] <= v["duration"]
        BY <4>3 DEF Intensity, Duration
      <4>5. Ends(Lowest(profile.mode)) = <<Whole("intensity", v["intensity"]), Whole("duration", v["duration"])>>
            /\ Ends(Highest(profile.mode)) = <<Whole("intensity", v["intensity"]), Whole("duration", v["duration"])>>
        BY <3>1 DEF Lowest, Highest
      <4> HIDE DEF Ends, v
      <4>6. /\ \A action \in Resolve(profile) :
                 /\ action[1] * Percent >= MinIntensity /\ action[1] * Percent <= MaxIntensity
                 /\ action[2] >= Whole("duration", MinDuration)
                 /\ action[2] <= Whole("duration", MaxDuration)
            /\ {Ends(Lowest(profile.mode)), Ends(Highest(profile.mode))} \subseteq Resolve(profile)
        BY <4>1, <4>2, <4>3, <4>4, <4>5, BetweenWithin
      <4>7. QED
        BY <2>3, <4>6 DEF Ends, v
    <3>2. CASE profile.mode # "fixed"
      <4>1. v["minimum_intensity"] % Percent = 0 /\ v["maximum_intensity"] % Percent = 0
        BY <2>3, <3>2, Fields DEF Sliders, Intensity
      <4>2. Resolve(profile) =
              Between("minimum_intensity", v["minimum_intensity"], v["maximum_intensity"],
                      "minimum_duration", v["minimum_duration"], v["maximum_duration"])
        BY <2>1, <3>2, <4>1, ResolveInterval, Fields DEF Intensity
      <4>3. /\ v["minimum_intensity"] \in Int /\ v["maximum_intensity"] \in Int
            /\ v["minimum_duration"] \in Int /\ v["maximum_duration"] \in Int
            /\ v["minimum_intensity"] >= MinIntensity /\ v["maximum_intensity"] <= MaxIntensity
            /\ v["minimum_duration"] >= MinDuration /\ v["maximum_duration"] <= MaxDuration
        BY <2>1, Fields DEF Low, High, Intensity
      <4>4. /\ "minimum_intensity" \in Intensity /\ "minimum_duration" \in Duration
            /\ v["minimum_intensity"] <= v["maximum_intensity"]
            /\ v["minimum_duration"] <= v["maximum_duration"]
        BY <1>1, Fields DEF Intensity, Duration, InLimits
      <4>5. /\ Ends(Lowest(profile.mode))
                 = <<Whole("minimum_intensity", v["minimum_intensity"]),
                     Whole("minimum_duration", v["minimum_duration"])>>
            /\ Ends(Highest(profile.mode))
                 = <<Whole("minimum_intensity", v["maximum_intensity"]),
                     Whole("minimum_duration", v["maximum_duration"])>>
        BY <3>2 DEF Lowest, Highest, Whole, Intensity
      <4> HIDE DEF Ends, v
      <4> DEFINE low == v["minimum_intensity"]
                 high == v["maximum_intensity"]
                 least == v["minimum_duration"]
                 most == v["maximum_duration"]
      <4> HIDE DEF low, high, least, most
      <4>8. /\ \A action \in Between("minimum_intensity", low, high, "minimum_duration", least, most) :
                 /\ action[1] * Percent >= MinIntensity /\ action[1] * Percent <= MaxIntensity
                 /\ action[2] >= Whole("duration", MinDuration)
                 /\ action[2] <= Whole("duration", MaxDuration)
            /\ {<<Whole("minimum_intensity", low), Whole("minimum_duration", least)>>,
                <<Whole("minimum_intensity", high), Whole("minimum_duration", most)>>}
                 \subseteq Between("minimum_intensity", low, high, "minimum_duration", least, most)
        <5>1. /\ low \in Int /\ high \in Int /\ least \in Int /\ most \in Int
              /\ low % Percent = 0 /\ high % Percent = 0 /\ low >= MinIntensity /\ high <= MaxIntensity
              /\ least >= MinDuration /\ most <= MaxDuration /\ low <= high /\ least <= most
          BY <4>1, <4>3, <4>4 DEF low, high, least, most
        <5>2. QED
          BY <4>4, <5>1, BetweenWithin, Zenon
      <4>6. /\ \A action \in Resolve(profile) :
                 /\ action[1] * Percent >= MinIntensity /\ action[1] * Percent <= MaxIntensity
                 /\ action[2] >= Whole("duration", MinDuration)
                 /\ action[2] <= Whole("duration", MaxDuration)
            /\ {Ends(Lowest(profile.mode)), Ends(Highest(profile.mode))} \subseteq Resolve(profile)
        BY <4>2, <4>5, <4>8, Zenon DEF low, high, least, most
      <4>7. QED
        BY <2>3, <4>6 DEF Ends, v
    <3>3. QED
      BY <3>1, <3>2
  <2>4. QED
    BY <2>2, <2>3
<1>2. IInv => ProfilesResolve
  <2>1. ASSUME IInv, NEW k \in Kind PROVE InLimits(app.trigger[k].profile)
    BY <2>1 DEF IInv, Settled
  <2>2. QED
    BY <1>1, <2>1 DEF ProfilesResolve
<1>3. QED
  BY <1>2, Invariance, PTL

\* A click changes one slot, of one trigger, whatever the game's catalogue is then.
THEOREM ClickCorrect == Spec => ClickTouchesOneSlot
<1> DEFINE Touches == \A k \in Kind, slot \in ShownSlots :
       Click(k, slot) =>
         \A other \in Kind, s \in ShownSlots :
           Accepts(app'.trigger[other].filter, s)
             <=> (Accepts(app.trigger[other].filter, s) # (other = k /\ s = slot))
<1>1. IInv => Touches
  <2> SUFFICES ASSUME IInv, NEW k \in Kind, NEW slot \in ShownSlots, Click(k, slot),
                      NEW other \in Kind, NEW s \in ShownSlots
               PROVE  Accepts(app'.trigger[other].filter, s)
                        <=> (Accepts(app.trigger[other].filter, s) # (other = k /\ s = slot))
    OBVIOUS
  <2> DEFINE filter == app.trigger[k].filter
             slots == IF filter.mode = "all" THEN ShownSlots \ {slot}
                      ELSE IF slot \in filter.slots THEN filter.slots \ {slot}
                      ELSE filter.slots \cup {slot}
             clicked == [mode |-> "selected", slots |-> slots]
  <2>1. app' = [app EXCEPT !.trigger[k].filter = clicked]
    BY DEF Click, Edit
  <2> HIDE DEF clicked
  <2>2. app \in State /\ app.trigger \in [Kind -> Trigger]
    BY DEF IInv, Settled, State
  <2>3. app'.trigger[other].filter = IF other = k THEN clicked ELSE app.trigger[other].filter
    BY <2>1, <2>2 DEF State, Trigger
  <2>4. Accepts(clicked, s) <=> s \in slots
    BY DEF Accepts, clicked
  <2>5. s \in slots <=> (Accepts(filter, s) # (s = slot))
    BY DEF Accepts
  <2>6. Accepts(app.trigger[other].filter, s) \in BOOLEAN /\ Accepts(filter, s) \in BOOLEAN
    BY DEF Accepts
  <2> HIDE DEF slots
  <2>7. CASE other = k
    BY <2>3, <2>4, <2>5, <2>7
  <2>8. CASE other # k
    BY <2>3, <2>6, <2>8
  <2>9. QED
    BY <2>7, <2>8
<1>2. IInv => [Touches]_vars
  BY <1>1
<1>3. QED
  BY <1>2, Invariance, PTL DEF ClickTouchesOneSlot
\* What a start makes of a document it does not refuse.
LEMMA RestoredDocument ==
  ASSUME NEW doc \in AnyDocument, doc \notin {Missing, Malformed}, Loaded(doc) # Refused
  PROVE  LET state == Restored(doc)
         IN  /\ state.provider = doc.provider /\ state.keys = doc.keys
             /\ state.log_path = doc.log_path
             /\ doc.target # None /\ doc.target.provider = doc.provider
                  => state.target = ToTargetId(doc.target)
             /\ \A k \in Kind :
                  /\ state.trigger[k].enabled = OldEnabled(doc, k)
                  /\ Resolve(OldProfile(doc, k)) # {}
                       => Resolve(state.trigger[k].profile) = Resolve(OldProfile(doc, k))
                  /\ \A slot \in Slot :
                       Accepts(state.trigger[k].filter, slot) <=> OldAccepts(doc, k, slot)
<1> DEFINE old == Migrated(doc)
           state == Restored(doc)
<1>1. state = Normalized(old) /\ Normalized(old) # Refused
  BY DEF Loaded, Restored
<1>2. old \in State
  BY DocumentState
<1>3. state = [provider |-> old.provider, keys |-> old.keys, target |-> MendedTarget(old),
               trigger |-> MendedTriggers(old), log_path |-> old.log_path]
  BY <1>1, <1>2, NormalizedState
<1> HIDE DEF state, old
<1>4. /\ state.provider = old.provider /\ state.keys = old.keys /\ state.target = MendedTarget(old)
      /\ state.trigger = MendedTriggers(old) /\ state.log_path = old.log_path
  BY <1>3
<1>5. /\ old.provider = doc.provider /\ old.keys = doc.keys /\ old.target = doc.target
      /\ old.log_path = doc.log_path
      /\ \A k \in Kind :
           /\ old.trigger[k].enabled = OldEnabled(doc, k)
           /\ old.trigger[k].profile = OldProfile(doc, k)
           /\ \A slot : Accepts(old.trigger[k].filter, slot) <=> OldAccepts(doc, k, slot)
  BY DocumentState DEF old
<1>6. doc.target # None /\ doc.target.provider = doc.provider
        => state.target = ToTargetId(doc.target)
  BY <1>4, <1>5 DEF MendedTarget
<1>7. ASSUME NEW k \in Kind
      PROVE  /\ state.trigger[k].enabled = OldEnabled(doc, k)
             /\ Resolve(OldProfile(doc, k)) # {}
                  => Resolve(state.trigger[k].profile) = Resolve(OldProfile(doc, k))
             /\ \A slot \in Slot :
                  Accepts(state.trigger[k].filter, slot) <=> OldAccepts(doc, k, slot)
  <2>1. old.trigger[k].profile \in Profile /\ old.trigger[k].filter \in Filter
    BY <1>2, StateTypes, TriggerParts
  <2>2. /\ state.trigger[k].enabled = old.trigger[k].enabled
        /\ state.trigger[k].profile = NormalizeProfile(old.trigger[k].profile)
        /\ state.trigger[k].filter = NormalizeFilter(old.trigger[k].filter)
    BY <1>4 DEF MendedTriggers
  <2>3. Resolve(old.trigger[k].profile) # {}
          => Resolve(state.trigger[k].profile) = Resolve(old.trigger[k].profile)
    BY <2>1, <2>2, NormalizedResolves
  <2>4. \A slot \in Slot :
          Accepts(state.trigger[k].filter, slot) <=> Accepts(old.trigger[k].filter, slot)
    BY <2>1, <2>2, PlainFilter
  <2>5. QED
    BY <1>5, <2>2, <2>3, <2>4
<1>8. QED
  BY <1>4, <1>5, <1>6, <1>7 DEF state

\* Settings of any schema mean on the pages what they meant in the file, and a file is
\* refused for its target only.
THEOREM MigrationCorrect == Spec => MigrationPreserves
<1> DEFINE Preserves == Start /\ file \in Document =>
       IF Loaded(file) = Refused
       THEN app' = [Default EXCEPT !.log_path = app'.log_path] /\ ToTargetId(file.target) = Refused
       ELSE /\ app'.provider = file.provider
            /\ app'.keys = file.keys
            /\ Trim[file.log_path] # NoPath => app'.log_path = Trim[file.log_path]
            /\ file.target # None /\ file.target.provider = file.provider
                 => app'.target = ToTargetId(file.target)
            /\ \A k \in Kind :
                 /\ app'.trigger[k].enabled = OldEnabled(file, k)
                 /\ Resolve(OldProfile(file, k)) # {}
                      => Resolve(app'.trigger[k].profile) = Resolve(OldProfile(file, k))
                 /\ \A slot \in Slot :
                      Accepts(app'.trigger[k].filter, slot) <=> OldAccepts(file, k, slot)
<1>1. IInv => Preserves
  <2> SUFFICES ASSUME IInv, Start, file \in Document
               PROVE  IF Loaded(file) = Refused
                      THEN app' = [Default EXCEPT !.log_path = app'.log_path]
                           /\ ToTargetId(file.target) = Refused
                      ELSE /\ app'.provider = file.provider
                           /\ app'.keys = file.keys
                           /\ Trim[file.log_path] # NoPath => app'.log_path = Trim[file.log_path]
                           /\ file.target # None /\ file.target.provider = file.provider
                                => app'.target = ToTargetId(file.target)
                           /\ \A k \in Kind :
                                /\ app'.trigger[k].enabled = OldEnabled(file, k)
                                /\ Resolve(OldProfile(file, k)) # {}
                                     => Resolve(app'.trigger[k].profile) = Resolve(OldProfile(file, k))
                                /\ \A slot \in Slot :
                                     Accepts(app'.trigger[k].filter, slot) <=> OldAccepts(file, k, slot)
    OBVIOUS
  <2>1. file \in AnyDocument /\ file \notin {Missing, Malformed}
    BY ValueAssumption DEF AnyDocument
  <2>2. Settled(Restored(file))
    BY StartShows
  <2>3. PICK path \in LogPath :
          /\ app' = [Restored(file) EXCEPT !.log_path = path]
          /\ Trim[Restored(file).log_path] # NoPath => path = Trim[Restored(file).log_path]
    BY StartShows
  <2>4. /\ app'.provider = Restored(file).provider /\ app'.keys = Restored(file).keys
        /\ app'.target = Restored(file).target /\ app'.trigger = Restored(file).trigger
        /\ app'.log_path = path
    BY <2>2, <2>3, LogPathSettled
  <2>5. CASE Loaded(file) = Refused
    <3>1. Restored(file) = Default
      BY <2>5 DEF Restored
    <3>2. app' = [Default EXCEPT !.log_path = app'.log_path]
      BY <2>3, <2>4, <3>1
    <3>3. Normalized(Migrated(file)) = Refused
      BY <2>1, <2>5 DEF Loaded
    <3>4. ToTargetId(file.target) = Refused
      BY <2>1, <3>3, NormalizedState, DocumentState
    <3>5. QED
      BY <2>5, <3>2, <3>4
  <2>6. CASE Loaded(file) # Refused
    BY <2>1, <2>3, <2>4, <2>6, RestoredDocument
  <2>7. QED
    BY <2>5, <2>6
<1>2. IInv => [Preserves]_vars
  BY <1>1
<1>3. QED
  BY <1>2, Invariance, PTL DEF MigrationPreserves
================================================================================
