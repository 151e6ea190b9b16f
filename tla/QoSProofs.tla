------------------------------ MODULE QoSProofs ------------------------------
(***************************************************************************)
(* Classes of service for every set of names documents may use.  The facts *)
(* about the two tables are established once; the rest of the argument     *)
(* uses only that tiers order the classes and multipliers fall along them. *)
(***************************************************************************)
EXTENDS QoS, TLAPS

\* QOS_PARAMETERS: a class is its tier, and the better class costs more.
LEMMA Tables ==
    \A c, d \in Classes :
        /\ Tier[c] \in Int /\ Multiplier[c] \in Int
        /\ Tier[c] = Tier[d] => c = d
        /\ Tier[c] < Tier[d] <=> Multiplier[c] > Multiplier[d]
BY DEF Classes, Tier, Multiplier

\* Of any supported classes one has the highest priority.
LEMMA HighestIsHighest ==
    ASSUME NEW S \in SUBSET Classes, S # {}
    PROVE  Highest(S) \in S /\ \A d \in S : Tier[Highest(S)] <= Tier[d]
<1>1. \E c \in S : \A d \in S : Tier[c] <= Tier[d]
  <2>1. CASE "real-time" \in S
    BY <2>1 DEF Classes, Tier
  <2>2. CASE "real-time" \notin S /\ "interactive" \in S
    BY <2>2 DEF Classes, Tier
  <2>3. CASE S \subseteq {"standard", "batch", "background"} /\ "standard" \in S
    BY <2>3 DEF Classes, Tier
  <2>4. CASE S \subseteq {"batch", "background"}
    BY <2>4 DEF Classes, Tier
  <2> QED BY <2>1, <2>2, <2>3, <2>4 DEF Classes
<1> QED BY <1>1 DEF Highest

\* What select_qos returns: a supported class, the desired one if possible, else
\* one with no supported class between it and the desired one, if it is lower.
LEMMA SelectReturns ==
    ASSUME NEW class \in Classes, NEW S \in SUBSET Classes, S # {}
    PROVE  /\ Select(class, S) \in S
           /\ class \in S => Select(class, S) = class
           /\ \A d \in S : ~(Tier[class] <= Tier[d] /\ Tier[d] < Tier[Select(class, S)])
<1>1. CASE class \in S
  BY <1>1, Tables DEF Select
<1>2. CASE class \notin S /\ Lower(class, S) # {}
  <2>1. Lower(class, S) \in SUBSET Classes /\ Lower(class, S) \subseteq S
    BY DEF Lower
  <2>2. /\ Highest(Lower(class, S)) \in Lower(class, S)
        /\ \A d \in Lower(class, S) : Tier[Highest(Lower(class, S))] <= Tier[d]
    BY <1>2, <2>1, HighestIsHighest
  <2>3. Select(class, S) = Highest(Lower(class, S))
    BY <1>2 DEF Select
  <2>4. ASSUME NEW d \in S, Tier[class] <= Tier[d] PROVE Tier[Select(class, S)] <= Tier[d]
    <3>1. d \in Lower(class, S)
      BY <1>2, <2>4, Tables DEF Lower
    <3> QED BY <2>2, <2>3, <3>1
  <2> QED BY <1>2, <2>1, <2>2, <2>3, <2>4, Tables
<1>3. CASE class \notin S /\ Lower(class, S) = {}
  <2>1. \A d \in S : Tier[d] < Tier[class]
    BY <1>3, Tables DEF Lower
  <2> QED BY <1>3, <2>1, HighestIsHighest, Tables DEF Select
<1> QED BY <1>1, <1>2, <1>3

-----------------------------------------------------------------------------

\* Between the two selections the choice is a class the advertised list led to,
\* and so is the schedule for the list it was made from.
Selected ==
    /\ wanted \in Classes => Selectable(advertised) /\ desired \in Classes
                               /\ wanted = Select(desired, advertised)
    /\ scheduled \in Classes => Selectable(served) /\ scheduled = Select(wanted, served)

Inv == TypeOK /\ Selected

LEMMA InvInit == Init => Inv
BY NoClassAssumption DEF Init, Inv, TypeOK, Selected

LEMMA InvStep == Inv /\ [Next]_vars => Inv'
<1> SUFFICES ASSUME Inv, [Next]_vars PROVE Inv'
  OBVIOUS
<1> USE NoClassAssumption DEF Inv, TypeOK, Selected
<1>1. ASSUME NEW names \in SUBSET Names, Redeploy(names) PROVE Inv'
  BY <1>1 DEF Redeploy
<1>2. CASE Fetch
  BY <1>2 DEF Fetch
<1>3. ASSUME NEW class \in Classes, Choose(class) PROVE Inv'
  <2>1. CASE Selectable(advertised)
    <3>1. Select(class, advertised) \in Classes
      BY <2>1, SelectReturns DEF Selectable
    <3> QED BY <1>3, <2>1, <3>1 DEF Choose
  <2>2. CASE ~Selectable(advertised)
    <3>1. "raised" \notin Classes
      BY DEF Classes
    <3> QED BY <1>3, <2>2, <3>1 DEF Choose
  <2> QED BY <2>1, <2>2
<1>4. CASE Schedule
  <2>1. Selectable(supported) /\ wanted \in Classes
    BY <1>4 DEF Schedule
  <2>2. Select(wanted, supported) \in Classes
    BY <2>1, SelectReturns DEF Selectable
  <2> QED BY <1>4, <2>1, <2>2 DEF Schedule
<1>5. CASE UNCHANGED vars
  BY <1>5 DEF vars
<1> QED BY <1>1, <1>2, <1>3, <1>4, <1>5 DEF Next

\* The variables keep their types, for any names.
THEOREM TypeCorrect == Spec => []TypeOK
<1>1. Inv => TypeOK
  BY DEF Inv
<1> QED BY <1>1, InvInit, InvStep, PTL DEF Spec

\* Selecting twice, from lists published at different times, goes no further
\* down than the first class both lists had.
THEOREM DowngradeNeeded == Spec => []NoNeedlessDowngrade
<1>1. Inv => NoNeedlessDowngrade
  <2> SUFFICES ASSUME Inv, scheduled \in Classes, NEW c \in Classes,
                      Tier[desired] <= Tier[c], Tier[c] < Tier[scheduled],
                      c \in advertised, c \in served
               PROVE  FALSE
    BY DEF NoNeedlessDowngrade
  <2>1. /\ wanted \in Classes /\ desired \in Classes
        /\ Selectable(advertised) /\ wanted = Select(desired, advertised)
        /\ Selectable(served) /\ scheduled = Select(wanted, served)
    BY NoClassAssumption DEF Inv, TypeOK, Selected
  <2>2. Tier[wanted] <= Tier[c]
    BY <2>1, SelectReturns, Tables DEF Selectable
  <2>3. ~(Tier[wanted] <= Tier[c] /\ Tier[c] < Tier[scheduled])
    BY <2>1, SelectReturns DEF Selectable
  <2> QED BY <2>2, <2>3
<1> QED BY <1>1, InvInit, InvStep, PTL DEF Spec

\* A choice the provider still supports stands, and selecting again is harmless.
THEOREM ChoiceStable == Spec => []ChoiceIsStable
<1>1. Inv => ChoiceIsStable
  <2> SUFFICES ASSUME Inv, scheduled \in Classes
               PROVE  /\ wanted \in served => scheduled = wanted
                      /\ Select(scheduled, served) = scheduled
                      /\ served = advertised => scheduled = Select(desired, advertised)
    BY DEF ChoiceIsStable
  <2>1. /\ wanted \in Classes /\ desired \in Classes
        /\ Selectable(advertised) /\ wanted = Select(desired, advertised)
        /\ Selectable(served) /\ scheduled = Select(wanted, served)
    BY NoClassAssumption DEF Inv, TypeOK, Selected
  <2> QED BY <2>1, SelectReturns DEF Selectable
<1> QED BY <1>1, InvInit, InvStep, PTL DEF Spec

=============================================================================
