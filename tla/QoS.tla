-------------------------------- MODULE QoS ---------------------------------
(***************************************************************************)
(* Classes of service between a client, which chooses among the classes    *)
(* the provider's document lists, and a provider, which schedules the      *)
(* request under one of the classes it supports by then.  A name becomes a *)
(* class by parse_qos_class.  Both sides call select_qos, as the document  *)
(* on classes of service has it; the package itself has no caller.         *)
(***************************************************************************)
EXTENDS Integers

CONSTANTS
    Names,     \* names of classes that documents use
    NoClass

Classes == {"real-time", "interactive", "standard", "batch", "background"}

ASSUME NoClassAssumption == NoClass \notin Classes

\* QOS_PARAMETERS: tier 0 has the highest priority; billing_multiplier in tenths.
Tier ==
    [class \in Classes |->
        CASE class = "real-time" -> 0 [] class = "interactive" -> 1
          [] class = "standard" -> 2 [] class = "batch" -> 3
          [] class = "background" -> 4]

Multiplier ==
    [class \in Classes |->
        CASE class = "real-time" -> 20 [] class = "interactive" -> 15
          [] class = "standard" -> 10 [] class = "batch" -> 5
          [] class = "background" -> 3]

Highest(classes) == CHOOSE c \in classes : \A d \in classes : Tier[c] <= Tier[d]

\* The classes a request for a class may be downgraded to.
Lower(class, supported) == {c \in supported : Tier[c] > Tier[class]}

\* Faulty variant: the last of lower_priority is taken instead of the first.
SelectLowest(class, supported) ==
    IF class \in supported THEN class
    ELSE IF Lower(class, supported) # {}
    THEN CHOOSE c \in Lower(class, supported) :
             \A d \in Lower(class, supported) : Tier[c] >= Tier[d]
    ELSE Highest(supported)

\* select_qos, for a list that is not empty.
Select(class, supported) ==
    IF class \in supported THEN class
    ELSE IF Lower(class, supported) # {} THEN Highest(Lower(class, supported))
    ELSE Highest(supported)

\* Every name parses, and there is one: select_qos does not raise.
Selectable(names) == names # {} /\ names \subseteq Classes

-----------------------------------------------------------------------------

VARIABLES
    supported,  \* names of the classes the provider supports now
    advertised, \* those in the document the client has fetched
    desired,    \* the class the client would like for its request
    wanted,     \* the class it selected from advertised, "raised", or NoClass
    scheduled,  \* the class the request is scheduled and billed under, or NoClass
    served      \* history: supported when the request was scheduled

vars == <<supported, advertised, desired, wanted, scheduled, served>>

Init ==
    /\ supported \in SUBSET Names
    /\ advertised = supported
    /\ desired = NoClass /\ wanted = NoClass /\ scheduled = NoClass
    /\ served = {}

Redeploy(names) ==
    /\ supported' = names
    /\ UNCHANGED <<advertised, desired, wanted, scheduled, served>>

\* Faulty variant: the last answer outlives the document it was based on.
FetchKeepingSchedule ==
    /\ advertised' = supported
    /\ wanted' = NoClass
    /\ UNCHANGED <<supported, desired, scheduled, served>>

\* fetch: a document without the list is read as one with an empty list.  What
\* was asked for under the previous one is history.
Fetch ==
    /\ advertised' = supported
    /\ wanted' = NoClass /\ scheduled' = NoClass
    /\ UNCHANGED <<supported, desired, served>>

\* Faulty variant: the class asked for in an earlier request is kept.
ChooseOnce(class) ==
    /\ desired' = class
    /\ wanted' = IF wanted \in Classes THEN wanted
                 ELSE IF Selectable(advertised) THEN Select(class, advertised) ELSE "raised"
    /\ scheduled' = NoClass
    /\ UNCHANGED <<supported, advertised, served>>

\* The client parses the advertised classes and selects; both may raise.
Choose(class) ==
    /\ desired' = class
    /\ wanted' = IF Selectable(advertised) THEN Select(class, advertised) ELSE "raised"
    /\ scheduled' = NoClass
    /\ UNCHANGED <<supported, advertised, served>>

\* The provider selects for the request it received; a list it cannot select
\* from raises, and nothing is scheduled.
Schedule ==
    /\ wanted \in Classes /\ scheduled = NoClass
    /\ Selectable(supported)
    /\ scheduled' = Select(wanted, supported)
    /\ served' = supported
    /\ UNCHANGED <<supported, advertised, desired, wanted>>

Next ==
    \/ \E names \in SUBSET Names : Redeploy(names)
    \/ Fetch
    \/ \E class \in Classes : Choose(class)
    \/ Schedule

Spec == Init /\ [][Next]_vars

-----------------------------------------------------------------------------
(* Properties. *)

\* Every variable has its type; what was scheduled was chosen before.
TypeOK ==
    /\ supported \subseteq Names /\ advertised \subseteq Names /\ served \subseteq Names
    /\ desired \in Classes \union {NoClass}
    /\ wanted \in Classes \union {NoClass, "raised"}
    /\ scheduled \in Classes \union {NoClass}
    /\ scheduled # NoClass => wanted \in Classes

\* Of the two selections, made at different times over lists that may have
\* nothing in common, the result is slower than the client asked for only as far
\* as it must be: each class in between, and the one desired, was missing from
\* one of the lists.
NoNeedlessDowngrade ==
    scheduled \in Classes =>
        \A c \in Classes : Tier[desired] <= Tier[c] /\ Tier[c] < Tier[scheduled] =>
            c \notin advertised \/ c \notin served

\* The client's choice stands when the provider still supports what it
\* advertised, whatever else it has added or withdrawn, and selecting again
\* after a lost answer does not move the request to another class.
ChoiceIsStable ==
    scheduled \in Classes =>
        /\ wanted \in served => scheduled = wanted
        /\ Select(scheduled, served) = scheduled
        /\ served = advertised => scheduled = Select(desired, advertised)

-----------------------------------------------------------------------------
(* What a document says, and the code does not do. *)

\* irp-qos.md, Request Flow and Downgrade: the class scheduled differs from the
\* one requested only by downgrade, never by upgrade, because the client did not
\* consent to the higher rate.
NeverUpgraded ==
    scheduled \in Classes =>
        Tier[scheduled] >= Tier[wanted] /\ Multiplier[scheduled] <= Multiplier[wanted]

=============================================================================
