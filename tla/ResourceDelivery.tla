------------------------- MODULE ResourceDelivery -------------------------
(***************************************************************************)
(* The life of managed resources, with what they ask for and what of it    *)
(* the device holds: a status Success is that of a push that brought the   *)
(* data, an entry goes away once its data has, and the data of a resource  *)
(* changes on the device in no other way.  How the tree that is pushed     *)
(* comes about is left out; ConfigSync implements this.                    *)
(***************************************************************************)
EXTENDS ResourceLifecycle

CONSTANTS
  OwnOf,  \* the leaves a resource carries
  Value,  \* what a provider can ask for
  NoVal   \* nothing asked for; no such leaf

VARIABLES
  up,     \* the driver takes requests
  asked,  \* per resource, the value it asks for
  held    \* per resource, its leaves on the device

deliveryVars == <<vars, up, asked, held>>

-----------------------------------------------------------------------------

AsAsked(r) == [l \in OwnOf[r] |-> asked[r]]

Nothing(r) == [l \in OwnOf[r] |-> NoVal]

HeldOK ==
  /\ DOMAIN held = Resource
  /\ \A r \in Resource : held[r] \in [OwnOf[r] -> Value \union {NoVal}]

DeliveryInit ==
  /\ Init
  /\ up = FALSE
  /\ asked = [r \in Resource |-> NoVal]
  /\ HeldOK

-----------------------------------------------------------------------------

Start == up' = TRUE /\ UNCHANGED <<vars, asked, held>>

AskFor(r, v) ==
  /\ up
  /\ Create(r)
  /\ asked' = [asked EXCEPT ![r] = v]
  /\ UNCHANGED <<up, held>>

\* The loop and the handlers, with the data left alone.
Proceed ==
  /\ up
  /\ \/ \E r \in Resource : Delete(r) \/ TakeForDelete(r) \/ TakeForUpdate(r)
     \/ GiveUpDeletes
  /\ UNCHANGED <<up, asked, held>>

\* All that is taken is deleted at once, and what lies below it goes as well.
DeleteOnDevice ==
  /\ up
  /\ TakenFor("delete") # {}
  /\ TakenFor("update") = {}
  /\ HeldOK'
  /\ \A r \in TakenFor("delete") : held'[r] = Nothing(r)
  /\ \A r \in Resource : \A l \in OwnOf[r] :
       held'[r][l] \in {held[r][l], NoVal}
  /\ UNCHANGED <<vars, up, asked>>

\* The push has the data of all that is taken, among which is everything that
\* was successful before; of the others it has what the copy happens to hold.
UpdateOnDevice ==
  /\ up
  /\ TakenFor("update") # {}
  /\ TakenFor("delete") = {}
  /\ \A r \in Resource : status[r] = "Success" => turn[r] = "update"
  /\ HeldOK'
  /\ \A r \in TakenFor("update") : held'[r] = AsAsked(r)
  /\ UNCHANGED <<vars, up, asked>>

Gone(r) ==
  /\ up
  /\ Remove(r)
  /\ held[r] = Nothing(r)
  /\ asked' = [asked EXCEPT ![r] = NoVal]
  /\ UNCHANGED <<up, held>>

Reported(r) ==
  /\ up
  /\ Report(r)
  /\ status'[r] = "Success" => held[r] = AsAsked(r)
  /\ UNCHANGED <<up, asked, held>>

\* The device stays as it is.
Crash ==
  /\ up' = FALSE
  /\ Restart
  /\ asked' = [r \in Resource |-> NoVal]
  /\ UNCHANGED held

DeliveryNext ==
  \/ \E r \in Resource :
       \/ \E v \in Value : AskFor(r, v)
       \/ Gone(r)
       \/ Reported(r)
  \/ Start
  \/ Proceed
  \/ DeleteOnDevice
  \/ UpdateOnDevice
  \/ Crash

DeliverySpec == DeliveryInit /\ [][DeliveryNext]_deliveryVars

=============================================================================
