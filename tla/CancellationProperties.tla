------------------------ MODULE CancellationProperties ------------------------
(***************************************************************************)
(* What Cancellation guarantees.                                           *)
(***************************************************************************)
EXTENDS Cancellation

Rows == [live : BOOLEAN, by : {"none", "stripe", "lava", "usdt", "gift"},
         psid : Contracts \cup {NoContract}, status : {"other", "cancelled"},
         flag : BOOLEAN, state : {"none", "manual", "confirmed"}, resolved : BOOLEAN]

\* Besides the types: no two rows give access, or claim the same contract.
CancelTypeOK ==
  /\ contract \in [Contracts -> {"none", "charging", "stopped"}]
  /\ subs \in [RowIds -> Rows]
  /\ press \in [Presses -> [row : RowIds \cup {0}, psid : Contracts \cup {NoContract}, again : BOOLEAN, stopped : BOOLEAN]]
  /\ Cardinality(LiveRows) <= 1
  /\ \A i, j \in RowIds : subs[i].psid # NoContract /\ subs[i].psid = subs[j].psid => i = j

\* "cancel_at_period_end means the provider will not charge again": whatever
\* events come late and whatever is bought meanwhile, unless the row changed
\* its contract between the question to the provider and the commit.
FlagIsProof ==
  /\ CancelTypeOK
  /\ \A i \in RowIds \ switched :
       subs[i].psid # NoContract /\ (subs[i].flag \/ subs[i].status = "cancelled")
         => contract[subs[i].psid] = "stopped"

\* A contract the provider refused to stop and still charges is in the queue,
\* until an administrator says otherwise or the row is on another contract.
RefusalStaysOpen ==
  \A i \in RowIds :
    refused[i] # NoContract /\ contract[refused[i]] = "charging"
      => i \in Queue \/ subs[i].resolved \/ subs[i].psid \notin {refused[i], NoContract}

\* "Only said when the provider actually answered yes": the bot says of no
\* contract that still charges the card that there will be no more charges,
\* switched rows aside.
ToldOff ==
  \A i \in RowIds \ switched : SaysOff(i) /\ subs[i].psid # NoContract => contract[subs[i].psid] # "charging"
=============================================================================
