------------------------------ MODULE PiShockProof ------------------------------
(***************************************************************************)
(* The PiShock client operates no shocker twice, checks a group before it   *)
(* posts, says ok of what was done only, and lists every share once, for    *)
(* any listings, groups and commands.                                       *)
(***************************************************************************)
EXTENDS PiShockClient, WellFoundedInduction, TLAPS

--------------------------------------------------------------------------------
(* The inductive invariant. *)

\* The loop over the shares has put those before the next one into their groups.
MergeInv ==
  /\ pc # "merging" => next = 1
  /\ pc = "listing" => Complete(groups, {})
  /\ pc = "merging" => /\ next <= Len(shares) + 1
                       /\ Complete(groups, {shares[i] : i \in 1 .. next - 1})

\* A shocker is selected once and posted to once in a call, and what was carried out is no
\* longer with the server.
PostInv ==
  /\ pc # "waiting" => answer = None
  /\ inFlight \subseteq posted
  /\ \A r \in posted : r.call <= call
  /\ \A r, q \in posted : r.call = q.call /\ r.share.id = q.share.id => r = q
  /\ \A s, t \in selected : s.id = t.id => s = t
  /\ \A s \in selected, r \in posted : r.call = call => r.share.id # s.id
  /\ \A n \in Call, id \in ShockerId : executed[n][id] # 0 =>
       \E r \in posted \ inFlight : r.call = n /\ r.share.id = id

\* What was posted before the request that is waiting was carried out, and every shocker
\* of the group that is available was posted to or is still to be.
Served(requests) == \A r \in requests : r.call = call => executed[call][r.share.id] = 1

WaitInv ==
  pc \in {"posting", "waiting"} =>
    /\ call \in Call
    /\ result[call] = "none"
    /\ pc = "posting" => Served(posted)
    /\ pc = "waiting" /\ answer = "204" => Served(posted)
    /\ pc = "waiting" /\ answer = None =>
         \E w \in posted : w.call = call /\ Served(posted \ {w})
    /\ pc = "waiting" /\ answer # None => \A r \in inFlight : r.call # call
    /\ \A share \in target[call] : Available(share) =>
         \/ \E s \in selected : s.id = share.id
         \/ \E r \in posted : r.call = call /\ r.share.id = share.id

\* What CheckedBeforePost asks of a share.
Checked(share) ==
  /\ ValidParameters(command)
  /\ Available(share) /\ Permits(share, command)
  /\ \A member \in target[call] : Available(member) =>
       \E other \in target[call] :
         other.id = member.id /\ Available(other) /\ Permits(other, command)

SelectedChecked == \A share \in selected : target[call] # {} => Checked(share)

IInv ==
  /\ TypeOK
  /\ MergeInv
  /\ PostInv
  /\ WaitInv
  /\ SelectedChecked
  /\ ListingComplete
  /\ AtMostOnce
  /\ OkIsEveryShocker
  /\ CheckedBeforePost

--------------------------------------------------------------------------------
(* The groups of a listing. *)

LEMMA AddShareParts ==
  ASSUME NEW shockers \in Seq(Share), NEW share \in Share, NEW members \in SUBSET Share,
         IsInjective(shockers), Range(shockers) = members,
         \A member \in members : member.client_id = share.client_id
  PROVE  /\ AddShare(shockers, share) \in Seq(Share)
         /\ IsInjective(AddShare(shockers, share))
         /\ Range(AddShare(shockers, share)) = members \cup {share}
<1>1. /\ Len(shockers) \in Nat /\ DOMAIN shockers = 1 .. Len(shockers)
      /\ \A i \in 1 .. Len(shockers) : shockers[i] \in Share /\ shockers[i] \in members
      /\ \A member \in members : \E i \in 1 .. Len(shockers) : shockers[i] = member
  BY DEF Range
<1>2. CASE \E i \in 1 .. Len(shockers) : shockers[i].id = share.id /\ shockers[i].code = share.code
  <2>1. PICK i \in 1 .. Len(shockers) : shockers[i].id = share.id /\ shockers[i].code = share.code
    BY <1>2
  <2>2. shockers[i] = share
    BY <1>1, <2>1, ListAssumption
  <2>3. QED
    BY <1>1, <1>2, <2>2 DEF AddShare
<1>3. CASE ~ \E i \in 1 .. Len(shockers) : shockers[i].id = share.id /\ shockers[i].code = share.code
  <2> DEFINE longer == Append(shockers, share)
  <2>1. AddShare(shockers, share) = longer
    BY <1>3 DEF AddShare
  <2>2. /\ longer \in Seq(Share) /\ Len(longer) = Len(shockers) + 1
        /\ DOMAIN longer = 1 .. Len(shockers) + 1
        /\ longer[Len(shockers) + 1] = share
        /\ \A i \in 1 .. Len(shockers) : longer[i] = shockers[i]
    OBVIOUS
  <2> HIDE DEF longer
  <2>3. \A i \in 1 .. Len(shockers) + 1 : i \in 1 .. Len(shockers) \/ i = Len(shockers) + 1
    BY <1>1
  <2>4. 1 .. Len(shockers) \subseteq 1 .. Len(shockers) + 1
        /\ Len(shockers) + 1 \in 1 .. Len(shockers) + 1
    BY <1>1
  <2>5. \A i \in 1 .. Len(shockers) : longer[i] # share
    BY <1>3, <2>2
  <2>6. IsInjective(longer)
    <3>1. ASSUME NEW i \in 1 .. Len(shockers) + 1, NEW k \in 1 .. Len(shockers) + 1,
                 longer[i] = longer[k]
          PROVE  i = k
      <4>1. CASE i \in 1 .. Len(shockers) /\ k \in 1 .. Len(shockers)
        BY <1>1, <2>2, <3>1, <4>1 DEF IsInjective
      <4>2. QED
        BY <2>2, <2>3, <2>5, <3>1, <4>1
    <3>2. QED
      BY <2>2, <3>1 DEF IsInjective
  <2>7. Range(longer) = members \cup {share}
    <3>1. \A x \in Range(longer) : x \in members \cup {share}
      BY <1>1, <2>2, <2>3 DEF Range
    <3>2. \A x \in members : x \in Range(longer)
      BY <1>1, <2>2, <2>4 DEF Range
    <3>3. share \in Range(longer)
      BY <2>2, <2>4 DEF Range
    <3>4. QED
      BY <3>1, <3>2, <3>3
  <2>8. QED
    BY <2>1, <2>2, <2>6, <2>7
<1>4. QED
  BY <1>2, <1>3

LEMMA NewGroups ==
  ASSUME NEW hubs \in HubList
  PROVE  LET new == [i \in 1 .. Len(hubs) |-> NewGroup(hubs[i])]
         IN  new \in Seq(Group) /\ Complete(new, {})
<1> DEFINE new == [i \in 1 .. Len(hubs) |-> NewGroup(hubs[i])]
<1>1. hubs \in Seq(Nat) /\ IsInjective(hubs)
  BY ListAssumption
<1>2. Len(hubs) \in Nat /\ DOMAIN hubs = 1 .. Len(hubs) /\ \A i \in 1 .. Len(hubs) : hubs[i] \in Nat
  BY <1>1
<1>3. <<>> \in Seq(Share) /\ Range(<<>>) = {} /\ IsInjective(<<>>)
  BY DEF Range, IsInjective
<1>4. \A n \in Nat : /\ NewGroup(n) \in Group /\ NewGroup(n).client_id = n
                     /\ NewGroup(n).shockers = <<>>
  BY <1>3 DEF NewGroup, Group
<1>5. new \in Seq(Group) /\ Len(new) = Len(hubs) /\ \A i \in 1 .. Len(hubs) : new[i] = NewGroup(hubs[i])
  BY <1>2, <1>4
<1> HIDE DEF new
<1>6. \A i, k \in 1 .. Len(hubs) : hubs[i] = hubs[k] => i = k
  BY <1>1, <1>2 DEF IsInjective
<1>7. \A i, k \in 1 .. Len(new) : new[i].client_id = new[k].client_id => i = k
  BY <1>2, <1>4, <1>5, <1>6
<1>8. \A i \in 1 .. Len(new) : Range(new[i].shockers) = {} /\ IsInjective(new[i].shockers)
  BY <1>2, <1>3, <1>4, <1>5
<1>9. Complete(new, {})
  BY <1>7, <1>8 DEF Complete
<1>10. QED
  BY <1>5, <1>9 DEF new

LEMMA MergeParts ==
  ASSUME groups \in Seq(Group), NEW share \in Share, NEW held \in SUBSET Share,
         Complete(groups, held)
  PROVE  Merge(share) \in Seq(Group) /\ Complete(Merge(share), held \cup {share})
<1> DEFINE now == held \cup {share}
<1>1. /\ Len(groups) \in Nat
      /\ \A i \in 1 .. Len(groups) : /\ groups[i] \in Group /\ groups[i].client_id \in Nat
                                     /\ groups[i].shockers \in Seq(Share)
  <2>1. Len(groups) \in Nat /\ \A i \in 1 .. Len(groups) : groups[i] \in Group
    OBVIOUS
  <2>2. \A group \in Group : group.client_id \in Nat /\ group.shockers \in Seq(Share)
    BY DEF Group
  <2>3. QED
    BY <2>1, <2>2
<1>2. /\ \A i, k \in 1 .. Len(groups) : groups[i].client_id = groups[k].client_id => i = k
      /\ \A i \in 1 .. Len(groups) :
           /\ Range(groups[i].shockers) = {s \in held : s.client_id = groups[i].client_id}
           /\ IsInjective(groups[i].shockers)
      /\ \A s \in held : \E i \in 1 .. Len(groups) : groups[i].client_id = s.client_id
  BY DEF Complete
<1>3. CASE \E i \in 1 .. Len(groups) : groups[i].client_id = share.client_id
  <2>1. PICK at \in 1 .. Len(groups) : groups[at].client_id = share.client_id
    BY <1>3
  <2> DEFINE kept == groups[at].shockers
             more == AddShare(kept, share)
             members == {s \in held : s.client_id = share.client_id}
  <2>2. more \in Seq(Share) /\ IsInjective(more) /\ Range(more) = members \cup {share}
    <3>1. /\ kept \in Seq(Share) /\ IsInjective(kept) /\ Range(kept) = members
          /\ members \in SUBSET Share /\ \A member \in members : member.client_id = share.client_id
      BY <1>1, <1>2, <2>1
    <3> HIDE DEF kept, members
    <3>2. QED
      BY <3>1, AddShareParts
  <2>3. members \cup {share} = {s \in now : s.client_id = share.client_id}
    OBVIOUS
  <2> DEFINE group == [client_id |-> share.client_id, shockers |-> more]
             merged == [i \in 1 .. Len(groups) |-> IF i = at THEN group ELSE groups[i]]
  <2>4. Merge(share) = merged
    <3>1. Merge(share) = [i \in 1 .. Len(groups) |->
                            IF groups[i].client_id = share.client_id
                            THEN [client_id |-> share.client_id,
                                  shockers |-> AddShare(groups[i].shockers, share)]
                            ELSE groups[i]]
      BY <1>3 DEF Merge
    <3>2. \A i \in 1 .. Len(groups) : groups[i].client_id = share.client_id <=> i = at
      BY <1>2, <2>1
    <3>3. QED
      BY <3>1, <3>2
  <2> HIDE DEF more, members
  <2>5. share.client_id \in Nat /\ group \in Group
    BY <1>1, <2>1, <2>2 DEF Group
  <2>6. /\ group.client_id = share.client_id /\ group.shockers = more
    OBVIOUS
  <2> HIDE DEF group
  <2>7. /\ merged \in Seq(Group) /\ Len(merged) = Len(groups) /\ merged[at] = group
        /\ \A i \in 1 .. Len(groups) : i # at => merged[i] = groups[i]
    BY <1>1, <2>1, <2>5
  <2> HIDE DEF merged
  <2>8. \A i \in 1 .. Len(groups) : merged[i].client_id = groups[i].client_id
    BY <2>1, <2>6, <2>7
  <2>9. ASSUME NEW i \in 1 .. Len(merged)
        PROVE  /\ Range(merged[i].shockers) = {s \in now : s.client_id = merged[i].client_id}
               /\ IsInjective(merged[i].shockers)
    <3>1. CASE i = at
      BY <2>2, <2>3, <2>6, <2>7, <3>1
    <3>2. CASE i # at
      <4>1. groups[i].client_id # share.client_id
        BY <1>2, <2>1, <2>7, <3>2
      <4>2. {s \in now : s.client_id = groups[i].client_id}
            = {s \in held : s.client_id = groups[i].client_id}
        BY <4>1
      <4>3. QED
        BY <1>2, <2>7, <3>2, <4>2
    <3>3. QED
      BY <3>1, <3>2
  <2>10. \A i, k \in 1 .. Len(merged) : merged[i].client_id = merged[k].client_id => i = k
    BY <1>2, <2>7, <2>8
  <2>11. \A s \in now : \E i \in 1 .. Len(merged) : merged[i].client_id = s.client_id
    BY <1>2, <2>1, <2>7, <2>8
  <2>12. QED
    BY <2>4, <2>7, <2>9, <2>10, <2>11 DEF Complete
<1>4. CASE ~ \E i \in 1 .. Len(groups) : groups[i].client_id = share.client_id
  <2> DEFINE group == [client_id |-> share.client_id, shockers |-> <<share>>]
             merged == Append(groups, group)
             n == Len(groups) + 1
  <2>1. Merge(share) = merged
    BY <1>4 DEF Merge
  <2>2. group \in Group /\ group.client_id = share.client_id /\ group.shockers = <<share>>
    BY ListAssumption DEF Group
  <2> HIDE DEF group
  <2>3. /\ merged \in Seq(Group) /\ Len(merged) = n /\ merged[n] = group
        /\ \A i \in 1 .. Len(groups) : merged[i] = groups[i]
    BY <2>2
  <2>4. \A i \in 1 .. n : i \in 1 .. Len(groups) \/ i = n
    BY <1>1
  <2>5. 1 .. Len(groups) \subseteq 1 .. n /\ n \in 1 .. n
    BY <1>1
  <2> HIDE DEF merged, n
  <2>6. {s \in now : s.client_id = share.client_id} = {share}
    BY <1>2, <1>4
  <2>7. Range(<<share>>) = {share} /\ IsInjective(<<share>>)
    BY DEF Range, IsInjective
  <2>8. ASSUME NEW i \in 1 .. Len(merged)
        PROVE  /\ Range(merged[i].shockers) = {s \in now : s.client_id = merged[i].client_id}
               /\ IsInjective(merged[i].shockers)
    <3>1. CASE i = n
      BY <2>2, <2>3, <2>6, <2>7, <3>1
    <3>2. CASE i \in 1 .. Len(groups)
      <4>1. {s \in now : s.client_id = groups[i].client_id}
            = {s \in held : s.client_id = groups[i].client_id}
        BY <1>4, <3>2
      <4>2. QED
        BY <1>2, <2>3, <3>2, <4>1
    <3>3. QED
      BY <2>3, <2>4, <3>1, <3>2
  <2>9. \A i, k \in 1 .. Len(merged) : merged[i].client_id = merged[k].client_id => i = k
    BY <1>2, <1>4, <2>2, <2>3, <2>4
  <2>10. \A s \in now : \E i \in 1 .. Len(merged) : merged[i].client_id = s.client_id
    BY <1>2, <2>2, <2>3, <2>5
  <2>11. QED
    BY <2>1, <2>3, <2>8, <2>9, <2>10 DEF Complete
<1>5. QED
  BY <1>3, <1>4

--------------------------------------------------------------------------------
(* Which actions touch what. *)

Commands ==
  \/ \E i \in 1 .. Len(devices), c \in Command : Operate(devices[i], c)
  \/ \E share \in Share, c \in Command : SendCommand(share, c)

Listing == ListHubs \/ ListShares \/ MergeShare \/ Listed

Posting == Post \/ Receive \/ TimesOut \/ \E request \in inFlight : Serve(request)

LEMMA Actions == Next => Listing \/ Commands \/ Posting
BY DEF Next, Listing, Commands, Posting

LEMMA ListingLeaves ==
  ASSUME Listing
  PROVE  /\ UNCHANGED <<call, command, target, posted, selected, answer, inFlight, result, executed>>
         /\ pc \in {"idle", "listing", "merging"} /\ pc' \in {"idle", "listing", "merging"}
BY DEF Listing, ListHubs, ListShares, MergeShare, Listed, callVars

LEMMA OthersLeave ==
  ASSUME Commands \/ Posting
  PROVE  /\ UNCHANGED <<groups, shares, next, devices, listed>>
         /\ pc \notin {"listing", "merging"} => pc' \notin {"listing", "merging"}
         /\ pc \in {"listing", "merging"} => pc' = pc
BY DEF Commands, Posting, Operate, SendCommand, Begin, Post, Receive, TimesOut, Serve, Return,
       listVars, mergeVars

LEMMA ListingStep ==
  ASSUME IInv, Next
  PROVE  /\ MergeInv' /\ ListingComplete'
         /\ groups' \in Seq(Group) /\ shares' \in Seq(Share) /\ next' \in Nat \ {0}
         /\ devices' \in Seq(Group) /\ listed' \in Seq(Share)
<1>1. /\ groups \in Seq(Group) /\ shares \in Seq(Share) /\ next \in Nat \ {0}
      /\ devices \in Seq(Group) /\ listed \in Seq(Share)
      /\ MergeInv /\ ListingComplete
  BY DEF IInv, TypeOK
<1>2. <<>> \in Seq(Group) /\ <<>> \in Seq(Share)
  OBVIOUS
<1>3. CASE ListHubs
  <2>1. PICK hubs \in HubList : groups' = [i \in 1 .. Len(hubs) |-> NewGroup(hubs[i])]
    BY <1>3 DEF ListHubs
  <2>2. groups' \in Seq(Group) /\ Complete(groups', {})
    BY <2>1, NewGroups
  <2>3. /\ UNCHANGED <<shares, next, devices, listed>> /\ pc = "idle" /\ pc' = "listing"
    BY <1>3 DEF ListHubs
  <2>4. QED
    BY <1>1, <2>2, <2>3 DEF MergeInv, ListingComplete
<1>4. CASE ListShares
  <2>1. devices' = devices /\ listed' = listed /\ pc = "listing"
    BY <1>4 DEF ListShares
  <2>2. CASE shares' \in ShareList /\ pc' = "merging" /\ UNCHANGED <<groups, next>>
    <3>1. shares' \in Seq(Share) /\ Len(shares') \in Nat
      BY <2>2, ListAssumption
    <3>2. next = 1 /\ Complete(groups, {})
      BY <1>1, <2>1 DEF MergeInv
    <3>3. {shares'[i] : i \in 1 .. next - 1} = {}
      BY <3>2
    <3>4. next <= Len(shares') + 1
      BY <3>1, <3>2
    <3>5. MergeInv'
      BY <2>2, <3>2, <3>3, <3>4 DEF MergeInv
    <3>6. QED
      BY <1>1, <2>1, <2>2, <3>1, <3>5 DEF ListingComplete
  <2>3. CASE NoListing /\ pc' = "idle"
    BY <1>1, <1>2, <2>1, <2>3 DEF NoListing, MergeInv, ListingComplete
  <2>4. QED
    BY <1>4, <2>2, <2>3 DEF ListShares
<1>5. CASE MergeShare
  <2> DEFINE share == shares[next]
             held == {shares[i] : i \in 1 .. next - 1}
  <2>1. /\ pc = "merging" /\ pc' = pc /\ next <= Len(shares) /\ groups' = Merge(share)
        /\ next' = next + 1 /\ UNCHANGED <<shares, devices, listed>>
    BY <1>5 DEF MergeShare
  <2>2. next \in 1 .. Len(shares) /\ Len(shares) \in Nat
    BY <1>1, <2>1
  <2>3. share \in Share /\ held \in SUBSET Share
    BY <1>1, <2>2
  <2>4. Complete(groups, held)
    BY <1>1, <2>1 DEF MergeInv
  <2>5. {shares[i] : i \in 1 .. next' - 1} = held \cup {share}
    <3>1. next' - 1 = next
      BY <1>1, <2>1
    <3>2. \A i \in 1 .. next : i \in 1 .. next - 1 \/ i = next
      BY <1>1
    <3>3. 1 .. next - 1 \subseteq 1 .. next /\ next \in 1 .. next
      BY <1>1
    <3>4. QED
      BY <3>1, <3>2, <3>3
  <2> HIDE DEF share, held
  <2>6. groups' \in Seq(Group) /\ Complete(groups', held \cup {share})
    BY <1>1, <2>1, <2>3, <2>4, MergeParts
  <2>7. next' <= Len(shares') + 1 /\ next' \in Nat \ {0}
    BY <1>1, <2>1, <2>2
  <2>8. MergeInv'
    BY <2>1, <2>5, <2>6, <2>7 DEF MergeInv
  <2>9. QED
    BY <1>1, <2>1, <2>6, <2>7, <2>8 DEF ListingComplete
<1>6. CASE Listed
  <2>1. /\ pc = "merging" /\ pc' = "idle" /\ next > Len(shares)
        /\ devices' = groups /\ listed' = shares
        /\ groups' = <<>> /\ shares' = <<>> /\ next' = 1
    BY <1>6 DEF Listed, NoListing
  <2>2. Len(shares) \in Nat /\ DOMAIN shares = 1 .. Len(shares)
    BY <1>1
  <2>3. next - 1 = Len(shares)
    BY <1>1, <2>1, <2>2 DEF MergeInv
  <2>4. {shares[i] : i \in 1 .. next - 1} = Range(shares)
    BY <2>2, <2>3 DEF Range
  <2>5. ListingComplete'
    BY <1>1, <2>1, <2>4 DEF MergeInv, ListingComplete
  <2>6. QED
    BY <1>1, <1>2, <2>1, <2>5 DEF MergeInv
<1>7. CASE Commands \/ Posting
  <2>1. /\ UNCHANGED <<groups, shares, next, devices, listed>>
        /\ pc \notin {"listing", "merging"} => pc' \notin {"listing", "merging"}
        /\ pc \in {"listing", "merging"} => pc' = pc
    BY <1>7, OthersLeave
  <2>2. pc' # "merging" => next = 1
    BY <1>1, <1>7, <2>1 DEF MergeInv
  <2>3. QED
    BY <1>1, <2>1, <2>2 DEF MergeInv, ListingComplete
<1>8. QED
  BY <1>3, <1>4, <1>5, <1>6, <1>7, Actions DEF Listing

--------------------------------------------------------------------------------
(* The choice of the shares. *)

LEMMA First ==
  ASSUME NEW T, T \subseteq Nat, T # {}
  PROVE  \E x \in T : \A y \in T : x <= y
<1> DEFINE R == {pair \in Nat \X Nat : pair[1] < pair[2]}
<1>1. IsWellFoundedOn(R, Nat)
  BY NatLessThanWellFounded DEF OpToRel
<1>2. \A x, y \in Nat : <<y, x>> \notin R => x <= y
  OBVIOUS
<1> HIDE DEF R
<1>3. PICK x \in T : \A y \in T : <<y, x>> \notin R
  BY <1>1, WFMin
<1>4. QED
  BY <1>2, <1>3

LEMMA SelectParts ==
  ASSUME NEW shockers \in Seq(Share), NEW c
  PROVE  LET chosen == Select(shockers, c)
         IN  /\ chosen \in SUBSET Share
             /\ \A s \in chosen : Available(s) /\ Permits(s, c) /\ s \in Range(shockers)
             /\ \A s, t \in chosen : s.id = t.id => s = t
             /\ chosen # {} =>
                  \A member \in Range(shockers) : Available(member) =>
                    \E s \in chosen : s.id = member.id
<1> DEFINE chosen == Select(shockers, c)
           fits == {j \in 1 .. Len(shockers) :
                      /\ Available(shockers[j]) /\ Permits(shockers[j], c)
                      /\ \A k \in Alternatives(shockers, shockers[j].id) :
                           k < j => ~Permits(shockers[k], c)}
<1>1. /\ Len(shockers) \in Nat /\ DOMAIN shockers = 1 .. Len(shockers)
      /\ \A i \in 1 .. Len(shockers) : /\ shockers[i] \in Share /\ shockers[i].id \in ShockerId
                                       /\ shockers[i] \in Range(shockers)
  BY DEF Range, ShockerId
<1>2. CASE ~ \A id \in Reachable(shockers) :
             \E i \in Alternatives(shockers, id) : Permits(shockers[i], c)
  <2>1. chosen = {}
    BY <1>2 DEF Select
  <2> HIDE DEF chosen
  <2>2. QED
    BY <2>1 DEF chosen
<1>3. CASE \A id \in Reachable(shockers) :
             \E i \in Alternatives(shockers, id) : Permits(shockers[i], c)
  <2>1. chosen = {shockers[i] : i \in fits}
    BY <1>3 DEF Select
  <2> HIDE DEF chosen
  <2>2. \A i \in fits : /\ i \in 1 .. Len(shockers) /\ Available(shockers[i])
                        /\ Permits(shockers[i], c)
                        /\ \A k \in 1 .. Len(shockers) :
                             shockers[k].id = shockers[i].id /\ Available(shockers[k]) /\ k < i =>
                               ~Permits(shockers[k], c)
    BY DEF Alternatives
  <2>3. \A i, k \in fits : shockers[i].id = shockers[k].id => i = k
    <3>1. ASSUME NEW i \in fits, NEW k \in fits, shockers[i].id = shockers[k].id
          PROVE  ~ (k < i)
      BY <2>2, <3>1
    <3>2. ASSUME NEW i \in fits, NEW k \in fits, shockers[i].id = shockers[k].id
          PROVE  i = k
      <4>1. i \in Nat /\ k \in Nat
        BY <1>1, <2>2
      <4>2. ~(k < i) /\ ~(i < k)
        BY <3>1, <3>2
      <4>3. QED
        BY <4>1, <4>2
    <3>3. QED
      BY <3>2
  <2>4. ASSUME NEW member \in Range(shockers), Available(member)
        PROVE  \E s \in chosen : s.id = member.id
    <3>1. PICK at \in 1 .. Len(shockers) : shockers[at] = member
      BY <1>1 DEF Range
    <3> DEFINE permitting == {i \in Alternatives(shockers, member.id) : Permits(shockers[i], c)}
    <3>2. member.id \in Reachable(shockers)
      BY <1>1, <2>4, <3>1 DEF Reachable, Alternatives
    <3>3. permitting # {} /\ permitting \subseteq Nat
      BY <1>1, <1>3, <3>2 DEF Alternatives
    <3>4. PICK i \in permitting : \A k \in permitting : i <= k
      BY <3>3, First
    <3>5. /\ i \in 1 .. Len(shockers) /\ shockers[i].id = member.id
          /\ Available(shockers[i]) /\ Permits(shockers[i], c)
      BY <3>4 DEF Alternatives
    <3>6. ASSUME NEW k \in Alternatives(shockers, shockers[i].id), k < i
          PROVE  ~Permits(shockers[k], c)
      <4>1. k \in Nat /\ i \in Nat
        BY <1>1, <3>5 DEF Alternatives
      <4>2. ~(i <= k)
        BY <3>6, <4>1
      <4>3. k \notin permitting
        BY <3>4, <4>2
      <4>4. QED
        BY <3>5, <3>6, <4>3
    <3>7. i \in fits
      BY <3>5, <3>6
    <3>8. QED
      BY <2>1, <3>5, <3>7
  <2> HIDE DEF fits
  <2>5. \A s \in chosen : Available(s) /\ Permits(s, c) /\ s \in Range(shockers) /\ s \in Share
    BY <1>1, <2>1, <2>2
  <2>6. \A s, t \in chosen : s.id = t.id => s = t
    BY <2>1, <2>3
  <2>7. QED
    BY <2>4, <2>5, <2>6 DEF chosen
<1>4. QED
  BY <1>2, <1>3

\* What a command leaves behind, of a group or of one share.
BeginEffect ==
  /\ pc = "idle" /\ call' = call + 1 /\ call' \in Call /\ selected = {}
  /\ UNCHANGED <<groups, shares, next, devices, listed, posted, answer, inFlight, executed>>
  /\ command' \in Command
  /\ \E group \in SUBSET Share : target' = [target EXCEPT ![call + 1] = group]
  /\ selected' \in SUBSET Share
  /\ pc' = IF selected' = {} THEN "idle" ELSE "posting"
  /\ result' = [result EXCEPT ![call + 1] = IF selected' = {} THEN "refused" ELSE "none"]
  /\ \A s, t \in selected' : s.id = t.id => s = t
  /\ selected' # {} =>
       /\ ValidParameters(command')
       /\ target'[call'] # {} =>
            \A s \in selected' : Available(s) /\ Permits(s, command') /\ s \in target'[call']
       /\ \A member \in target'[call'] : Available(member) =>
            \E s \in selected' : s.id = member.id

LEMMA BeginParts ==
  ASSUME IInv, Commands
  PROVE  BeginEffect
<1>1. /\ call \in 0 .. MaxCalls /\ MaxCalls \in Nat /\ target \in [Call -> SUBSET Share]
      /\ devices \in Seq(Group) /\ (pc = "idle" => selected = {})
  BY ListAssumption DEF IInv, TypeOK
<1>2. ASSUME NEW c \in Command, NEW group \in SUBSET Share, NEW chosen \in SUBSET Share,
             Begin(c, group, chosen),
             \A s, t \in chosen : s.id = t.id => s = t,
             group # {} => \A s \in chosen : Available(s) /\ Permits(s, c) /\ s \in group,
             chosen # {} => \A member \in group : Available(member) =>
                              \E s \in chosen : s.id = member.id
      PROVE  BeginEffect
  <2>1. call' = call + 1 /\ call + 1 \in Call /\ pc = "idle" /\ selected = {}
    BY <1>1, <1>2 DEF Begin, Call
  <2>2. target'[call'] = group
    BY <1>1, <1>2, <2>1 DEF Begin
  <2>3. /\ UNCHANGED <<groups, shares, next, devices, listed, posted, answer, inFlight, executed>>
        /\ command' = c /\ target' = [target EXCEPT ![call + 1] = group]
        /\ selected' = IF ValidParameters(c) THEN chosen ELSE {}
        /\ pc' = IF selected' = {} THEN "idle" ELSE "posting"
        /\ result' = [result EXCEPT ![call + 1] = IF selected' = {} THEN "refused" ELSE "none"]
    BY <1>2 DEF Begin, listVars, mergeVars
  <2>4. CASE selected' = {}
    BY <1>2, <2>1, <2>3, <2>4 DEF BeginEffect
  <2>5. CASE selected' # {}
    <3>1. selected' = chosen /\ ValidParameters(c)
      BY <2>3, <2>5
    <3>2. QED
      BY <1>2, <2>1, <2>2, <2>3, <3>1 DEF BeginEffect
  <2>6. QED
    BY <2>4, <2>5
<1>3. CASE \E i \in 1 .. Len(devices), c \in Command : Operate(devices[i], c)
  <2>1. PICK i \in 1 .. Len(devices), c \in Command : Operate(devices[i], c)
    BY <1>3
  <2> DEFINE shockers == devices[i].shockers
  <2>2. shockers \in Seq(Share)
    <3>1. devices[i] \in Group
      BY <1>1
    <3>2. QED
      BY <3>1 DEF Group
  <2>3. Begin(c, Range(shockers), Select(shockers, c))
    BY <2>1 DEF Operate
  <2> HIDE DEF shockers
  <2>4. Range(shockers) \in SUBSET Share
    BY <2>2 DEF Range
  <2>5. /\ Select(shockers, c) \in SUBSET Share
        /\ \A s, t \in Select(shockers, c) : s.id = t.id => s = t
        /\ \A s \in Select(shockers, c) : Available(s) /\ Permits(s, c) /\ s \in Range(shockers)
        /\ Select(shockers, c) # {} =>
             \A member \in Range(shockers) : Available(member) =>
               \E s \in Select(shockers, c) : s.id = member.id
    BY <2>2, SelectParts
  <2> DEFINE group == Range(shockers)
             chosen == Select(shockers, c)
  <2> HIDE DEF group, chosen
  <2>6. /\ Begin(c, group, chosen) /\ group \in SUBSET Share /\ chosen \in SUBSET Share
        /\ \A s, t \in chosen : s.id = t.id => s = t
        /\ \A s \in chosen : Available(s) /\ Permits(s, c) /\ s \in group
        /\ chosen # {} => \A member \in group : Available(member) =>
                            \E s \in chosen : s.id = member.id
    BY <2>3, <2>4, <2>5 DEF group, chosen
  <2>7. QED
    BY <1>2, <2>1, <2>6
<1>4. CASE \E share \in Share, c \in Command : SendCommand(share, c)
  <2>1. PICK share \in Share, c \in Command : SendCommand(share, c)
    BY <1>4
  <2>2. Begin(c, {}, {share})
    BY <2>1 DEF SendCommand
  <2>3. {} \in SUBSET Share /\ {share} \in SUBSET Share
    BY <2>1
  <2>4. QED
    BY <1>2, <2>1, <2>2, <2>3
<1>5. QED
  BY <1>3, <1>4 DEF Commands

--------------------------------------------------------------------------------
(* The POSTs. *)

\* A POST that leaves.
LEMMA PostParts ==
  ASSUME IInv, Post
  PROVE  /\ pc = "posting" /\ call \in Call /\ answer = None
         /\ UNCHANGED <<groups, shares, next, devices, listed, call, command, target, answer, executed>>
         /\ \/ \E share \in selected :
                 /\ share \in Share
                 /\ [call |-> call, share |-> share] \in Request
                 /\ [call |-> call, share |-> share] \notin posted
                 /\ inFlight' = inFlight \cup {[call |-> call, share |-> share]}
                 /\ posted' = posted \cup {[call |-> call, share |-> share]}
                 /\ selected' = selected \ {share}
                 /\ pc' = "waiting"
                 /\ result' = result
            \/ /\ pc' = "idle" /\ selected' = {}
               /\ result' = [result EXCEPT ![call] = "failed"]
               /\ UNCHANGED <<inFlight, posted>>
<1>1. pc = "posting" /\ call \in Call /\ answer = None /\ selected \in SUBSET Share
  BY DEF Post, IInv, TypeOK, WaitInv, PostInv
<1>2. UNCHANGED <<groups, shares, next, devices, listed, call, command, target, answer, executed>>
  BY DEF Post, listVars, mergeVars
<1>3. PICK share \in selected :
        \/ /\ inFlight' = inFlight \cup {[call |-> call, share |-> share]}
           /\ posted' = posted \cup {[call |-> call, share |-> share]}
           /\ selected' = selected \ {share}
           /\ pc' = "waiting"
           /\ result' = result
        \/ /\ Return("failed")
           /\ UNCHANGED <<inFlight, posted>>
  BY DEF Post
<1>4. [call |-> call, share |-> share] \in Request
  BY <1>1 DEF Request
<1>5. [call |-> call, share |-> share] \notin posted
  BY <1>1 DEF IInv, PostInv
<1>6. QED
  BY <1>1, <1>2, <1>3, <1>4, <1>5 DEF Return

\* A request the server has not served is of a shocker that was not operated in its call.
LEMMA Unserved ==
  ASSUME IInv, NEW request \in inFlight
  PROVE  /\ request \in posted /\ request.call \in Call /\ request.share.id \in ShockerId
         /\ executed[request.call][request.share.id] = 0
<1>1. request \in posted
  BY DEF IInv, PostInv
<1>2. request \in Request /\ executed \in [Call -> [ShockerId -> Nat]]
  BY DEF IInv, TypeOK
<1>3. request.call \in Call /\ request.share \in Share
  BY <1>2 DEF Request
<1>4. request.share.id \in ShockerId
  BY <1>3 DEF ShockerId
<1>5. executed[request.call][request.share.id] = 0
  <2>1. SUFFICES ASSUME executed[request.call][request.share.id] # 0 PROVE FALSE
    OBVIOUS
  <2>2. PICK r \in posted \ inFlight : r.call = request.call /\ r.share.id = request.share.id
    BY <1>3, <1>4, <2>1 DEF IInv, PostInv
  <2>3. r = request
    BY <1>1, <2>2 DEF IInv, PostInv
  <2>4. QED
    BY <2>2, <2>3
<1>6. QED
  BY <1>1, <1>3, <1>4, <1>5

\* The server serves a request.
LEMMA ServeParts ==
  ASSUME IInv, NEW request \in inFlight, Serve(request)
  PROVE  /\ UNCHANGED <<pc, groups, shares, next, devices, listed, call, command, target, posted,
                        selected, result>>
         /\ request \in posted /\ request.call \in Call /\ request.share.id \in ShockerId
         /\ executed[request.call][request.share.id] = 0
         /\ inFlight' = inFlight \ {request}
         /\ \/ /\ executed' = [executed EXCEPT ![request.call] =
                                 [executed[request.call] EXCEPT ![request.share.id] = 1]]
               /\ answer' = IF request.call = call /\ pc = "waiting" THEN "204" ELSE answer
            \/ /\ executed' = executed
               /\ answer' = IF request.call = call /\ pc = "waiting" THEN "refused" ELSE answer
<1>1. /\ request \in posted /\ request.call \in Call /\ request.share.id \in ShockerId
      /\ executed[request.call][request.share.id] = 0
  BY Unserved
<1>2. executed \in [Call -> [ShockerId -> Nat]]
  BY DEF IInv, TypeOK
<1>3. /\ UNCHANGED <<pc, groups, shares, next, devices, listed, call, command, target, posted,
                     selected, result>>
      /\ inFlight' = inFlight \ {request}
      /\ \/ /\ executed' = [executed EXCEPT ![request.call][request.share.id] = @ + 1]
            /\ answer' = IF request.call = call /\ pc = "waiting" THEN "204" ELSE answer
         \/ /\ executed' = executed
            /\ answer' = IF request.call = call /\ pc = "waiting" THEN "refused" ELSE answer
  BY DEF Serve, listVars, mergeVars, callVars
<1>4. [executed EXCEPT ![request.call][request.share.id] = @ + 1]
      = [executed EXCEPT ![request.call] =
           [executed[request.call] EXCEPT ![request.share.id] = 1]]
  BY <1>1, <1>2
<1>5. QED
  BY <1>1, <1>3, <1>4

\* An answer is received, or none comes.
LEMMA ReceiveParts ==
  ASSUME IInv, Receive \/ TimesOut
  PROVE  /\ pc = "waiting" /\ call \in Call /\ answer' = None
         /\ UNCHANGED <<groups, shares, next, devices, listed, call, command, target, posted,
                        inFlight, executed>>
         /\ \/ /\ pc' = "idle" /\ selected' = {}
               /\ result' = [result EXCEPT ![call] = "failed"]
            \/ /\ answer = "204" /\ pc' = "idle" /\ selected = {} /\ selected' = {}
               /\ result' = [result EXCEPT ![call] = "ok"]
            \/ answer = "204" /\ pc' = "posting" /\ UNCHANGED <<selected, result>>
<1>1. pc = "waiting" /\ call \in Call
  BY DEF IInv, WaitInv, Receive, TimesOut
<1>2. QED
  BY <1>1 DEF Receive, TimesOut, Return, listVars, mergeVars, callVars

LEMMA TypeStep ==
  ASSUME IInv, Next
  PROVE  TypeOK'
<1> DEFINE Rest == /\ pc \in {"idle", "listing", "merging", "posting", "waiting"}
                   /\ call \in 0 .. MaxCalls
                   /\ command \in Command \cup {None}
                   /\ selected \in SUBSET Share
                   /\ pc \notin {"posting", "waiting"} => selected = {}
                   /\ answer \in {"204", "refused", None}
                   /\ inFlight \in SUBSET Request
                   /\ result \in [Call -> {"none", "refused", "failed", "ok"}]
                   /\ executed \in [Call -> [ShockerId -> Nat]]
                   /\ target \in [Call -> SUBSET Share]
                   /\ posted \in SUBSET Request
<1>0. SUFFICES Rest'
  BY ListingStep DEF TypeOK
<1>1. Rest
  BY DEF IInv, TypeOK
<1>2. CASE Listing
  BY <1>1, <1>2, ListingLeaves
<1>3. CASE Commands
  <2>1. BeginEffect
    BY <1>3, BeginParts
  <2>2. call' \in 0 .. MaxCalls /\ target' \in [Call -> SUBSET Share]
        /\ result' \in [Call -> {"none", "refused", "failed", "ok"}]
    BY <1>1, <2>1 DEF BeginEffect, Call
  <2>3. QED
    BY <1>1, <2>1, <2>2 DEF BeginEffect
<1>4. CASE Post
  BY <1>1, <1>4, PostParts
<1>5. CASE Receive \/ TimesOut
  BY <1>1, <1>5, ReceiveParts
<1>6. ASSUME NEW request \in inFlight, Serve(request)
      PROVE  Rest'
  <2>1. executed' \in [Call -> [ShockerId -> Nat]]
    <3>1. [executed[request.call] EXCEPT ![request.share.id] = 1] \in [ShockerId -> Nat]
      BY <1>1, <1>6, ServeParts
    <3>2. request.call \in Call /\ (executed' = executed \/
            executed' = [executed EXCEPT ![request.call] =
                           [executed[request.call] EXCEPT ![request.share.id] = 1]])
      BY <1>6, ServeParts
    <3>3. QED
      BY <1>1, <3>1, <3>2
  <2>2. QED
    BY <1>1, <1>6, <2>1, ServeParts
<1>7. QED
  BY <1>2, <1>3, <1>4, <1>5, <1>6, Actions DEF Posting

LEMMA PostStep ==
  ASSUME IInv, Next
  PROVE  PostInv' /\ AtMostOnce'
<1>1. /\ pc # "waiting" => answer = None
      /\ inFlight \subseteq posted
      /\ \A r \in posted : r.call <= call
      /\ \A r, q \in posted : r.call = q.call /\ r.share.id = q.share.id => r = q
      /\ \A s, t \in selected : s.id = t.id => s = t
      /\ \A s \in selected, r \in posted : r.call = call => r.share.id # s.id
      /\ \A n \in Call, id \in ShockerId : executed[n][id] # 0 =>
           \E r \in posted \ inFlight : r.call = n /\ r.share.id = id
      /\ \A n \in Call, id \in ShockerId : executed[n][id] <= 1
      /\ call \in Nat /\ posted \in SUBSET Request
      /\ executed \in [Call -> [ShockerId -> Nat]]
  BY ListAssumption DEF IInv, PostInv, AtMostOnce, TypeOK
<1>2. \A r \in Request : r.call \in Nat
  BY DEF Request, Call
<1>3. CASE Listing
  <2>1. /\ UNCHANGED <<call, posted, selected, answer, inFlight, executed>>
        /\ pc # "waiting" /\ pc' # "waiting"
    BY <1>3, ListingLeaves
  <2>2. QED
    BY <1>1, <2>1 DEF PostInv, AtMostOnce
<1>4. CASE Commands
  <2>1. /\ UNCHANGED <<posted, answer, inFlight, executed>> /\ call' = call + 1
        /\ pc # "waiting" /\ pc' # "waiting"
        /\ \A s, t \in selected' : s.id = t.id => s = t
    BY <1>4, BeginParts DEF BeginEffect
  <2>2. \A r \in posted : r.call <= call' /\ r.call # call'
    BY <1>1, <1>2, <2>1
  <2>3. QED
    BY <1>1, <2>1, <2>2 DEF PostInv, AtMostOnce
<1>5. CASE Post
  <2>1. /\ pc = "posting" /\ call \in Call /\ answer = None
        /\ UNCHANGED <<call, answer, executed>>
    BY <1>5, PostParts
  <2>2. CASE selected' = {} /\ UNCHANGED <<inFlight, posted>>
    BY <1>1, <2>1, <2>2 DEF PostInv, AtMostOnce
  <2>3. ASSUME NEW share \in selected,
               [call |-> call, share |-> share] \notin posted,
               inFlight' = inFlight \cup {[call |-> call, share |-> share]},
               posted' = posted \cup {[call |-> call, share |-> share]},
               selected' = selected \ {share}
        PROVE  PostInv' /\ AtMostOnce'
    <3> DEFINE request == [call |-> call, share |-> share]
    <3>1. request.call = call /\ request.share = share
      OBVIOUS
    <3>2. request \notin posted /\ inFlight' = inFlight \cup {request}
          /\ posted' = posted \cup {request}
      BY <2>3
    <3> HIDE DEF request
    <3>3. \A r \in posted' : r.call <= call'
      BY <1>1, <2>1, <3>1, <3>2
    <3>4. \A r \in posted : r.call = call => r.share.id # share.id
      BY <1>1
    <3>5. \A r, q \in posted' : r.call = q.call /\ r.share.id = q.share.id => r = q
      BY <1>1, <3>1, <3>2, <3>4
    <3>6. \A s \in selected', r \in posted' : r.call = call' => r.share.id # s.id
      BY <1>1, <2>1, <2>3, <3>1, <3>2
    <3>7. \A n \in Call, id \in ShockerId : executed'[n][id] # 0 =>
            \E r \in posted' \ inFlight' : r.call = n /\ r.share.id = id
      BY <1>1, <2>1, <3>2
    <3>8. pc' # "waiting" => answer' = None
      BY <2>1
    <3>9. inFlight' \subseteq posted' /\ \A s, t \in selected' : s.id = t.id => s = t
      BY <1>1, <2>3, <3>2
    <3>10. AtMostOnce'
      BY <1>1, <2>1 DEF AtMostOnce
    <3>11. QED
      BY <3>3, <3>5, <3>6, <3>7, <3>8, <3>9, <3>10 DEF PostInv
  <2>4. QED
    BY <1>5, <2>2, <2>3, PostParts
<1>6. CASE Receive \/ TimesOut
  <2>1. /\ UNCHANGED <<call, posted, inFlight, executed>> /\ answer' = None
        /\ selected' \subseteq selected
    BY <1>6, ReceiveParts
  <2>2. QED
    BY <1>1, <2>1 DEF PostInv, AtMostOnce
<1>7. ASSUME NEW request \in inFlight, Serve(request)
      PROVE  PostInv' /\ AtMostOnce'
  <2>1. /\ UNCHANGED <<pc, call, posted, selected>>
        /\ request \in posted /\ request.call \in Call /\ request.share.id \in ShockerId
        /\ executed[request.call][request.share.id] = 0
        /\ inFlight' = inFlight \ {request}
        /\ \/ executed' = [executed EXCEPT ![request.call] =
                             [executed[request.call] EXCEPT ![request.share.id] = 1]]
           \/ executed' = executed
        /\ pc # "waiting" => answer' = answer
    BY <1>7, ServeParts
  <2>2. ASSUME NEW n \in Call, NEW id \in ShockerId
        PROVE  \/ executed'[n][id] = executed[n][id]
               \/ n = request.call /\ id = request.share.id /\ executed'[n][id] = 1
    BY <1>1, <2>1
  <2>3. \A n \in Call, id \in ShockerId : executed'[n][id] # 0 =>
          \E r \in posted' \ inFlight' : r.call = n /\ r.share.id = id
    BY <1>1, <2>1, <2>2
  <2>4. AtMostOnce'
    BY <1>1, <2>2 DEF AtMostOnce
  <2>5. QED
    BY <1>1, <2>1, <2>3, <2>4 DEF PostInv
<1>8. QED
  BY <1>3, <1>4, <1>5, <1>6, <1>7, Actions DEF Posting

LEMMA CheckStep ==
  ASSUME IInv, Next
  PROVE  SelectedChecked' /\ CheckedBeforePost'
<1>1. /\ \A share \in selected : target[call] # {} => Checked(share)
      /\ \A r \in posted : r.call = call /\ target[call] # {} => Checked(r.share)
      /\ \A r \in posted : r.call <= call
      /\ call \in Nat /\ posted \in SUBSET Request
  BY ListAssumption DEF IInv, SelectedChecked, CheckedBeforePost, Checked, PostInv, TypeOK
<1>2. \A r \in Request : r.call \in Nat
  BY DEF Request, Call
<1>3. ASSUME UNCHANGED <<call, command, target>>, selected' \subseteq selected,
             \A r \in posted' : r \in posted \/ r.share \in selected
      PROVE  SelectedChecked' /\ CheckedBeforePost'
  <2>1. ASSUME NEW share, Checked(share) PROVE Checked(share)'
    BY <1>3, <2>1 DEF Checked
  <2>2. SelectedChecked'
    BY <1>1, <1>3, <2>1 DEF SelectedChecked
  <2>3. \A r \in posted' : r.call = call' /\ target'[call'] # {} => Checked(r.share)'
    BY <1>1, <1>3, <2>1
  <2>4. QED
    BY <2>2, <2>3 DEF CheckedBeforePost, Checked
<1>4. CASE Listing
  BY <1>3, <1>4, ListingLeaves
<1>5. CASE Commands
  <2>1. /\ posted' = posted /\ call' = call + 1
        /\ selected' # {} =>
             /\ ValidParameters(command')
             /\ target'[call'] # {} =>
                  \A s \in selected' : Available(s) /\ Permits(s, command') /\ s \in target'[call']
             /\ \A member \in target'[call'] : Available(member) =>
                  \E s \in selected' : s.id = member.id
    BY <1>5, BeginParts DEF BeginEffect
  <2>2. ASSUME NEW share \in selected', target'[call'] # {}
        PROVE  Checked(share)'
    <3>1. ASSUME NEW member \in target'[call'], Available(member)
          PROVE  \E other \in target'[call'] :
                   other.id = member.id /\ Available(other) /\ Permits(other, command')
      BY <2>1, <2>2, <3>1
    <3>2. QED
      BY <2>1, <2>2, <3>1 DEF Checked
  <2>3. \A r \in posted' : r.call # call'
    BY <1>1, <1>2, <2>1
  <2>4. QED
    BY <2>2, <2>3 DEF SelectedChecked, CheckedBeforePost
<1>6. CASE Post
  <2>1. UNCHANGED <<call, command, target>> /\ selected' \subseteq selected
        /\ \A r \in posted' : r \in posted \/ r.share \in selected
    <3>1. UNCHANGED <<call, command, target>>
      BY <1>6 DEF Post
    <3>2. ASSUME NEW share \in selected,
                 posted' = posted \cup {[call |-> call, share |-> share]},
                 selected' = selected \ {share}
          PROVE  selected' \subseteq selected
                 /\ \A r \in posted' : r \in posted \/ r.share \in selected
      <4>1. [call |-> call, share |-> share].share \in selected
        OBVIOUS
      <4>2. QED
        BY <3>2, <4>1
    <3>3. CASE posted' = posted /\ selected' = {}
      BY <3>1, <3>3
    <3>4. QED
      BY <1>6, <3>1, <3>2, <3>3, PostParts
  <2>2. QED
    BY <1>3, <2>1
<1>7. CASE Receive \/ TimesOut
  <2>1. UNCHANGED <<call, command, target>> /\ selected' \subseteq selected
        /\ \A r \in posted' : r \in posted \/ r.share \in selected
    BY <1>7, ReceiveParts
  <2>2. QED
    BY <1>3, <2>1
<1>8. ASSUME NEW request \in inFlight, Serve(request)
      PROVE  SelectedChecked' /\ CheckedBeforePost'
  <2>1. UNCHANGED <<call, command, target>> /\ selected' \subseteq selected
        /\ \A r \in posted' : r \in posted \/ r.share \in selected
    BY <1>8, ServeParts
  <2>2. QED
    BY <1>3, <2>1
<1>9. QED
  BY <1>4, <1>5, <1>6, <1>7, <1>8, Actions DEF Posting

LEMMA WaitStep ==
  ASSUME IInv, Next
  PROVE  WaitInv' /\ OkIsEveryShocker'
<1>1. /\ call \in Nat /\ posted \in SUBSET Request
      /\ executed \in [Call -> [ShockerId -> Nat]]
      /\ result \in [Call -> {"none", "refused", "failed", "ok"}]
      /\ target \in [Call -> SUBSET Share]
      /\ selected \in SUBSET Share
      /\ inFlight \subseteq posted
      /\ \A r \in posted : r.call <= call
      /\ \A r, q \in posted : r.call = q.call /\ r.share.id = q.share.id => r = q
  BY ListAssumption DEF IInv, PostInv, TypeOK
<1>2. \A r \in Request : r.call \in Call /\ r.call \in Nat /\ r.share \in Share
                         /\ r.share.id \in ShockerId
  BY DEF Request, Call, ShockerId
\* A call that ended ok stays as it is.
<1>3. ASSUME NEW n \in Call, result[n] = "ok"
      PROVE  /\ \A share \in target[n] : Available(share) => executed[n][share.id] = 1
             /\ \A r \in posted : r.call = n => executed[n][r.share.id] = 1
  BY <1>3 DEF IInv, OkIsEveryShocker
<1>4. CASE Listing
  <2>1. /\ UNCHANGED <<call, target, posted, selected, answer, result, executed>>
        /\ pc' \notin {"posting", "waiting"}
    BY <1>4, ListingLeaves
  <2>2. QED
    BY <1>3, <2>1 DEF WaitInv, OkIsEveryShocker
<1>5. CASE Commands
  <2>1. BeginEffect
    BY <1>5, BeginParts
  <2>2. /\ UNCHANGED <<posted, executed>> /\ call' = call + 1 /\ call' \in Call
        /\ pc' = IF selected' = {} THEN "idle" ELSE "posting"
        /\ result' = [result EXCEPT ![call + 1] = IF selected' = {} THEN "refused" ELSE "none"]
        /\ \E group \in SUBSET Share : target' = [target EXCEPT ![call + 1] = group]
        /\ selected' # {} => \A member \in target'[call'] : Available(member) =>
                               \E s \in selected' : s.id = member.id
    BY <2>1 DEF BeginEffect
  <2>3. \A r \in posted : r.call # call'
    BY <1>1, <1>2, <2>2
  <2>4. WaitInv'
    <3>1. CASE selected' = {}
      BY <2>2, <3>1 DEF WaitInv
    <3>2. CASE selected' # {}
      <4>1. result'[call'] = "none" /\ pc' = "posting"
        BY <1>1, <2>2, <3>2
      <4>2. Served(posted)'
        BY <2>2, <2>3 DEF Served
      <4>3. QED
        BY <2>2, <3>2, <4>1, <4>2 DEF WaitInv
    <3>3. QED
      BY <3>1, <3>2
  <2>5. OkIsEveryShocker'
    <3>1. ASSUME NEW n \in Call, result'[n] = "ok"
          PROVE  result[n] = "ok" /\ target'[n] = target[n]
      <4>1. n # call + 1
        BY <1>1, <2>2, <3>1
      <4>2. QED
        BY <1>1, <2>2, <3>1, <4>1
    <3>2. QED
      BY <1>3, <2>2, <3>1 DEF OkIsEveryShocker
  <2>6. QED
    BY <2>4, <2>5
<1>6. CASE Post
  <2>1. /\ pc = "posting" /\ call \in Call /\ answer = None
        /\ UNCHANGED <<call, target, answer, executed>>
    BY <1>6, PostParts
  <2>2. /\ result[call] = "none" /\ Served(posted)
        /\ \A share \in target[call] : Available(share) =>
             \/ \E s \in selected : s.id = share.id
             \/ \E r \in posted : r.call = call /\ r.share.id = share.id
    BY <2>1 DEF IInv, WaitInv
  <2>3. CASE pc' = "idle" /\ result' = [result EXCEPT ![call] = "failed"] /\ posted' = posted
    <3>1. \A n \in Call : result'[n] = "ok" => result[n] = "ok"
      BY <1>1, <2>1, <2>3
    <3>2. QED
      BY <1>3, <2>1, <2>3, <3>1 DEF WaitInv, OkIsEveryShocker
  <2>4. ASSUME NEW share \in selected,
               [call |-> call, share |-> share] \notin posted,
               posted' = posted \cup {[call |-> call, share |-> share]},
               selected' = selected \ {share}, pc' = "waiting", result' = result
        PROVE  WaitInv' /\ OkIsEveryShocker'
    <3> DEFINE request == [call |-> call, share |-> share]
    <3>1. request.call = call /\ request.share = share
      OBVIOUS
    <3>2. request \notin posted /\ posted' = posted \cup {request}
      BY <2>4
    <3> HIDE DEF request
    <3>3. posted' \ {request} = posted
      BY <3>2
    <3>4. \E w \in posted' : w.call = call /\ Served(posted' \ {w})
      BY <2>2, <3>1, <3>2, <3>3
    <3>5. \A member \in target[call] : Available(member) =>
            \/ \E s \in selected' : s.id = member.id
            \/ \E r \in posted' : r.call = call /\ r.share.id = member.id
      BY <2>2, <2>4, <3>1, <3>2
    <3>6. answer # "204" /\ answer' = None
      BY <2>1, NoneAssumption
    <3>7. (\E w \in posted : w.call = call /\ Served(posted \ {w}))'
      BY <2>1, <3>4 DEF Served
    <3>8. WaitInv'
      BY <2>1, <2>2, <2>4, <3>5, <3>6, <3>7 DEF WaitInv
    <3>9. OkIsEveryShocker'
      BY <1>3, <2>1, <2>2, <2>4, <3>1, <3>2 DEF OkIsEveryShocker
    <3>10. QED
      BY <3>8, <3>9
  <2>5. QED
    BY <1>6, <2>3, <2>4, PostParts
<1>7. CASE Receive \/ TimesOut
  <2>1. /\ pc = "waiting" /\ call \in Call /\ UNCHANGED <<call, target, posted, executed>>
    BY <1>7, ReceiveParts
  <2>2. /\ result[call] = "none" /\ (answer = "204" => Served(posted))
        /\ \A share \in target[call] : Available(share) =>
             \/ \E s \in selected : s.id = share.id
             \/ \E r \in posted : r.call = call /\ r.share.id = share.id
    BY <2>1 DEF IInv, WaitInv
  <2>3. CASE pc' = "idle" /\ result' = [result EXCEPT ![call] = "failed"]
    <3>1. \A n \in Call : result'[n] = "ok" => result[n] = "ok"
      BY <1>1, <2>1, <2>3
    <3>2. QED
      BY <1>3, <2>1, <2>3, <3>1 DEF WaitInv, OkIsEveryShocker
  <2>4. CASE /\ answer = "204" /\ pc' = "idle" /\ selected = {}
             /\ result' = [result EXCEPT ![call] = "ok"]
    <3>1. \A n \in Call : result'[n] = "ok" => result[n] = "ok" \/ n = call
      BY <1>1, <2>1, <2>4
    <3>2. /\ \A share \in target[call] : Available(share) => executed[call][share.id] = 1
          /\ \A r \in posted : r.call = call => executed[call][r.share.id] = 1
      BY <2>2, <2>4 DEF Served
    <3>3. OkIsEveryShocker'
      BY <1>3, <2>1, <3>1, <3>2 DEF OkIsEveryShocker
    <3>4. QED
      BY <2>4, <3>3 DEF WaitInv
  <2>5. CASE answer = "204" /\ pc' = "posting" /\ UNCHANGED <<selected, result>>
    <3>1. Served(posted)'
      BY <2>1, <2>2, <2>5 DEF Served
    <3>2. QED
      BY <1>3, <2>1, <2>2, <2>5, <3>1 DEF WaitInv, OkIsEveryShocker
  <2>6. QED
    BY <1>7, <2>3, <2>4, <2>5, ReceiveParts
<1>8. ASSUME NEW request \in inFlight, Serve(request)
      PROVE  WaitInv' /\ OkIsEveryShocker'
  <2>1. /\ UNCHANGED <<pc, call, target, posted, selected, result>>
        /\ inFlight' \subseteq inFlight
        /\ request \in posted /\ request.call \in Call /\ request.share.id \in ShockerId
        /\ executed[request.call][request.share.id] = 0
        /\ \/ /\ executed' = [executed EXCEPT ![request.call] =
                                [executed[request.call] EXCEPT ![request.share.id] = 1]]
              /\ answer' = IF request.call = call /\ pc = "waiting" THEN "204" ELSE answer
           \/ /\ executed' = executed
              /\ answer' = IF request.call = call /\ pc = "waiting" THEN "refused" ELSE answer
    BY <1>8, ServeParts
  <2>2. ASSUME NEW n \in Call, NEW id \in ShockerId, executed[n][id] = 1
        PROVE  executed'[n][id] = 1
    <3>1. CASE executed' = executed
      BY <2>2, <3>1
    <3>2. CASE executed' = [executed EXCEPT ![request.call] =
                              [executed[request.call] EXCEPT ![request.share.id] = 1]]
      <4>1. CASE n = request.call
        <5>1. executed'[n] = [executed[n] EXCEPT ![request.share.id] = 1]
          BY <1>1, <3>2, <4>1
        <5>2. executed[n] \in [ShockerId -> Nat]
          BY <1>1
        <5>3. QED
          BY <2>2, <5>1, <5>2
      <4>2. CASE n # request.call
        BY <1>1, <2>2, <3>2, <4>2
      <4>3. QED
        BY <4>1, <4>2
    <3>3. QED
      BY <2>1, <3>1, <3>2
  <2>3. executed' # executed => executed'[request.call][request.share.id] = 1
    BY <1>1, <2>1
  <2>4. OkIsEveryShocker'
    <3>1. ASSUME NEW n \in Call, result[n] = "ok"
          PROVE  /\ \A share \in target[n] : Available(share) => executed'[n][share.id] = 1
                 /\ \A r \in posted : r.call = n => executed'[n][r.share.id] = 1
      <4>1. \A share \in target[n] : share.id \in ShockerId
        BY <1>1 DEF ShockerId
      <4>2. QED
        BY <1>1, <1>2, <1>3, <2>2, <3>1, <4>1
    <3>2. QED
      BY <2>1, <3>1 DEF OkIsEveryShocker
  <2>5. WaitInv'
    <3>1. SUFFICES ASSUME pc \in {"posting", "waiting"} PROVE WaitInv'
      BY <2>1 DEF WaitInv
    <3>2. /\ call \in Call /\ result[call] = "none"
          /\ pc = "posting" => Served(posted)
          /\ pc = "waiting" /\ answer = "204" => Served(posted)
          /\ pc = "waiting" /\ answer = None =>
               \E w \in posted : w.call = call /\ Served(posted \ {w})
          /\ pc = "waiting" /\ answer # None => \A r \in inFlight : r.call # call
          /\ \A share \in target[call] : Available(share) =>
               \/ \E s \in selected : s.id = share.id
               \/ \E r \in posted : r.call = call /\ r.share.id = share.id
      BY <3>1 DEF IInv, WaitInv
    <3>3. ASSUME NEW requests \in SUBSET posted, Served(requests) PROVE Served(requests)'
      BY <1>1, <1>2, <2>1, <2>2, <3>2, <3>3 DEF Served
    <3>4. CASE ~(request.call = call /\ pc = "waiting")
      <4>1. answer' = answer
        BY <2>1, <3>4
      <4>2. (pc = "posting" => Served(posted)') /\ (pc = "waiting" /\ answer = "204" => Served(posted)')
        BY <2>1, <3>2, <3>3 DEF Served
      <4>3. ASSUME NEW w \in posted, w.call = call, Served(posted \ {w})
            PROVE  w \in posted' /\ w.call = call' /\ Served(posted \ {w})'
        BY <2>1, <3>3, <4>3
      <4>4. (pc = "waiting" /\ answer = None =>
               \E w \in posted : w.call = call /\ Served(posted \ {w}))'
        BY <2>1, <3>2, <4>1, <4>3
      <4>5. (pc = "waiting" /\ answer # None => \A r \in inFlight : r.call # call)'
        BY <2>1, <3>2, <4>1
      <4>6. QED
        BY <2>1, <3>2, <4>1, <4>2, <4>4, <4>5 DEF WaitInv
    <3>5. CASE request.call = call /\ pc = "waiting"
      <4>1. answer = None
        BY <3>2, <3>5
      <4>2. PICK w \in posted : w.call = call /\ Served(posted \ {w})
        BY <3>2, <3>5, <4>1
      <4>3. w = request
        BY <2>1, <3>5, <4>2 DEF Served
      <4>4. \A r \in posted \ {request} : r.call = call => executed[call][r.share.id] = 1
        BY <4>2, <4>3 DEF Served
      <4>5. \A r \in inFlight' : r.call # call
        <5>1. ASSUME NEW r \in inFlight, r # request, r.call = call PROVE FALSE
          <6>1. executed[call][r.share.id] = 1
            BY <1>1, <4>4, <5>1
          <6>2. executed[call][r.share.id] = 0
            BY <5>1, Unserved
          <6>3. QED
            BY <6>1, <6>2
        <5>2. QED
          BY <1>8, <5>1 DEF Serve
      <4>6. CASE executed' = executed /\ answer' = "refused"
        <5>1. "refused" # "204"
          OBVIOUS
        <5>2. QED
          BY <2>1, <3>2, <3>5, <4>5, <4>6, <5>1, NoneAssumption DEF WaitInv
      <4>7. CASE executed'[request.call][request.share.id] = 1 /\ answer' = "204"
        <5>1. \A r \in posted : r.call = call => executed'[call][r.share.id] = 1
          BY <1>1, <1>2, <2>2, <3>2, <3>5, <4>4, <4>7
        <5>2. Served(posted)'
          BY <2>1, <5>1 DEF Served
        <5>3. QED
          BY <2>1, <3>2, <3>5, <4>5, <4>7, <5>2, NoneAssumption DEF WaitInv
      <4>8. QED
        BY <1>1, <2>1, <3>5, <4>6, <4>7
    <3>6. QED
      BY <3>4, <3>5
  <2>6. QED
    BY <2>4, <2>5
<1>9. QED
  BY <1>4, <1>5, <1>6, <1>7, <1>8, Actions DEF Posting

--------------------------------------------------------------------------------
(* The theorems. *)

LEMMA InitIInv == Init => IInv
<1> SUFFICES ASSUME Init PROVE IInv
  OBVIOUS
<1>1. TypeOK
  <2>1. 0 \in 0 .. MaxCalls /\ 1 \in Nat \ {0}
    BY ListAssumption
  <2>2. <<>> \in Seq(Group) /\ <<>> \in Seq(Share)
    OBVIOUS
  <2>3. /\ [n \in Call |-> "none"] \in [Call -> {"none", "refused", "failed", "ok"}]
        /\ [n \in Call |-> [id \in ShockerId |-> 0]] \in [Call -> [ShockerId -> Nat]]
        /\ [n \in Call |-> {}] \in [Call -> SUBSET Share]
    OBVIOUS
  <2>4. QED
    BY <2>1, <2>2, <2>3 DEF Init, TypeOK
<1>2. MergeInv /\ WaitInv /\ SelectedChecked /\ OkIsEveryShocker /\ CheckedBeforePost
  BY DEF Init, MergeInv, WaitInv, SelectedChecked, OkIsEveryShocker, CheckedBeforePost
<1>3. PostInv /\ AtMostOnce
  BY DEF Init, PostInv, AtMostOnce
<1>4. ListingComplete
  <2>1. Range(<<>>) = {} /\ Len(<<>>) = 0
    BY DEF Range
  <2>2. QED
    BY <2>1 DEF Init, ListingComplete, Complete
<1>5. QED
  BY <1>1, <1>2, <1>3, <1>4 DEF IInv

LEMMA StepIInv == IInv /\ [Next]_vars => IInv'
<1>1. ASSUME IInv, Next PROVE IInv'
  BY <1>1, TypeStep, ListingStep, PostStep, CheckStep, WaitStep DEF IInv
<1>2. ASSUME IInv, UNCHANGED vars PROVE IInv'
  <2>1. UNCHANGED <<pc, groups, shares, next, devices, call, command, selected, answer, inFlight,
                    result, executed, target, posted, listed>>
    BY <1>2 DEF vars, listVars, mergeVars, callVars
  <2>2. TypeOK' /\ MergeInv' /\ ListingComplete'
    <3>1. TypeOK'
      BY <1>2, <2>1 DEF IInv, TypeOK
    <3>2. MergeInv'
      BY <1>2, <2>1 DEF IInv, MergeInv
    <3>3. ListingComplete'
      BY <1>2, <2>1 DEF IInv, ListingComplete
    <3>4. QED
      BY <3>1, <3>2, <3>3
  <2>3. PostInv' /\ AtMostOnce' /\ OkIsEveryShocker'
    BY <1>2, <2>1 DEF IInv, PostInv, AtMostOnce, OkIsEveryShocker
  <2>4. Served(posted)' = Served(posted) /\ \A w : Served(posted \ {w})' = Served(posted \ {w})
    BY <2>1 DEF Served
  <2>5. WaitInv'
    BY <1>2, <2>1, <2>4 DEF IInv, WaitInv, Served
  <2>6. SelectedChecked' /\ CheckedBeforePost'
    BY <1>2, <2>1 DEF IInv, SelectedChecked, Checked, CheckedBeforePost
  <2>7. QED
    BY <2>2, <2>3, <2>5, <2>6 DEF IInv
<1>3. QED
  BY <1>1, <1>2

LEMMA Invariant == Spec => []IInv
BY InitIInv, StepIInv, PTL DEF Spec

\* The variables of the client keep their types, whatever is listed and commanded.
THEOREM TypeCorrect == Spec => []TypeOK
<1>1. IInv => TypeOK
  BY DEF IInv
<1>2. QED
  BY <1>1, Invariant, PTL

\* A listing loses no share and shows none twice, however the two answers disagree.
THEOREM ListingCorrect == Spec => []ListingComplete
<1>1. IInv => ListingComplete
  BY DEF IInv
<1>2. QED
  BY <1>1, Invariant, PTL

\* A call operates no shocker twice, however many shares a shocker has and however its
\* POSTs end.
THEOREM OnceCorrect == Spec => []AtMostOnce
<1>1. IInv => AtMostOnce
  BY DEF IInv
<1>2. QED
  BY <1>1, Invariant, PTL

\* A call says ok only when every shocker it was for carried the command out.
THEOREM OkCorrect == Spec => []OkIsEveryShocker
<1>1. IInv => OkIsEveryShocker
  BY DEF IInv
<1>2. QED
  BY <1>1, Invariant, PTL

\* Nothing is posted for a group before each of its shockers has one share that permits
\* the whole command.
THEOREM CheckedCorrect == Spec => []CheckedBeforePost
<1>1. IInv => CheckedBeforePost
  BY DEF IInv
<1>2. QED
  BY <1>1, Invariant, PTL
================================================================================
