----------------------------- MODULE AuthSync -----------------------------
(***************************************************************************)
(* Reconciles of ChannelAuthRule and AuthorityRecord resources at the      *)
(* grain of the MQSC commands they send.  The rules all belong to one      *)
(* channel, where the queue manager tells rules apart by their type and    *)
(* the address, user, peer or queue manager they match; GET asks for one   *)
(* of these only and takes all rules of the answer for one.                *)
(***************************************************************************)
EXTENDS AttributeMapping, FiniteSetsExt

CONSTANTS
    Rules,          \* the ChannelAuthRule resources
    RuleSpecs,      \* the specs users write
    AuthorityLists, \* the lists of authorities users write in an AuthorityRecord
    MaxChanges      \* bound: how often users, administrators and faults interfere

ASSUME BoundAssumption == MaxChanges \in Nat

VARIABLES
    world,      \* "rules" or "authority"
    spec,       \* the spec of each rule
    status,     \* its condition: "none", "Synced" or "Error"
    r,          \* its reconcile: where it is, the spec it works on, what GET returned
    chlauth,    \* the rules the queue manager has
    disturbed,  \* history: the spec or its rule was changed by others since the GET
    mixed,      \* history: GET answered with several rules, and no SET followed
    list,       \* the authorities of the record
    oam,        \* the authorities the queue manager has granted
    record,     \* the record's reconcile: where it is and what GET returned
    changes     \* how often there was interference

ruleVars      == <<spec, status, r, chlauth, disturbed, mixed>>
authorityVars == <<list, oam, record>>
vars          == <<world, ruleVars, authorityVars, changes>>

RuleTypes == {"ADDRESSMAP", "USERMAP", "SSLPEERMAP", "QMGRMAP", "BLOCKUSER", "BLOCKADDR"}

\* The fields of a ChannelAuthSpec, by their MQSC keywords.
KeyFields == {"address", "clntuser", "sslpeer", "qmname"}

RuleFields == KeyFields \cup {"userlist", "usersrc", "mcauser", "chckclnt", "descr"}

ASSUME RuleSpecsAssumption ==
    /\ RuleSpecs # {}
    /\ \A s \in RuleSpecs :
          /\ s.type \in RuleTypes
          /\ DOMAIN s.fields = RuleFields
          /\ \A f \in RuleFields : IsText(s.fields[f])

NotFound == [found |-> FALSE]

\* The ways to list the members of a finite set, each once.
Listings(S) == Bijection(1 .. Cardinality(S), S)

-----------------------------------------------------------------------------
(***************************************************************************)
(* The commands                                                            *)
(***************************************************************************)

\* The clauses that say which rule is meant; a field of another type is left out.
KeyClauses(s) ==
    {f \in KeyFields :
        /\ s.fields[f] # Empty
        /\ f = "clntuser" => s.type = "USERMAP"
        /\ f = "sslpeer" => s.type = "SSLPEERMAP"
        /\ f = "qmname" => s.type = "QMGRMAP"}

\* SET CHLAUTH ... ACTION(REPLACE).  The address is the ADDRLIST of a BLOCKADDR.
buildSetChannelAuthMQSC(s) ==
    LET given == KeyClauses(s) \cup {f \in RuleFields \ KeyFields : s.fields[f] # Empty}
        plain == [f \in given |-> s.fields[f]]
    IN  [type |-> s.type,
         clauses |-> IF s.type = "BLOCKADDR" /\ "address" \in given
                     THEN Without(With(plain, "addrlist", plain["address"]), "address")
                     ELSE plain]

\* The clause by which DISPLAY CHLAUTH picks rules; no clause, no choice.
buildDisplayChannelAuthMQSC(s) ==
    CASE s.type = "BLOCKADDR"                                    -> {}
      [] s.type = "USERMAP" /\ s.fields["clntuser"] # Empty      -> {"clntuser"}
      [] s.type = "SSLPEERMAP" /\ s.fields["sslpeer"] # Empty    -> {"sslpeer"}
      [] s.type = "QMGRMAP" /\ s.fields["qmname"] # Empty        -> {"qmname"}
      [] OTHER -> IF s.fields["address"] # Empty THEN {"address"} ELSE {}

\* The attributes of all objects of the answer in one map: where several have an
\* attribute, the last one counts.
MergedAttributes(answer) ==
    [f \in UNION {DOMAIN answer[i] : i \in DOMAIN answer} |->
        answer[Max({i \in DOMAIN answer : f \in DOMAIN answer[i]})][f]]

\* Mutant: only the attributes of the answer are in the state.
channelAuthStateFromAttributesPartial(s, attrs) == [f \in RuleFields \cap DOMAIN attrs |-> attrs[f]]

channelAuthStateFromAttributes(s, attrs) ==
    [f \in RuleFields |->
        IF f = "address" /\ s.type = "BLOCKADDR" /\ At(attrs, "addrlist") # Empty
        THEN attrs["addrlist"] ELSE At(attrs, f)]

SameText(s, t) == EqualFold(TrimSpace(s), TrimSpace(t))

\* Mutant: an attribute that the spec leaves out is compared as well.
ChannelAuthNeedsUpdateAll(s, observed) ==
    \/ \E f \in RuleFields \ {"descr"} : ~SameText(s.fields[f], observed[f])
    \/ /\ TrimSpace(observed["descr"]) # Empty
       /\ TrimSpace(s.fields["descr"]) # TrimSpace(observed["descr"])

\* Mutant: the fields that say which rule is meant are not compared.
ChannelAuthNeedsUpdateNoKey(s, observed) ==
    \/ \E f \in {"mcauser", "usersrc", "chckclnt"} :
          TrimSpace(s.fields[f]) # Empty /\ ~SameText(s.fields[f], observed[f])
    \/ /\ TrimSpace(observed["descr"]) # Empty
       /\ TrimSpace(s.fields["descr"]) # TrimSpace(observed["descr"])

ChannelAuthNeedsUpdate(s, observed) ==
    \/ \E f \in KeyFields \cup {"userlist"} : ~SameText(s.fields[f], observed[f])
    \/ \E f \in {"mcauser", "usersrc", "chckclnt"} :
          TrimSpace(s.fields[f]) # Empty /\ ~SameText(s.fields[f], observed[f])
    \/ /\ TrimSpace(observed["descr"]) # Empty
       /\ TrimSpace(s.fields["descr"]) # TrimSpace(observed["descr"])

-----------------------------------------------------------------------------
(***************************************************************************)
(* The queue manager                                                       *)
(***************************************************************************)

\* A SET with a clause that the rule's type does not have is refused.
ClausesOf(t) ==
    CASE t = "BLOCKUSER" -> {"userlist", "descr"}
      [] t = "BLOCKADDR" -> {"addrlist", "descr"}
      [] OTHER -> RuleFields \ {"userlist"}

\* What tells rules of a channel apart.
Identity(rule) ==
    [type |-> rule.type,
     match |-> [f \in DOMAIN rule.clauses \cap KeyFields |-> rule.clauses[f]]]

\* The rules match the same connections, but for the case of the letters.
SameMatch(a, b) ==
    a.type = b.type /\ \A f \in KeyFields : SameText(At(a.clauses, f), At(b.clauses, f))

SetRule(rules, rule) == {x \in rules : Identity(x) # Identity(rule)} \cup {rule}

\* The rules DISPLAY returns for s.
Matching(s) ==
    {x \in chlauth :
        /\ x.type = s.type
        /\ \A f \in buildDisplayChannelAuthMQSC(s) : At(x.clauses, f) = s.fields[f]}

\* The attributes of a rule: CHCKCLNT and USERSRC have defaults, DESCR may be
\* left out of the answer.
Shown(rule, withDescr) ==
    LET all == [f \in DOMAIN rule.clauses \cup (ClausesOf(rule.type) \cap {"chckclnt", "usersrc"}) |->
                   IF f \in DOMAIN rule.clauses THEN rule.clauses[f] ELSE Word("default", {"caps"})]
    IN  IF withDescr THEN all ELSE Without(all, "descr")

-----------------------------------------------------------------------------
(***************************************************************************)
(* Reconciles of rules                                                     *)
(***************************************************************************)

Idle == [pc |-> "idle", want |-> "none", seen |-> NotFound]

\* The rules of the answer, in whatever order they come, are taken for one.
GetChannelAuth(c) ==
    /\ world = "rules" /\ r[c].pc = "idle"
    /\ UNCHANGED <<world, spec, status, chlauth, authorityVars, changes>>
    /\ disturbed' = [disturbed EXCEPT ![c] = FALSE]
    /\ mixed' = [mixed EXCEPT ![c] = \E x, y \in Matching(spec[c]) : x # y]
    /\ \/ /\ Matching(spec[c]) = {}
          /\ r' = [r EXCEPT ![c] = [pc |-> "ensure", want |-> spec[c], seen |-> NotFound]]
       \/ /\ Matching(spec[c]) # {}
          /\ \E withDescr \in BOOLEAN :
             \E answer \in Listings({Shown(x, withDescr) : x \in Matching(spec[c])}) :
                LET attrs == MergedAttributes(answer)
                    state == channelAuthStateFromAttributes(spec[c], attrs)
                IN  r' = [r EXCEPT ![c] = [pc |-> "ensure", want |-> spec[c],
                                           seen |-> [found |-> TRUE, state |-> state]]]

\* The SET of a rule by c disturbs the resources that match the same.
Disturb(c, set, rule) ==
    [d \in Rules |->
        disturbed[d] \/ (set /\ d # c /\ SameMatch(buildSetChannelAuthMQSC(spec[d]), rule))]

\* The rest of ensureChannelAuth, with the policy Adopt and no observe-only.
ensureChannelAuth(c) ==
    /\ r[c].pc = "ensure"
    /\ LET needsUpdate ==
               r[c].seen.found => ChannelAuthNeedsUpdate(r[c].want, r[c].seen.state)
           rule    == buildSetChannelAuthMQSC(r[c].want)
           refused == needsUpdate /\ ~(DOMAIN rule.clauses \subseteq ClausesOf(rule.type))
       IN  /\ chlauth' = IF needsUpdate /\ ~refused THEN SetRule(chlauth, rule) ELSE chlauth
           /\ status' = [status EXCEPT ![c] = IF refused THEN "Error" ELSE "Synced"]
           /\ disturbed' = Disturb(c, chlauth' # chlauth, rule)
           /\ mixed' = [mixed EXCEPT ![c] = @ /\ ~needsUpdate]
    /\ r' = [r EXCEPT ![c] = Idle]
    /\ UNCHANGED <<world, spec, authorityVars, changes>>

Interfere == changes < MaxChanges /\ changes' = changes + 1

\* The GET fails, or the SET does, carried out or not.
CommandFails(c) ==
    /\ Interfere /\ world = "rules"
    /\ LET rule == buildSetChannelAuthMQSC(r[c].want)
       IN  \/ UNCHANGED <<chlauth, disturbed>>
           \/ /\ r[c].pc = "ensure"
              /\ r[c].seen.found => ChannelAuthNeedsUpdate(r[c].want, r[c].seen.state)
              /\ DOMAIN rule.clauses \subseteq ClausesOf(rule.type)
              /\ chlauth' = SetRule(chlauth, rule)
              /\ disturbed' = Disturb(c, TRUE, rule)
    /\ r' = [r EXCEPT ![c] = Idle]
    /\ status' = [status EXCEPT ![c] = "Error"]
    /\ UNCHANGED <<world, spec, mixed, authorityVars>>

EditRule(c) ==
    /\ Interfere /\ world = "rules"
    /\ \E s \in RuleSpecs \ {spec[c]} : spec' = [spec EXCEPT ![c] = s]
    /\ disturbed' = [disturbed EXCEPT ![c] = TRUE]
    /\ UNCHANGED <<world, status, r, chlauth, mixed, authorityVars>>

\* An administrator removes a rule.
RemoveRule ==
    /\ Interfere /\ world = "rules"
    /\ \E x \in chlauth : chlauth' = chlauth \ {x}
    /\ disturbed' = [c \in Rules |-> TRUE]
    /\ UNCHANGED <<world, spec, status, r, mixed, authorityVars>>

-----------------------------------------------------------------------------
(***************************************************************************)
(* Authority lists.  n is the place of a word in the alphabet.             *)
(***************************************************************************)

Authority(n, style) == [word |-> "authority", n |-> n, style |-> style]

\* A list as the CRD admits it: no item is blank.
IsAuthorityList(l) ==
    /\ Len(l) \in Nat /\ DOMAIN l = 1 .. Len(l)
    /\ \A i \in DOMAIN l :
          /\ l[i] = Authority(l[i].n, l[i].style)
          /\ l[i].n \in Nat
          /\ l[i].style \subseteq {"caps", "spaces"}

ASSUME AuthorityListsAssumption == \A l \in AuthorityLists : IsAuthorityList(l)

\* The authorities a list names.
AuthoritiesOf(l) == {l[i].n : i \in DOMAIN l}

\* The words of l that are not blank, in capital letters and in the order of the
\* alphabet.
normalizeAuthoritySet(l) ==
    LET words == {i \in DOMAIN l : TrimSpace(l[i]) # Empty}
        order == CHOOSE p \in Listings(words) :
                    \A i, j \in DOMAIN p : i < j => l[p[i]].n <= l[p[j]].n
    IN  [i \in DOMAIN order |-> ToUpper(TrimSpace(l[order[i]]))]

\* Mutant: the lists are compared in the order they come in.
authoritySetsEqualUnsorted(a, b) ==
    IF Len(a) = Len(b) /\ \A i \in DOMAIN a : EqualFold(a[i], b[i]) THEN "yes" ELSE "no"

\* The loop runs over the first list and stops at the first difference; it
\* panics when it gets past the end of the second.
authoritySetsEqual(a, b) ==
    LET na == normalizeAuthoritySet(a)
        nb == normalizeAuthoritySet(b)
        differ == {i \in DOMAIN na : i > Len(nb) \/ na[i] # nb[i]}
    IN  IF Len(a) # Len(b) THEN "no"
        ELSE IF differ = {} THEN "yes"
        ELSE IF Min(differ) > Len(nb) THEN "panic" ELSE "no"

-----------------------------------------------------------------------------
(***************************************************************************)
(* Reconciles of an authority record                                       *)
(***************************************************************************)

\* DISPLAY AUTHREC lists what is granted in any order, in lower case; a record
\* without grants is one that is not there.
GetAuthority ==
    /\ world = "authority" /\ record.pc = "idle"
    /\ \E order \in Listings(oam) :
          LET listed == [i \in DOMAIN order |-> Authority(order[i], {})]
          IN  record' = [pc |-> "ensure", verdict |-> "none",
                         seen |-> IF listed = <<>> THEN NotFound
                                  ELSE [found |-> TRUE, listed |-> listed]]
    /\ UNCHANGED <<world, ruleVars, list, oam, changes>>

\* Mutant: SET is sent only for a record that is not there.
ensureAuthorityIfMissing ==
    /\ record.pc = "ensure"
    /\ LET equal == IF record.seen.found THEN authoritySetsEqual(list, record.seen.listed) ELSE "no"
       IN  /\ oam' = IF ~record.seen.found THEN oam \cup AuthoritiesOf(list) ELSE oam
           /\ record' = [record EXCEPT !.pc = "idle", !.verdict = equal]
    /\ UNCHANGED <<world, ruleVars, list, changes>>

\* SET AUTHREC ... AUTHADD adds what the spec names.
ensureAuthority ==
    /\ record.pc = "ensure"
    /\ LET equal == IF record.seen.found THEN authoritySetsEqual(list, record.seen.listed) ELSE "no"
       IN  /\ oam' = IF equal = "no" THEN oam \cup AuthoritiesOf(list) ELSE oam
           /\ record' = [record EXCEPT !.pc = "idle", !.verdict = equal]
    /\ UNCHANGED <<world, ruleVars, list, changes>>

\* An administrator takes authorities away or grants others.
AlterAuthority ==
    /\ Interfere /\ world = "authority" /\ record.pc = "idle"
    /\ oam' \in SUBSET UNION {AuthoritiesOf(l) : l \in AuthorityLists}
    /\ IsFiniteSet(oam')
    /\ UNCHANGED <<world, ruleVars, list, record>>

Init ==
    /\ \/ /\ world = "rules"
          /\ spec \in [Rules -> RuleSpecs]
          /\ list = <<>>
       \/ /\ world = "authority"
          /\ LET s == CHOOSE s \in RuleSpecs : TRUE IN spec = [c \in Rules |-> s]
          /\ list \in AuthorityLists
    /\ status = [c \in Rules |-> "none"]
    /\ r = [c \in Rules |-> Idle]
    /\ chlauth = {}
    /\ disturbed = [c \in Rules |-> FALSE]
    /\ mixed = [c \in Rules |-> FALSE]
    /\ oam = {}
    /\ record = [pc |-> "idle", verdict |-> "none", seen |-> NotFound]
    /\ changes = 0

Reconcile(c) == GetChannelAuth(c) \/ ensureChannelAuth(c)

Next ==
    \/ \E c \in Rules : Reconcile(c) \/ CommandFails(c) \/ EditRule(c)
    \/ RemoveRule \/ GetAuthority \/ ensureAuthority \/ AlterAuthority

Spec == Init /\ [][Next]_vars

\* Rules and records are reconciled again and again (resync and requeues).
FairSpec ==
    /\ Spec
    /\ \A c \in Rules : WF_vars(Reconcile(c))
    /\ WF_vars(GetAuthority \/ ensureAuthority)

-----------------------------------------------------------------------------
(***************************************************************************)
(* Properties                                                              *)
(***************************************************************************)

TypeOK ==
    /\ world \in {"rules", "authority"}
    /\ changes \in 0..MaxChanges
    /\ \A c \in Rules :
          /\ spec[c] \in RuleSpecs
          /\ status[c] \in {"none", "Synced", "Error"}
          /\ r[c] = Idle \/ (r[c].pc = "ensure" /\ r[c].want \in RuleSpecs)
          /\ r[c].seen.found => /\ DOMAIN r[c].seen.state = RuleFields
                                /\ \A f \in RuleFields : IsText(r[c].seen.state[f])
    /\ \A x \in chlauth : x.type \in RuleTypes /\ DOMAIN x.clauses \subseteq ClausesOf(x.type)
    /\ record.verdict \in {"none", "yes", "no", "panic"}

\* The rule x matches what s says and treats it as s says, but for the case of
\* the letters; a blank MCAUSER, USERSRC or CHCKCLNT says nothing.
Treats(x, s) ==
    LET rule == buildSetChannelAuthMQSC(s)
    IN  /\ x.type = rule.type
        /\ \A f \in (DOMAIN rule.clauses \cup KeyFields) \ {"descr"} :
              \/ SameText(At(rule.clauses, f), At(Shown(x, TRUE), f))
              \/ f \in {"mcauser", "usersrc", "chckclnt"} /\ TrimSpace(s.fields[f]) = Empty

\* Synced=True of a ChannelAuthRule: the queue manager has a rule that matches
\* what the spec says and treats it as the spec says, while other resources SET
\* rules of the channel.  The proviso is that GET did not take several rules for
\* one and find no difference in the mixture: a resource that SET its rule after
\* such a GET has it, one that had no reason to may be Synced without.
RuleSyncedMeansSet ==
    \A c \in Rules :
        (status[c] = "Synced" /\ r[c].pc = "idle" /\ ~disturbed[c] /\ ~mixed[c]) =>
            \E x \in chlauth : Treats(x, spec[c])

\* The specs every field of which ends in a clause that the rule's type has.
Applicable ==
    {s \in RuleSpecs :
        /\ KeyClauses(s) = {f \in KeyFields : s.fields[f] # Empty}
        /\ DOMAIN buildSetChannelAuthMQSC(s).clauses \subseteq ClausesOf(s.type)}

\* The pairs of specs that name the same rule.
SameRule ==
    {p \in RuleSpecs \X RuleSpecs :
        Identity(buildSetChannelAuthMQSC(p[1])) = Identity(buildSetChannelAuthMQSC(p[2]))}

\* No other resource names the rule that c names.
Sole(c) == \A d \in Rules \ {c} : <<spec[c], spec[d]>> \notin SameRule

\* authmatch.go, "empty desired means the operator does not manage that
\* attribute on SET": a rule whose fields belong to its type, that one resource
\* names and that DISPLAY answers with alone, becomes Synced and is not SET
\* again once it is left alone, though DISPLAY shows defaults the spec does not
\* name and may leave the description out.
RulesSettle ==
    \A c \in Rules :
        (/\ world = "rules"
         /\ <>[](spec[c] \in Applicable /\ Sole(c) /\ Cardinality(Matching(spec[c])) <= 1)) =>
            <>[](/\ status[c] = "Synced"
                 /\ r[c].pc = "ensure" =>
                       r[c].seen.found /\ ~ChannelAuthNeedsUpdate(r[c].want, r[c].seen.state))

\* ATTRIBUTE_RECONCILIATION, "spec.authorities set must match observed set
\* (case-insensitive, order-independent)": for a list that names no authority
\* twice the verdict is that of sets, whatever order DISPLAY answers in, and
\* the comparison never indexes past the end of a list.
AuthorityComparison ==
    /\ record.verdict # "panic"
    /\ (record.seen.found /\ Cardinality(AuthoritiesOf(list)) = Len(list)) =>
          /\ record.verdict = "yes" => AuthoritiesOf(list) = AuthoritiesOf(record.seen.listed)
          /\ record.verdict = "no" => AuthoritiesOf(list) # AuthoritiesOf(record.seen.listed)

\* A record that names no authority twice, and whose principal is granted
\* nothing else, comes to rest: the comparison finds what AUTHADD granted, in
\* whatever order it is listed.
AuthoritySettles ==
    (/\ world = "authority" /\ Cardinality(AuthoritiesOf(list)) = Len(list)
     /\ <>[](oam \subseteq AuthoritiesOf(list)))
        => <>[](record.pc = "idle" => record.verdict = "yes")
=============================================================================
