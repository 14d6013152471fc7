---------------------------- MODULE RuleManager ----------------------------
(***************************************************************************)
(* src/rule_manager.cpp: the blocking rules, shared by all fast paths and  *)
(* changed by other threads while packets are checked.  There are four     *)
(* kinds of rules, each under a shared mutex of its own.  One acquisition  *)
(* of one mutex is one step, so blocking or unblocking something is        *)
(* atomic; the check of a packet (shouldBlock, and FastPath::shouldDrop,   *)
(* which does the same) and clearAll take the four mutexes one after       *)
(* another, and the rules may change in between.                           *)
(*                                                                         *)
(* A domain is its sequence of labels as normalizeDomain leaves it: lower  *)
(* case, no dots or blanks at the end; the empty domain has no label.      *)
(***************************************************************************)
EXTENDS Naturals, Sequences, FiniteSets, SequencesExt

CONSTANTS
  Address, App, Port,  (* what the rules of three kinds are about          *)
  Text,                (* the domains that rules are made of               *)
  Wild,                (* the labels that contain an asterisk              *)
  Query,               (* what checks ask for: the address, application,   *)
                       (* host and port of a packet                        *)
  Client,              (* the threads that check packets or clear rules    *)
  Ops,                 (* the changes made: "block", "unblock", "clear"    *)
  MaxPatterns          (* bound on the length of domain_patterns_          *)

ASSUME RuleAssumption ==
  /\ Query # {}
  /\ Text \subseteq Seq(STRING)
  /\ Query \subseteq [ip : Address, app : App, domain : Seq(STRING), port : Port]
  /\ Ops \subseteq {"block", "unblock", "clear"}
  /\ MaxPatterns \in Nat

VARIABLES
  blocked_ips_, blocked_apps_, blocked_domains_, domain_patterns_, blocked_ports_,
  doing,      (* doing[c]: the call of client c, "nothing" between calls   *)
  section,    (* section[c]: the kind whose mutex it takes next            *)
  query,      (* query[c]: what its check asks for                         *)
  reason,     (* reason[c]: the kind of rule its check has found, or None  *)
  (* History, for the calls in progress.                                   *)
  stood,      (* stood[c]: the rules in force all the time since it began  *)
  ever        (* ever[c]: the rules in force at some time since it began   *)

rules  == <<blocked_ips_, blocked_apps_, blocked_domains_, domain_patterns_,
            blocked_ports_>>
calls  == <<doing, section, query, reason>>
vars   == <<rules, calls, stood, ever>>

(* BlockReason::Type, in the order of the checks; Done ends a call.        *)
IP          == 1
APP         == 2
DOMAIN_RULE == 3
PORT        == 4
Done        == 5
None        == 0
Kinds == IP..PORT

----------------------------------------------------------------------------
(* Matching.                                                               *)

IsPattern(text) == \E k \in DOMAIN text : text[k] \in Wild

(* Equal, or a subdomain; a dot in front alone does not make a subdomain.  *)
domainMatchesBaseDomain(name, base) ==
  /\ name # <<>> /\ base # <<>>
  /\ IsSuffix(base, name)
  /\ name # <<"">> \o base

(* Only an asterisk that is the whole first label means something.         *)
domainMatchesPattern(name, text) ==
  /\ Len(text) >= 2 /\ text[1] = "*"
  /\ IsSuffix(Tail(text), name)

MatchesText(name, text) ==
  IF IsPattern(text) THEN domainMatchesPattern(name, text)
                     ELSE domainMatchesBaseDomain(name, text)

(* A rule is its kind and its value.                                       *)
Matches(rule, q) ==
  \/ rule[1] = IP   /\ q.ip = rule[2]
  \/ rule[1] = APP  /\ q.app = rule[2]
  \/ rule[1] = PORT /\ q.port = rule[2]
  \/ rule[1] = DOMAIN_RULE /\ q.domain # <<>> /\ MatchesText(q.domain, rule[2])

InForce ==
  ({IP} \X blocked_ips_) \cup ({APP} \X blocked_apps_)
    \cup ({DOMAIN_RULE} \X (blocked_domains_ \cup Range(domain_patterns_)))
    \cup ({PORT} \X blocked_ports_)

(* Wrong: forgets the patterns.                                            *)
FoundNoPattern(kind, q) ==
  \/ kind = IP   /\ q.ip \in blocked_ips_
  \/ kind = APP  /\ q.app \in blocked_apps_
  \/ kind = PORT /\ q.port \in blocked_ports_
  \/ /\ kind = DOMAIN_RULE /\ q.domain # <<>>
     /\ \E d \in blocked_domains_ : domainMatchesBaseDomain(q.domain, d)

(* isIPBlocked, isAppBlocked, isDomainBlocked, isPortBlocked.              *)
Found(kind, q) ==
  \/ kind = IP   /\ q.ip \in blocked_ips_
  \/ kind = APP  /\ q.app \in blocked_apps_
  \/ kind = PORT /\ q.port \in blocked_ports_
  \/ /\ kind = DOMAIN_RULE /\ q.domain # <<>>
     /\ \/ \E d \in blocked_domains_ : domainMatchesBaseDomain(q.domain, d)
        \/ \E p \in Range(domain_patterns_) : domainMatchesPattern(q.domain, p)

(* What the query of a client is between its calls, when nobody reads it.  *)
NoQuery == CHOOSE q \in Query : TRUE

----------------------------------------------------------------------------
Init ==
  /\ blocked_ips_ = {} /\ blocked_apps_ = {} /\ blocked_ports_ = {}
  /\ blocked_domains_ = {} /\ domain_patterns_ = <<>>
  /\ doing   = [c \in Client |-> "nothing"]
  /\ section = [c \in Client |-> Done]
  /\ query   = [c \in Client |-> NoQuery]
  /\ reason  = [c \in Client |-> None]
  /\ stood   = [c \in Client |-> {}]
  /\ ever    = [c \in Client |-> {}]

----------------------------------------------------------------------------
(* Changes of single rules, atomic.                                        *)

(* The history of the calls in progress after the rules have changed.      *)
Observe ==
  /\ stood' = [c \in Client |-> stood[c] \cap InForce']
  /\ ever'  = [c \in Client |-> IF doing[c] = "nothing" THEN {}
                               ELSE ever[c] \cup InForce']

blockIP(a) ==
  /\ blocked_ips_' = blocked_ips_ \cup {a}
  /\ UNCHANGED <<blocked_apps_, blocked_domains_, domain_patterns_, blocked_ports_>>

unblockIP(a) ==
  /\ blocked_ips_' = blocked_ips_ \ {a}
  /\ UNCHANGED <<blocked_apps_, blocked_domains_, domain_patterns_, blocked_ports_>>

blockApp(a) ==
  /\ blocked_apps_' = blocked_apps_ \cup {a}
  /\ UNCHANGED <<blocked_ips_, blocked_domains_, domain_patterns_, blocked_ports_>>

unblockApp(a) ==
  /\ blocked_apps_' = blocked_apps_ \ {a}
  /\ UNCHANGED <<blocked_ips_, blocked_domains_, domain_patterns_, blocked_ports_>>

blockPort(n) ==
  /\ blocked_ports_' = blocked_ports_ \cup {n}
  /\ UNCHANGED <<blocked_ips_, blocked_apps_, blocked_domains_, domain_patterns_>>

unblockPort(n) ==
  /\ blocked_ports_' = blocked_ports_ \ {n}
  /\ UNCHANGED <<blocked_ips_, blocked_apps_, blocked_domains_, domain_patterns_>>

(* Wrong: takes a pattern for a domain.                                    *)
blockDomainLiterally(text) ==
  /\ blocked_domains_' = blocked_domains_ \cup {text}
  /\ UNCHANGED <<blocked_ips_, blocked_apps_, domain_patterns_, blocked_ports_>>

(* A pattern that is already there is added once more.                     *)
blockDomain(text) ==
  /\ IF IsPattern(text)
     THEN /\ Len(domain_patterns_) < MaxPatterns
          /\ domain_patterns_' = Append(domain_patterns_, text)
          /\ UNCHANGED blocked_domains_
     ELSE /\ blocked_domains_' = blocked_domains_ \cup {text}
          /\ UNCHANGED domain_patterns_
  /\ UNCHANGED <<blocked_ips_, blocked_apps_, blocked_ports_>>

(* Only the first occurrence of a pattern is removed.                      *)
unblockDomain(text) ==
  /\ IF IsPattern(text)
     THEN /\ domain_patterns_' = RemoveFirst(domain_patterns_, text)
          /\ UNCHANGED blocked_domains_
     ELSE /\ blocked_domains_' = blocked_domains_ \ {text}
          /\ UNCHANGED domain_patterns_
  /\ UNCHANGED <<blocked_ips_, blocked_apps_, blocked_ports_>>

Block ==
  \/ \E a \in Address : blockIP(a)
  \/ \E a \in App : blockApp(a)
  \/ \E text \in Text : blockDomain(text)
  \/ \E n \in Port : blockPort(n)

Unblock ==
  \/ \E a \in Address : unblockIP(a)
  \/ \E a \in App : unblockApp(a)
  \/ \E text \in Text : unblockDomain(text)
  \/ \E n \in Port : unblockPort(n)

ChangeRule ==
  /\ \/ "block" \in Ops /\ Block
     \/ "unblock" \in Ops /\ Unblock
  /\ Observe
  /\ UNCHANGED calls

----------------------------------------------------------------------------
(* Calls that take the four mutexes in turn.                               *)

Begin(c, call, q) ==
  /\ doing[c] = "nothing"
  /\ doing'   = [doing EXCEPT ![c] = call]
  /\ section' = [section EXCEPT ![c] = IP]
  /\ query'   = [query EXCEPT ![c] = q]
  /\ stood'   = [stood EXCEPT ![c] = InForce]
  /\ ever'    = [ever EXCEPT ![c] = InForce]
  /\ UNCHANGED <<rules, reason>>

End(c) ==
  /\ doing[c] # "nothing" /\ section[c] = Done
  /\ doing'  = [doing EXCEPT ![c] = "nothing"]
  /\ query'  = [query EXCEPT ![c] = NoQuery]
  /\ reason' = [reason EXCEPT ![c] = None]
  /\ stood'  = [stood EXCEPT ![c] = {}]
  /\ ever'   = [ever EXCEPT ![c] = {}]
  /\ UNCHANGED <<rules, section>>

(* One kind of rules is looked up, unless an earlier one has decided.      *)
CheckSection(c) ==
  /\ doing[c] = "check" /\ section[c] # Done
  /\ IF Found(section[c], query[c])
     THEN /\ reason'  = [reason EXCEPT ![c] = section[c]]
          /\ section' = [section EXCEPT ![c] = Done]
     ELSE /\ section' = [section EXCEPT ![c] = @ + 1]
          /\ UNCHANGED reason
  /\ UNCHANGED <<rules, doing, query, stood, ever>>

(* Wrong: forgets the patterns.                                            *)
ClearSectionNoPattern(c) ==
  /\ doing[c] = "clear" /\ section[c] # Done
  /\ blocked_ips_'     = IF section[c] = IP   THEN {} ELSE blocked_ips_
  /\ blocked_apps_'    = IF section[c] = APP  THEN {} ELSE blocked_apps_
  /\ blocked_ports_'   = IF section[c] = PORT THEN {} ELSE blocked_ports_
  /\ blocked_domains_' = IF section[c] = DOMAIN_RULE THEN {} ELSE blocked_domains_
  /\ UNCHANGED domain_patterns_
  /\ section' = [section EXCEPT ![c] = @ + 1]
  /\ Observe
  /\ UNCHANGED <<doing, query, reason>>

(* clearAll empties one kind of rules after the other.                     *)
ClearSection(c) ==
  /\ doing[c] = "clear" /\ section[c] # Done
  /\ blocked_ips_'     = IF section[c] = IP   THEN {} ELSE blocked_ips_
  /\ blocked_apps_'    = IF section[c] = APP  THEN {} ELSE blocked_apps_
  /\ blocked_ports_'   = IF section[c] = PORT THEN {} ELSE blocked_ports_
  /\ blocked_domains_' = IF section[c] = DOMAIN_RULE THEN {} ELSE blocked_domains_
  /\ domain_patterns_' = IF section[c] = DOMAIN_RULE THEN <<>> ELSE domain_patterns_
  /\ section' = [section EXCEPT ![c] = @ + 1]
  /\ Observe
  /\ UNCHANGED <<doing, query, reason>>

BeginClear(c) == "clear" \in Ops /\ Begin(c, "clear", NoQuery)

Next ==
  \/ ChangeRule
  \/ \E c \in Client : \/ \E q \in Query : Begin(c, "check", q)
                       \/ CheckSection(c)
                       \/ BeginClear(c) \/ ClearSection(c)
                       \/ End(c)

Spec == Init /\ [][Next]_vars

----------------------------------------------------------------------------
(* Properties.                                                             *)

Rule == ({IP} \X Address) \cup ({APP} \X App) \cup ({DOMAIN_RULE} \X Text)
          \cup ({PORT} \X Port)

RulesOK ==
  /\ blocked_ips_ \subseteq Address /\ blocked_apps_ \subseteq App
  /\ blocked_ports_ \subseteq Port  /\ blocked_domains_ \subseteq Text
  /\ domain_patterns_ \in Seq(Text)
  /\ \A d \in blocked_domains_ : ~IsPattern(d)
  /\ \A d \in Range(domain_patterns_) : IsPattern(d)

CallsOK ==
  /\ doing   \in [Client -> {"nothing", "check", "clear"}]
  /\ section \in [Client -> IP..Done]
  /\ query   \in [Client -> Query]
  /\ reason  \in [Client -> Kinds \cup {None}]
  /\ stood   \in [Client -> SUBSET Rule]
  /\ ever    \in [Client -> SUBSET Rule]
  /\ \A c \in Client :
       /\ doing[c] = "nothing" => stood[c] = {} /\ ever[c] = {}
       /\ doing[c] # "check"   => reason[c] = None

(* Types, that patterns and names are kept apart, and that nothing is      *)
(* tracked for a client between its calls.                                 *)
TypeOK == RulesOK /\ CallsOK

Checked(c) == doing[c] = "check" /\ section[c] = Done

(* What a check of a packet answers while other threads change the rules:  *)
(* a packet is blocked only for a rule that matches it and was in force at *)
(* some moment of the check, and neither passes a matching rule that was   *)
(* in force all the time nor is blocked for a kind that comes after it.    *)
CheckRegular ==
  \A c \in Client : Checked(c) =>
    /\ reason[c] # None =>
         \E r \in ever[c] : r[1] = reason[c] /\ Matches(r, query[c])
    /\ \A r \in stood[c] :
         Matches(r, query[c]) => reason[c] # None /\ reason[c] <= r[1]

(* No rule survives clearAll: whatever is in force when it returns was not *)
(* in force at some moment of the call, so another thread has set it since.*)
ClearRegular ==
  \A c \in Client : doing[c] = "clear" /\ section[c] = Done => stood[c] = {}

=============================================================================
