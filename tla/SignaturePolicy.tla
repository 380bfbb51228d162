---------------------------- MODULE SignaturePolicy ----------------------------
(***************************************************************************)
(* internal/chaincode/policy: FromString compiles a written policy in      *)
(* three evaluations.  The first turns And and Or into outof; the second   *)
(* adds the argument ID to every outof; the third builds the policy,       *)
(* appending the principals it meets to the context that ID is bound to    *)
(* and referring to them by number.                                        *)
(*                                                                         *)
(* A policy is the list of the calls its text denotes, in the order in     *)
(* which they are evaluated: arguments from left to right, inner calls     *)
(* before the outer one, which names them by their place in the list.      *)
(* What an evaluation prints is read back by the next, so that it rewrites *)
(* the list in place.  A text without a call is the empty list.            *)
(***************************************************************************)
EXTENDS Integers, Sequences, FiniteSets

CONSTANTS
  Principal,   \* what the regular expression accepts: ORG.ROLE
  Written      \* the policies to compile

(* Arguments.  A string that is no principal is printed without quotes; it *)
(* reads as a number or as a name, which no evaluation has a value for.    *)
Word      == [kind |-> "word"]
ID        == [kind |-> "ID"]
Number(t) == [kind |-> "number", tenths |-> t]   \* a float64, in tenths
Signed(p) == [kind |-> "principal", principal |-> p]
String(x) == [kind |-> "string", reads |-> x]
Nested(k) == [kind |-> "call", place |-> k]      \* the outcome of call k

Call(g, args) == [gate |-> g, args |-> args]

(* What the parser finds: gates; call k refers to earlier ones.            *)
Floats == [kind : {"number"}, tenths : Int]
Arguments(k) ==
  {Word} \cup Floats \cup [kind : {"principal"}, principal : Principal]
  \cup [kind : {"string"}, reads : {Word} \cup Floats]
  \cup [kind : {"call"}, place : 1..k - 1]
Parsed(p) ==
  /\ p \in Seq([gate : {"And", "Or", "OutOf"}, args : Seq(Arguments(Len(p)))])
  /\ \A k \in DOMAIN p : p[k].args \in Seq(Arguments(k))

VARIABLES
  written,      \* the policy string
  calls,        \* the text of the evaluation; at last, the policies it made
  pass,         \* the evaluation
  done,         \* the calls it has made
  rules,        \* the policies of the call under way, in the third
  IDNum,        \* the context: the identity counter,
  principals    \* and the identities

context == <<IDNum, principals>>
vars == <<written, calls, pass, done, rules, context>>

Init ==
  /\ written \in Written
  /\ calls = written /\ pass = "first" /\ done = 0 /\ rules = <<>>
  /\ IDNum = 0 /\ principals = <<>>

(* A call is made; FromString returns an error. *)
Rewrite(c) ==
  /\ calls' = [calls EXCEPT ![done + 1] = c]
  /\ done' = done + 1 /\ rules' = <<>>
  /\ UNCHANGED <<written, pass, context>>

Refuse ==
  /\ pass' = "refused"
  /\ UNCHANGED <<written, calls, done, rules, context>>

(* Text that is not a string of calls is refused by the first evaluation   *)
(* or by the second.                                                       *)
NextPass ==
  /\ pass \in {"first", "second"} /\ done = Len(calls)
  /\ \/ calls = <<>> /\ Refuse
     \/ /\ calls # <<>>
        /\ pass' = (IF pass = "first" THEN "second" ELSE "third") /\ done' = 0
        /\ UNCHANGED <<written, calls, rules, context>>

-----------------------------------------------------------------------------
(* The first evaluation. *)

(* int(n) of a float64 cuts towards zero. *)
Trunc(t) == IF t < 0 THEN -((-t) \div 10) ELSE t \div 10

Cut(x)  == IF x.kind = "number" THEN Number(10 * Trunc(x.tenths)) ELSE x
Bare(x) == IF x.kind = "string" THEN x.reads ELSE x

(* What outof prints for its first argument: any string is printed bare.   *)
Threshold(x) == IF x.kind = "principal" THEN Word ELSE Bare(Cut(x))

outof(args) ==
  Call("outof", [i \in DOMAIN args |-> IF i = 1 THEN Threshold(args[1]) ELSE Bare(args[i])])

(* and, or, outof: what outof is called with. *)
Given(c) ==
  CASE c.gate = "And" -> <<Number(10 * Len(c.args))>> \o c.args
    [] c.gate = "Or"  -> <<Number(10)>> \o c.args
    [] OTHER          -> c.args

Fails(args) ==
  \/ Len(args) < 2
  \/ \E i \in DOMAIN args : args[i] = Word \/ (i > 1 /\ args[i].kind = "number")

FirstPass ==
  /\ pass = "first" /\ done < Len(calls)
  /\ LET args == Given(calls[done + 1]) IN
       \/ Fails(args) /\ Refuse
       \/ ~Fails(args) /\ Rewrite(outof(args))

-----------------------------------------------------------------------------
(* The second evaluation: ID goes in front. *)

firstPass(args) == Call("outof", <<ID>> \o [i \in DOMAIN args |-> Cut(args[i])])

Unknown(args) == \E i \in DOMAIN args : args[i] = Word

SecondPass ==
  /\ pass = "second" /\ done < Len(calls)
  /\ LET args == calls[done + 1].args IN
       \/ Unknown(args) /\ Refuse
       \/ ~Unknown(args) /\ Rewrite(firstPass(args))

-----------------------------------------------------------------------------
(* The third evaluation. *)

SignedBy(i)         == [kind |-> "signed_by", index |-> i]
NOutOf(n, policies) == [n |-> n, rules |-> policies]

(* Mutants: a t larger than n is refused; positions are counted per call.  *)
InRangeStrict(t, n) == t >= 0 /\ t <= n
PositionLocal == Cardinality({i \in DOMAIN rules : rules[i].kind = "signed_by"})

InRange(t, n) == t >= 0 /\ t <= n + 1
Position      == IDNum

(* The sanity checks of secondPass. *)
Sane(args) ==
  /\ Len(args) >= 3
  /\ args[1] = ID /\ args[2].kind = "number"
  /\ InRange(Trunc(args[2].tenths), Len(args) - 2)

(* It handles the rest of its arguments one by one.  A policy is taken as  *)
(* it is; a principal joins the context.                                   *)
Handle(x) ==
  \/ /\ x.kind = "principal"
     /\ rules' = Append(rules, SignedBy(Position))
     /\ IDNum' = IDNum + 1 /\ principals' = Append(principals, x.principal)
     /\ UNCHANGED <<written, calls, pass, done>>
  \/ /\ x.kind = "call"
     /\ rules' = Append(rules, x)
     /\ UNCHANGED <<written, calls, pass, done, context>>
  \/ x.kind \notin {"principal", "call"} /\ Refuse

ThirdPass ==
  /\ pass = "third" /\ done < Len(calls)
  /\ LET args == calls[done + 1].args
         n    == Len(args) - 2
     IN \/ ~Sane(args) /\ Refuse
        \/ Sane(args) /\ Len(rules) < n /\ Handle(args[Len(rules) + 3])
        \/ Sane(args) /\ Len(rules) = n /\ Rewrite(NOutOf(Trunc(args[2].tenths), rules))

(* The envelope: the policy of the outermost call, and the identities. *)
Return ==
  /\ pass = "third" /\ done = Len(calls)
  /\ pass' = "compiled"
  /\ UNCHANGED <<written, calls, done, rules, context>>

Next == FirstPass \/ SecondPass \/ ThirdPass \/ NextPass \/ Return

Spec == Init /\ [][Next]_vars

-----------------------------------------------------------------------------
(* What a written policy means, in terms of the principals that signed,    *)
(* and what a compiled one means to a peer.                                *)

Rules(c) == IF c.gate = "OutOf" THEN Tail(c.args) ELSE c.args

(* A gate over principals and gates; OutOf with a number, at most one more *)
(* than there are arguments.                                               *)
WellFormedCall(c) ==
  /\ c.gate = "OutOf" =>
       /\ Len(c.args) > 1 /\ Bare(c.args[1]).kind = "number"
       /\ Trunc(Bare(c.args[1]).tenths) \in 0..Len(c.args)
  /\ Len(Rules(c)) >= 1
  /\ \A i \in DOMAIN Rules(c) : Rules(c)[i].kind \in {"principal", "call"}

WellFormed(p) == p # <<>> /\ \A k \in DOMAIN p : WellFormedCall(p[k])

(* As written: And wants all its arguments, Or wants one, OutOf wants the  *)
(* number written (its integer part).  S is who signed.                    *)
Means(S) ==
  LET holds[k \in DOMAIN written] ==
        LET c    == written[k]
            true == {i \in DOMAIN Rules(c) :
                       LET x == Rules(c)[i]
                       IN  IF x.kind = "call" THEN holds[x.place] ELSE x.principal \in S}
        IN CASE c.gate = "And" -> true = DOMAIN Rules(c)
             [] c.gate = "Or"  -> true # {}
             [] OTHER          -> Cardinality(true) >= Trunc(Bare(c.args[1]).tenths)
  IN holds[Len(written)]

(* As compiled: signed_by i wants the i-th identity of the envelope.       *)
Satisfied(S) ==
  LET holds[k \in DOMAIN calls] ==
        Cardinality({i \in DOMAIN calls[k].rules :
                       LET x == calls[k].rules[i]
                       IN  IF x.kind = "call" THEN holds[x.place]
                           ELSE /\ x.index \in 0..Len(principals) - 1
                                /\ principals[x.index + 1] \in S})
          >= calls[k].n
  IN holds[Len(calls)]

(* FromString compiles a policy to one that the same signers satisfy,      *)
(* whatever the nesting: no principal is taken for another, no threshold   *)
(* is lost on the way through the text.                                    *)
SameMeaning ==
  pass = "compiled" => \A S \in SUBSET Principal : Satisfied(S) <=> Means(S)

(* Exactly the well-formed policies compile: FromString refuses            *)
(* everything else, at one of its passes.                                  *)
AcceptsWellFormed ==
  /\ pass = "compiled" => WellFormed(written)
  /\ pass = "refused"  => ~WellFormed(written)

(* The signed_by rules of the compiled policy, by call and place in it.    *)
References ==
  {r \in UNION {{k} \X DOMAIN calls[k].rules : k \in DOMAIN calls} :
     calls[r[1]].rules[r[2]].kind = "signed_by"}

Index(r)     == calls[r[1]].rules[r[2]].index
Before(r, s) == r[1] < s[1] \/ (r[1] = s[1] /\ r[2] < s[2])

(* The identities of the envelope are referred to once each, in the order  *)
(* they were met: inner and outer calls share one counter and it never     *)
(* falls out of step with the list it counts.                              *)
IdentitiesInStep ==
  pass = "compiled" =>
    /\ IDNum = Len(principals)
    /\ {Index(r) : r \in References} = 0..Len(principals) - 1
    /\ \A r, s \in References : Before(r, s) <=> Index(r) < Index(s)

(* Every call is made once in an evaluation, and a policy under way has no *)
(* more rules than its call has arguments.                                 *)
TypeOK ==
  /\ pass \in {"first", "second", "third", "compiled", "refused"}
  /\ DOMAIN calls = DOMAIN written /\ done \in 0..Len(calls)
  /\ IDNum \in Nat /\ principals \in Seq(Principal)
  /\ rules # <<>> => done < Len(calls) /\ Len(rules) <= Len(calls[done + 1].args) - 2

(* FromString keeps to these from the text to the compiled policy. *)
CompilerInv == TypeOK /\ AcceptsWellFormed /\ IdentitiesInStep /\ SameMeaning
================================================================================
