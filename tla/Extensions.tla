----------------------------- MODULE Extensions ------------------------------
(* extensions/ with use_cases/extensions.py and project/security_enforcer, *)
(* security_audit: a local extension passes its gates in order (conflict,  *)
(* permissions, signature) and is then recorded in the index, which is     *)
(* read again and replaced as a whole, and audited last.                   *)
EXTENDS FiniteSets, Sequences, Functions

CONSTANTS
  Procs,
  Names, Sources,          \* extensions, and the directories they come from
  NameOf, Permissions,     \* of each source its name and the capabilities it asks for
  Policies                 \* the security profile: of each capability its policy

ExtensionsAssumption ==
  /\ NameOf \in [Sources -> Names]
  /\ Permissions \in [Sources -> Seq(DOMAIN Policies)]
  /\ \A c \in DOMAIN Policies : Policies[c] \in {"allow", "prompt", "deny"}

VARIABLES
  index,    \* installed.json
  proc,     \* proc[p]: how far an install or a removal is
  audit,    \* security-audit.jsonl
  recorded  \* the sources that were ever written to the index

vars == <<index, proc, audit, recorded>>

Idle == [at |-> "idle", source |-> {}, consent |-> FALSE, todo |-> <<>>, doc |-> {}]
Decision == [source : Sources, capability : DOMAIN Policies, decision : {"allowed", "warned", "denied"}]
Unsigned == [unsigned : Sources]

TypeOK ==
  /\ index \subseteq Sources /\ audit \subseteq Decision \cup Unsigned /\ recorded \subseteq Sources
  /\ \A p \in Procs :
       /\ proc[p].at \in {"idle", "checking", "signing", "recording", "writing", "auditing"}
       /\ proc[p].source \subseteq Sources /\ proc[p].doc \subseteq Sources
       /\ proc[p].consent \in BOOLEAN

Init == index = {} /\ proc = [p \in Procs |-> Idle] /\ audit = {} /\ recorded = {}

Source(p) == CHOOSE s \in Sources : s \in proc[p].source
Goto(p, at) == proc' = [proc EXCEPT ![p].at = at]
Rejected(p) == proc' = [proc EXCEPT ![p] = Idle]

Conflicts(source) == \E s \in index : NameOf[s] = NameOf[source]

\* detect_conflicts, on the index as it is now.
Install(p, source, consent) ==
  /\ proc[p].at = "idle" /\ ~Conflicts(source)
  /\ proc' = [proc EXCEPT ![p] = [Idle EXCEPT !.at = "checking", !.source = {source},
                                    !.consent = consent, !.todo = Permissions[source]]]
  /\ UNCHANGED <<index, audit, recorded>>

\* validate_action: the rule of the capability.
Decide(capability) ==
  CASE Policies[capability] = "allow" -> "allowed"
    [] Policies[capability] = "prompt" -> "warned"
    [] OTHER -> "denied"

\* Mutant: only an explicit denial rejects.
Passes_Warned(decision) == decision # "denied"

Passes(decision) == decision = "allowed"

\* validate_permissions: the next capability, audited before it is judged.
Check(p) ==
  /\ proc[p].at = "checking" /\ proc[p].todo # <<>>
  /\ LET c == Head(proc[p].todo) IN
       /\ audit' = audit \cup {[source |-> Source(p), capability |-> c, decision |-> Decide(c)]}
       /\ IF Passes(Decide(c)) THEN proc' = [proc EXCEPT ![p].todo = Tail(@)] ELSE Rejected(p)
  /\ UNCHANGED <<index, recorded>>

Checked(p) ==
  /\ proc[p].at = "checking" /\ proc[p].todo = <<>> /\ Goto(p, "signing")
  /\ UNCHANGED <<index, audit, recorded>>

\* verify_signature never succeeds: an install needs consent.
Consent(p) ==
  /\ proc[p].at = "signing"
  /\ IF proc[p].consent THEN Goto(p, "recording") ELSE Rejected(p)
  /\ UNCHANGED <<index, audit, recorded>>

\* record: whatever has the name by now is replaced.
With(doc, source) == {s \in doc : NameOf[s] # NameOf[source]} \cup {source}

LoadToRecord(p) ==
  /\ proc[p].at = "recording"
  /\ proc' = [proc EXCEPT ![p].at = "writing", ![p].doc = With(index, Source(p))]
  /\ UNCHANGED <<index, audit, recorded>>

\* remove, of a name that is installed.
LoadToRemove(p, name) ==
  /\ proc[p].at = "idle" /\ \E s \in index : NameOf[s] = name
  /\ proc' = [proc EXCEPT ![p].at = "writing", ![p].doc = {s \in index : NameOf[s] # name}]
  /\ UNCHANGED <<index, audit, recorded>>

\* _write: a temporary file that replaces the index.
Write(p) ==
  /\ proc[p].at = "writing" /\ index' = proc[p].doc
  /\ recorded' = recorded \cup proc[p].source
  /\ IF proc[p].source = {} THEN Rejected(p) ELSE Goto(p, "auditing")
  /\ UNCHANGED audit

\* _audit_unsigned, after the install.
Audit(p) ==
  /\ proc[p].at = "auditing" /\ audit' = audit \cup {[unsigned |-> Source(p)]} /\ Rejected(p)
  /\ UNCHANGED <<index, recorded>>

\* A kill; a write that fails leaves the index as it is.
Kill(p) == proc[p].at # "idle" /\ Rejected(p) /\ UNCHANGED <<index, audit, recorded>>

Next ==
  \E p \in Procs :
    \/ \E s \in Sources, consent \in BOOLEAN : Install(p, s, consent)
    \/ Check(p) \/ Checked(p) \/ Consent(p) \/ LoadToRecord(p)
    \/ \E name \in Names : LoadToRemove(p, name)
    \/ Write(p) \/ Audit(p) \/ Kill(p)

Spec == Init /\ [][Next]_vars

(***************************************************************************)
(* Properties.                                                             *)
(***************************************************************************)

\* However installs, removals and kills interleave: names are unique, all that
\* is installed has passed every gate, with an audited decision for each
\* capability, and the log tells only of installs that were made.
IndexIsGated ==
  /\ \A s, t \in index : NameOf[s] = NameOf[t] => s = t
  /\ \A s \in index : \A c \in Range(Permissions[s]) :
       Policies[c] = "allow" /\ [source |-> s, capability |-> c, decision |-> "allowed"] \in audit
  /\ \A s \in Sources : [unsigned |-> s] \in audit => s \in recorded
=============================================================================
