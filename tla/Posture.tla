------------------------------ MODULE Posture ------------------------------
(***************************************************************************)
(* What a node's credentials allow, measured against what it declares      *)
(* (hookprobe/posture.py), at its start and by the selftest on a clock     *)
(* (hookprobe/selftest.py).  A node declares a posture, and a writing one  *)
(* may have pinned the radius it accepts.  The cluster is asked for a list *)
(* of what is granted and a few questions the list cannot answer, the      *)
(* cloud account for one simulation.  The tool that asks may be missing    *)
(* from the image, a question may fail, and some silences are read as the  *)
(* absence of a credential or of a grant.  What the far side grants        *)
(* changes while the node runs.                                            *)
(***************************************************************************)
EXTENDS FiniteSets

CONSTANTS ListedGrants, \* what only a row of `can-i --list` shows
          KubeGrants,   \* what the cluster-wide questions name
          AwsGrants,    \* the actions simulated
          Undeclared,   \* no radius was pinned
          Radii,        \* bound: the radii an operator may have pinned, or not
          Mounts        \* bound: the credentials a node may be given

\* What may be silent beside the questions and the rows: the list as a whole, the
\* metadata service, and a CLI that finds no credentials.
Silences == {"list", "metadata", "locate"}
Sources  == {"kubeconfig", "keys", "profile", "role"}

PostureAssumption ==
    /\ ListedGrants \cap KubeGrants = {} /\ (ListedGrants \cup KubeGrants) \cap AwsGrants = {}
    /\ (ListedGrants \cup KubeGrants \cup AwsGrants) \cap Silences = {}
    /\ Radii \subseteq {Undeclared} \cup SUBSET (ListedGrants \cup KubeGrants \cup AwsGrants)
    /\ Mounts \subseteq SUBSET Sources

VARIABLES declares,     \* the guard, the switch and the radius the operator set
          image,        \* the measuring tools in it
          mounted,      \* the credentials it has, a role the metadata service offers among them
          granted,      \* what the far side would allow, of all
          node,         \* down, up, refused
          watched,      \* the selftest's last answer on posture, and what that measurement missed
          missed        \* history: what the measurement at the start missed

postureVars == <<declares, image, mounted, granted, node, watched, missed>>

Tools  == {"kubectl", "aws"}
OfKube == ListedGrants \cup KubeGrants
Grants == OfKube \cup AwsGrants

\* A mode nobody knows is enforce; a radius that cannot be read is an empty one.
Declarations == [guard : {"readonly", "danger-only"}, mode : {"enforce", "warn", "off", "typo"},
                 radius : Radii]

PostureInit ==
    /\ declares \in Declarations
    /\ image \in SUBSET Tools /\ mounted \in Mounts
    /\ granted \in SUBSET Grants
    /\ node = "down"
    /\ watched = [held |-> "none", missed |-> {}] /\ missed = {}

-----------------------------------------------------------------------------
\* check_kube: the rows of the list and the questions; a list or a question that fails is
\* an error, a row left out of a list that came is not.
MeasureKube(silent) ==
    LET asked == "kubeconfig" \in mounted /\ "kubectl" \in image
        rows  == IF "list" \in silent THEN {} ELSE ListedGrants \ silent
    IN  [present |-> "kubeconfig" \in mounted,
         allows  |-> IF asked THEN granted \cap (rows \cup (KubeGrants \ silent)) ELSE {},
         unsure  |-> "kubeconfig" \in mounted /\ (silent \cap (KubeGrants \cup {"list"}) # {} \/ ~asked),
         missing |-> "kubeconfig" \in mounted /\ ~asked]

\* check_aws: where nothing is configured the metadata service is asked, and its silence
\* is an absence; so is a CLI that cannot locate credentials.  The rest is one simulation,
\* incomplete where an answer is missing.
MeasureAws(silent) ==
    LET offered == mounted \cap {"keys", "profile"} # {} \/ ("role" \in mounted /\ "metadata" \notin silent)
        located == "keys" \in mounted \/ ("role" \in mounted /\ "locate" \notin silent)
        asked   == "aws" \in image
        present == offered /\ (located \/ ~asked)
    IN  [present |-> present,
         allows  |-> IF present /\ asked THEN (granted \cap AwsGrants) \ silent ELSE {},
         unsure  |-> present /\ (silent \cap AwsGrants # {} \/ ~asked),
         missing |-> present /\ ~asked]

\* What the identity can read is on the record and decides nothing, so it is left out.
Beyond(measured, radius) == IF radius = Undeclared THEN {} ELSE measured \ radius

\* Which silences count, and in which order, is the same for both postures; a violation
\* outranks them all.
Verdict(guard, radius, kube, aws) ==
    LET wider == IF guard = "readonly" THEN kube.allows \cup aws.allows
                 ELSE Beyond(kube.allows \cup aws.allows, radius)
        passed == IF guard = "readonly"
                  THEN IF kube.present \/ aws.present THEN "readonly-confirmed" ELSE "no-credentials"
                  ELSE IF radius = Undeclared THEN "recorded" ELSE "within-declared-radius"
    IN CASE wider # {}                 -> "wider-than-declared"
         [] kube.missing \/ aws.missing -> "unmeasurable"
         [] kube.unsure \/ aws.unsure   -> "unverifiable"
         [] OTHER                       -> passed

Judged(silent, radius) ==
    Verdict(declares.guard, radius, MeasureKube(silent), MeasureAws(silent))

\* What nobody declared: any grant a credential here reaches, on a read-only node, and what
\* is not in the radius a writing one pinned.
Undisclosed ==
    LET reached == (IF "kubeconfig" \in mounted THEN granted \cap OfKube ELSE {})
                   \cup (IF mounted \cap {"keys", "role"} # {} THEN granted \cap AwsGrants ELSE {})
    IN IF declares.guard = "readonly" THEN reached ELSE Beyond(reached, declares.radius)

\* What no error tells of: the rows left out of a list, and all an instance role may do
\* when nothing else is configured and the metadata service is silent, or when the CLI
\* does not find the role.
Unnoticed(silent) ==
    LET unasked == "metadata" \in silent /\ mounted \cap {"keys", "profile"} = {}
        unfound == "locate" \in silent /\ "keys" \notin mounted /\ "aws" \in image
    IN  (silent \cap ListedGrants) \cup (IF unasked \/ unfound THEN AwsGrants ELSE {})

Missed(silent) == Undisclosed \ Unnoticed(silent)

Enforced == declares.mode \in {"enforce", "typo"}

\* on_startup: the node that may not start on this verdict.
Refused(verdict) ==
    /\ Enforced
    /\ \/ verdict = "wider-than-declared"
       \/ verdict = "unmeasurable" /\ (declares.guard = "readonly" \/ declares.radius # Undeclared)
       \/ verdict = "unverifiable" /\ declares.guard # "readonly" /\ declares.radius # Undeclared

Start(silent) ==
    /\ node = "down"
    /\ LET verdict == IF declares.mode = "off" THEN "skipped" ELSE Judged(silent, declares.radius)
       IN node' = IF Refused(verdict) THEN "refused" ELSE "up"
    /\ missed' = Missed(silent)
    /\ UNCHANGED <<declares, image, mounted, granted, watched>>

\* posture_still_holds: TRUE is a boundary shown, unproven one that could not be.
Held(verdict) ==
    IF verdict = "unverifiable"
    THEN IF declares.guard # "readonly" /\ declares.radius # Undeclared THEN "failed" ELSE "unproven"
    ELSE IF verdict \in {"wider-than-declared", "unmeasurable"} THEN "failed" ELSE "held"

Watched(silent, radius) ==
    [held |-> Held(Judged(silent, radius)), missed |-> Missed(silent)]

\* The selftest as it was: the radius stayed at home.
HourlyUndeclared(silent) ==
    /\ node = "up"
    /\ watched' = Watched(silent, IF declares.guard = "readonly" THEN declares.radius ELSE Undeclared)
    /\ UNCHANGED <<declares, image, mounted, granted, node, missed>>

Hourly(silent) ==
    /\ node = "up"
    /\ watched' = Watched(silent, declares.radius)
    /\ UNCHANGED <<declares, image, mounted, granted, node, missed>>

\* The far side, at any time; the image, when it is built again.
Regrant == /\ \E g \in Grants : granted' = IF g \in granted THEN granted \ {g} ELSE granted \cup {g}
           /\ UNCHANGED <<declares, image, mounted, node, watched, missed>>

Redeploy == /\ node' = "down" /\ image' \in SUBSET Tools /\ watched' = [held |-> "none", missed |-> {}]
            /\ missed' = {}
            /\ UNCHANGED <<declares, mounted, granted>>

PostureNext ==
    \/ \E silent \in SUBSET (Grants \cup Silences) : Start(silent) \/ Hourly(silent)
    \/ Regrant \/ Redeploy

-----------------------------------------------------------------------------
\* No silence is a pass, but those no error tells of.  An answer that the boundary holds,
\* or a start under enforce of a writing node that pinned its radius, was given when the
\* credentials reached nothing beyond the declaration, whichever tool was missing and
\* whichever question failed, unless a list left a row out or an instance role did not
\* show (selftest.posture_still_holds, posture.on_startup).
OnlyKnownSilencesPass ==
    /\ watched.held = "held" => watched.missed = {}
    /\ (node = "up" /\ Enforced /\ declares.guard # "readonly" /\ declares.radius # Undeclared)
          => missed = {}
=============================================================================
