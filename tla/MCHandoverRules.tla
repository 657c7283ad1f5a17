-------------------------- MODULE MCHandoverRules ---------------------------
(***************************************************************************)
(* AbstractHandover with the rule of the coordinator (m_handoverMode,      *)
(* which the code never changes) chosen in the initial state: HandoverMode *)
(* or "THRESHOLD", each in the whole behaviour, as one instance for TLC.   *)
(***************************************************************************)
EXTENDS MCAbstractHandover

VARIABLE rule

Threshold == INSTANCE AbstractHandover WITH HandoverMode <- "THRESHOLD"

ruleVars == <<vars, rule>>

RulesInit == Init /\ rule \in {HandoverMode, "THRESHOLD"}

\* A step of the rule that was chosen.
Under(StepOfMode, StepOfThreshold) ==
    /\ UNCHANGED rule
    /\ \/ rule = HandoverMode /\ StepOfMode
       \/ rule = "THRESHOLD" /\ StepOfThreshold

RulesNext ==
    \/ rule = HandoverMode /\ Next /\ UNCHANGED rule
    \/ rule = "THRESHOLD" /\ Threshold!Next /\ UNCHANGED rule

\* Fairness of AbstractHandover, action by action.
RulesFairness ==
    /\ WF_ruleVars(Under(TriggerUeAssociationUpdate /\ TakeUp,
                         Threshold!TriggerUeAssociationUpdate /\ Threshold!TakeUp))
    /\ WF_ruleVars(Under(PerformHandover /\ TakeUp,
                         Threshold!PerformHandover /\ Threshold!TakeUp))
    /\ WF_ruleVars(Under(Tick /\ UNCHANGED outstanding,
                         Threshold!Tick /\ UNCHANGED outstanding))
    /\ \A c \in Cell :
         WF_ruleVars(Under(McSetupCompleted(c) /\ UNCHANGED outstanding,
                           Threshold!McSetupCompleted(c) /\ UNCHANGED outstanding))
    /\ WF_ruleVars(Under(HandoverCompleted, Threshold!HandoverCompleted))

RulesSpec == RulesInit /\ [][RulesNext]_ruleVars /\ RulesFairness

-----------------------------------------------------------------------------
\* When the SINRs stop changing, the UE ends up where the rule in force wants
\* it: StableRadioSettles of AbstractHandover for each rule.
EachRuleSettles ==
    /\ rule = HandoverMode => StableRadioSettles
    /\ rule = "THRESHOLD" => Threshold!StableRadioSettles

\* With the TTT rules, a UE that attached in outage is told to connect when a
\* mmWave cell can serve it; with the threshold rule it is not
\* (the run initial_outage_threshold).
TttConnectsAfterOutage == rule = HandoverMode => ConnectsAfterInitialOutage
=============================================================================
