---------------------------- MODULE MCDomainVerify ----------------------------
(* Small instance of DomainVerify for TLC. *)
EXTENDS DomainVerify, TLC

CONSTANTS h1, h2

Skill(scheme, host, fuzzy) == [scheme |-> scheme, host |-> host, fuzzy |-> fuzzy]

MCSkillUri == {Skill("https", h1, FALSE), Skill("https", h2, TRUE), Skill("http", h2, FALSE)}

(* A version that declares both hosts, and one that declares one of them. *)
MCSkills == {{Skill("https", h1, FALSE), Skill("https", h2, TRUE)},
             {Skill("https", h1, FALSE), Skill("http", h2, FALSE)}}

MCPriority == {PRIORITY_UNSET}

MCSymmetry == Permutations(App) \cup Permutations(Task)
===============================================================================
