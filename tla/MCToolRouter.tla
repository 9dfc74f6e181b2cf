----------------------------- MODULE MCToolRouter ------------------------------
(***************************************************************************)
(* Instance of ToolRouter for TLC: three registrations, of one tool or two;*)
(* two calls for the same task and params, of two users of one tenant.     *)
(***************************************************************************)
EXTENDS ToolRouter

CONSTANTS key, c1, c2, u1, u2, tenant

MCLimits == [e \in Payers |-> IF e = tenant THEN 2 ELSE 1]
MCKeyOf == [c \in Calls |-> key]
MCPayersOf == [c \in Calls |-> {tenant, IF c = c1 THEN u1 ELSE u2}]
================================================================================
