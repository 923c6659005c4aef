-------------------------- MODULE MCPropertyGroups --------------------------
EXTENDS PropertyGroups

MCScenarios ==
  {[base |-> 3], [base |-> 3, composite |-> 1],
   [color |-> 2, coordinate |-> 1, multi |-> 1]}
=============================================================================
