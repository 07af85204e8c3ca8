SPECIFICATION Spec
CONSTANT Jobs <- SmallAndLarge
INVARIANTS Apart FillsItsSize ReadsBack
CHECK_DEADLOCK FALSE
