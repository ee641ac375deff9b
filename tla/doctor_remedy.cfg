SPECIFICATION DoctorSpec
CONSTANT MaxDefects = 1
INVARIANT HookApplyFixes
CHECK_DEADLOCK FALSE
