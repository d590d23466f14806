\* The promise of the programs' deferred Terminate.
SPECIFICATION Spec
CONSTANT N = 3
INVARIANTS
    AlwaysTerminated
