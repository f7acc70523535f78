SPECIFICATION FairSpec
CONSTANT Irqs <- FiveIrqs
INVARIANTS SafeAfterInit NothingLeftInService
PROPERTIES DismissesOnlySpurious FirstPendingIsServed
