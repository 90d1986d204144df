SPECIFICATION Spec
INVARIANT GaveUpIsAnError
