\* The setter's unit tests, each in every schedule of its goroutines.
SPECIFICATION Spec
INVARIANT TestsPass
