\* The scale-down of loadgen-k8s, without anything else.
CONSTANTS
  MaxInstances = 4
  FirstStep = 2
  Flags <- Down
SPECIFICATION Spec
INVARIANT ScaleMeasures
