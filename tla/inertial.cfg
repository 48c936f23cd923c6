SPECIFICATION ISpec
CONSTANTS
    BufferLen = 3
    SequenceModulus = 5
    Readings <- Reading
    ByteModulus = 4
    CalibrationSamples = 2
    OneG = 4
    Biases <- Drift
    Motions <- Push
    MaxMotion = 2
INVARIANTS
    ITypeOK
    LatestEndsHistory
    SamplesAreOwn
    SampleIsAcceleration
PROPERTY ImplementsWindow
