SPECIFICATION FairSpec
CONSTANTS
    Vanishing <- PortAndServer
    MaxChanges = 3
    MaxErrors = 1
INVARIANTS TypeOK OnePerMachine
PROPERTIES ImplementsFinalizerProtocol ServerGoesFirst MachineComesUp DeletionCompletes
